-------------------------- MODULE MCMemoryAllocator --------------------------
(* Instances of MemoryAllocator for TLC; the .cfg files choose the sizes. *)
EXTENDS MemoryAllocator
=============================================================================
