---------------------------- MODULE MCVirtualMemory ----------------------------
(* Instances of VirtualMemory for TLC; the .cfg files choose the sizes. *)
EXTENDS VirtualMemory

(* A backing store whose bytes are all different, and none of them 0. *)
DistinctBytes == [a \in 0 .. N_PAGE_TABLE_ENTRY * PAGE_FRAME_SIZE - 1 |-> a + 1]
=============================================================================
