---------------------------- MODULE MCForkJoinSort ----------------------------
(* Instances of ForkJoinSort for TLC; the .cfg files choose the sizes. *)
EXTENDS ForkJoinSort
=============================================================================
