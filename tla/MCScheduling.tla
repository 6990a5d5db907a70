----------------------------- MODULE MCScheduling -----------------------------
(* Instances of Scheduling for TLC; the .cfg files choose the sizes. *)
EXTENDS Scheduling, TLC

NameSymmetry == Permutations(Names)
=============================================================================
