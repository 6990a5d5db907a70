----------------------------- MODULE MCThreadPool -----------------------------
(* Instances of ThreadPool for TLC; the .cfg files choose the sizes. *)
EXTENDS ThreadPool
=============================================================================
