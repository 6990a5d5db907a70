------------------------------ MODULE MCProcFile ------------------------------
(* Instances of ProcFile for TLC; the .cfg file chooses the sizes. *)
EXTENDS ProcFile
=============================================================================
