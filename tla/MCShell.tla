------------------------------- MODULE MCShell -------------------------------
(* An instance of Shell for TLC. *)
EXTENDS Shell

MCPrograms == {"ls", "dump"}

(* `typo' is not found, `dump' fills the pipe; `file' is where it is read  *)
(* or written.                                                             *)
MCLines == { <<"ls">>, <<"typo">>, <<"ls", "&">>, <<"!!">>, <<"help">>, <<"echo", "exit">>,
             <<"typo", ">", "file">>, <<"ls", "<">>, <<"dump", "|", "ls">>, <<"ls", "|", "typo">>,
             <<"typo", "|", "typo", "&">>, <<"ls", "|", "ls", "<", "file">> }
=============================================================================
