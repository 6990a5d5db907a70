-------------------------------- MODULE Shell --------------------------------
(***************************************************************************)
(* Project 2: simple-shell.c, with the processes it starts.                *)
(*                                                                         *)
(* A forked child that does not get to its program goes on in the same     *)
(* code: every process has the shell's variables, and can become a shell.  *)
(* Where a shell reads its lines from is left out: any shell may read any  *)
(* line at any time, or never again.                                       *)
(***************************************************************************)
EXTENDS Integers, Sequences, FiniteSets, FiniteSetsExt

CONSTANTS MaxPid,      \* processes that can exist at a time
          Lines,       \* what can be typed: sequences of words
          Programs,    \* the words execvp finds
          BigOutput    \* the programs among them that write more than a pipe holds

NoFile == "none"    \* in_enable or out_enable is 0

ASSUME ShellAssumption ==
    /\ MaxPid \in Nat \ {0}
    /\ Lines \subseteq Seq(STRING)
    /\ \A l \in Lines : l # <<>> /\ \A k \in DOMAIN l : l[k] # NoFile
    /\ BigOutput \subseteq Programs

(* A line whose first word is empty is read and skipped: it is left out. *)
ASSUME FirstWordAssumption == \A l \in Lines : l[1] # ""

Pids    == 1 .. MaxPid
Main    == 1        \* the shell that was started first
Outside == 0        \* parent of Main and of orphans; no awaited child, no pipe

NoCommand == [args |-> <<>>, ampersand |-> FALSE, in_file |-> NoFile,
              out_file |-> NoFile, pipe_enable |-> FALSE]

(* parent: who may wait for it; child: whom it waits for; pipe: the process *)
(* that reads its standard output, or did until it ended; mem: the shell's  *)
(* variables (of a program its name); typed: the line last read, `!!'       *)
(* apart; background: that line of its parent had an & when the process was *)
(* forked.                                                                  *)
NoProcess == [pc |-> "free", parent |-> Outside, child |-> Outside, pipe |-> Outside,
              mem |-> NoCommand, typed |-> <<>>, background |-> FALSE]

VARIABLE table   \* of processes, by Pids

-----------------------------------------------------------------------------
(* Reading a line *)

(* One round of the loop over the words; mode tells what the next word is, *)
(* "break" that the loop has been left.                                    *)
TakeWord(s, word) ==
    CASE s.mode \in {"exit", "break"} -> s
      [] s.mode = "in"  -> [s EXCEPT !.mem.in_file = word, !.mode = "word"]
      [] s.mode = "out" -> [s EXCEPT !.mem.out_file = word, !.mode = "word"]
      [] s.mode = "word" /\ word = "exit" -> [s EXCEPT !.mode = "exit"]
      [] s.mode = "word" /\ word = "help" -> [s EXCEPT !.mode = "break"]
      [] s.mode = "word" /\ word = "&"    -> [s EXCEPT !.mem.ampersand = TRUE, !.mode = "break"]
      [] s.mode = "word" /\ word = "<"    -> [s EXCEPT !.mode = "in"]
      [] s.mode = "word" /\ word = ">"    -> [s EXCEPT !.mode = "out"]
      [] OTHER -> [s EXCEPT !.mem.args = Append(@, word),
                            !.mem.pipe_enable = (@ \/ word = "|")]

(* Mutant: an old > is kept. *)
ResetKeepsOutput(mem) == [NoCommand EXCEPT !.out_file = mem.out_file]

reset_shell(mem) == NoCommand

(* The variables after the loop; with `!!', or nothing to repeat, as they were. *)
Parsed(line, mem) ==
    LET loop[k \in 0 .. Len(line)] ==
            IF k = 0 THEN [mem |-> reset_shell(mem), mode |-> "word"]
            ELSE TakeWord(loop[k - 1], line[k])
    IN  IF line[1] = "!!" THEN [mem |-> mem, mode |-> "break"] ELSE loop[Len(line)]

-----------------------------------------------------------------------------
(* Processes *)

GoOn(P, p, pc) == [P EXCEPT ![p].pc = pc]

(* The processes after the end of p: its children lose their parent, those *)
(* whose output it reads write to nobody, and p waits to be waited for.    *)
Ended(p) ==
    [q \in Pids |->
        IF q = p THEN IF table[p].parent = Outside THEN NoProcess
                      ELSE [NoProcess EXCEPT !.pc = "zombie", !.parent = table[p].parent,
                                             !.pipe = table[p].pipe,
                                             !.background = table[p].background]
        ELSE IF table[q].parent = p /\ table[q].pc = "zombie" THEN NoProcess
        ELSE [table[q] EXCEPT !.parent = IF @ = p THEN Outside ELSE @,
                              !.pipe = IF @ = p THEN Outside ELSE @]]

(* fgets, strsep and the loop.  `exit' ends the shell, and so does a <  or *)
(* > that no name follows: strcpy reads from NULL.                         *)
Read(p, line) ==
    LET s == Parsed(line, table[p].mem)
    IN  /\ table[p].pc = "prompt"
        /\ table' = IF s.mode \in {"exit", "in", "out"} THEN Ended(p)
                    ELSE [table EXCEPT ![p].mem = s.mem, ![p].pc = "run",
                                       ![p].typed = IF line[1] = "!!" THEN @ ELSE line]

FreePids == {p \in Pids \ {Main} : table[p].pc = "free"}

(* fork: p goes on at parentPc and the child, a copy of p, at childPc;     *)
(* pipe is where the child's standard output goes.                         *)
Forked(p, parentPc, childPc, pipe) ==
    LET c == Min(FreePids)
    IN  [table EXCEPT ![p].pc = parentPc,
                      ![p].child = IF parentPc = "prompt" THEN Outside ELSE c,
                      ![c] = [table[p] EXCEPT !.pc = childPc, !.parent = p,
                                              !.child = Outside, !.pipe = pipe,
                                              !.background = \E k \in DOMAIN table[p].typed :
                                                                table[p].typed[k] = "&"]]

(* The three ways to run a command, up to the parent's wait. *)
Run(p) ==
    LET m == table[p].mem
        how == IF m.in_file # NoFile \/ m.out_file # NoFile THEN "redirect"
               ELSE IF m.pipe_enable THEN "outer" ELSE "normal"
    IN  /\ table[p].pc = "run"
        /\ table' = IF FreePids = {} THEN GoOn(table, p, "prompt")   \* fork error!
                    ELSE Forked(p, IF m.ampersand THEN "prompt" ELSE "wait", how, table[p].pipe)

(* Mutant: one waitpid, which a stop satisfies too. *)
WaitOnce(p) ==
    LET c == table[p].child
    IN  /\ table[p].pc = "wait"
        /\ table[c].pc \in {"zombie", "stopped"}
        /\ table' = [table EXCEPT ![p].pc = "prompt", ![p].child = Outside,
                                  ![c] = IF @.pc = "zombie" THEN NoProcess ELSE @]

(* waitpid until the child has ended; that it stops is not enough. *)
Wait(p) ==
    LET c == table[p].child
    IN  /\ table[p].pc = "wait"
        /\ table[c].pc = "zombie"
        /\ table' = [table EXCEPT ![p].pc = "prompt", ![p].child = Outside, ![c] = NoProcess]

(* execvp(words[0], words): NULL kills the process, and where the program  *)
(* is not found the code goes on.                                          *)
Execvp(p, words, goesOn) ==
    table' = IF words = <<>> THEN Ended(p)
             ELSE IF words[1] \in Programs
                  THEN [table EXCEPT ![p].pc = "program", ![p].typed = <<>>,
                                     ![p].mem = [NoCommand EXCEPT !.args = <<words[1]>>]]
                  ELSE goesOn

(* Mutant: exec_normal without its exit. *)
ExecNormalGoesOn(p) ==
    /\ table[p].pc = "normal"
    /\ Execvp(p, table[p].mem.args, GoOn(table, p, "prompt"))

(* The child of exec_normal. *)
ExecNormal(p) ==
    /\ table[p].pc = "normal"
    /\ Execvp(p, table[p].mem.args, Ended(p))

(* The child of exec_redirect: without its program it is a shell. *)
ExecRedirect(p) ==
    /\ table[p].pc = "redirect"
    /\ Execvp(p, table[p].mem.args, GoOn(table, p, "prompt"))

mid(p) == Min({k \in 1 .. Len(table[p].mem.args) : table[p].mem.args[k] = "|"})
left(p) == SubSeq(table[p].mem.args, 1, mid(p) - 1)
right(p) == SubSeq(table[p].mem.args, mid(p) + 1, Len(table[p].mem.args))

(* The child of exec_pipe: the pipe and the fork of the left command; *)
(* without a process for it the child is a shell.                     *)
Pipe(p) ==
    /\ table[p].pc = "outer"
    /\ table' = IF FreePids = {} THEN GoOn(table, p, "prompt")
                ELSE Forked(p, "waitleft", "left", p)

ExecLeft(p) ==
    /\ table[p].pc = "left"
    /\ Execvp(p, left(p), GoOn(table, p, "prompt"))

(* The one waitpid for the left command, which a stop satisfies too. *)
WaitLeft(p) ==
    LET c == table[p].child
    IN  /\ table[p].pc = "waitleft"
        /\ table[c].pc \in {"zombie", "stopped"}
        /\ table' = [table EXCEPT ![p].pc = "right", ![p].child = Outside,
                                  ![c] = IF @.pc = "zombie" THEN NoProcess ELSE @]

ExecRight(p) ==
    /\ table[p].pc = "right"
    /\ Execvp(p, right(p), GoOn(table, p, "prompt"))

(* Its output does not fit into the pipe, and the reader is still waiting *)
(* for the end of the left command.                                       *)
Blocked(p) ==
    /\ table[p].pc = "program" /\ table[p].mem.args[1] \in BigOutput
    /\ table[p].pipe # Outside /\ table[table[p].pipe].pc = "waitleft"

(* A program ends, or is killed for writing to nobody. *)
End(p) ==
    /\ table[p].pc = "program" /\ ~Blocked(p)
    /\ table' = Ended(p)

(* SIGSTOP and SIGCONT, sent from elsewhere, and a signal that kills a     *)
(* program, be it blocked or stopped.                                      *)
Stop(p) == table[p].pc = "program" /\ table' = GoOn(table, p, "stopped")
Continue(p) == table[p].pc = "stopped" /\ table' = GoOn(table, p, "program")
Kill(p) == table[p].pc \in {"program", "stopped"} /\ table' = Ended(p)

ShellInit ==
    table = [p \in Pids |-> IF p = Main THEN [NoProcess EXCEPT !.pc = "prompt"] ELSE NoProcess]

(* What happens by itself: it needs neither a typed line nor a signal. *)
Step(p) == \/ Run(p) \/ Wait(p) \/ ExecNormal(p) \/ ExecRedirect(p)
           \/ Pipe(p) \/ ExecLeft(p) \/ WaitLeft(p) \/ ExecRight(p) \/ End(p)

ShellNext == \E p \in Pids : \/ Step(p) \/ Stop(p) \/ Continue(p) \/ Kill(p)
                             \/ \E line \in Lines : Read(p, line)

(* Processes run, and programs that can do so end; nobody need type, stop, *)
(* continue or kill anything.                                              *)
ShellSpec == ShellInit /\ [][ShellNext]_table /\ \A p \in Pids : WF_table(Step(p))

-----------------------------------------------------------------------------
(* Properties *)

ShellTypeOK ==
    \A p \in Pids :
        LET q == table[p]
        IN  /\ q.pc \in {"free", "prompt", "run", "wait", "normal", "redirect", "outer", "left",
                         "waitleft", "right", "program", "stopped", "zombie"}
            /\ {q.parent, q.child, q.pipe} \subseteq
                   {Outside} \cup {r \in Pids : table[r].pc # "free"}
            /\ q.pc \in {"wait", "waitleft"} <=> q.child # Outside
            /\ q.typed \in Lines \cup {<<>>}

(* Who sees a prompt again has had the command before it finished, unless  *)
(* that line ended in &: at a prompt the only children left, dead ones     *)
(* included, were sent to the background, and a shell waits for its own    *)
(* child only (simple-shell.c:84-89, 135-139, 194-198).  The left command  *)
(* of a pipe belongs to the process that reads it, which waits for it only *)
(* until it stops (:187).                                                  *)
ForegroundIsAwaited ==
    /\ ShellTypeOK
    /\ \A p, c \in Pids :
          table[p].pc = "prompt" /\ table[c].parent = p /\ table[c].pipe # p =>
              table[c].background
    /\ \A p \in Pids : table[p].child # Outside => table[table[p].child].parent = p

(* The words of a line that name a file, and those behind which nothing    *)
(* counts any more.                                                        *)
Files(line) ==
    LET files[k \in 0 .. Len(line)] ==   \* those among the first k
            IF k < 2 THEN {}
            ELSE IF line[k - 1] \in {"<", ">"} /\ k - 1 \notin files[k - 1]
                 THEN files[k - 1] \cup {k} ELSE files[k - 1]
    IN  files[Len(line)]
Counted(line) ==
    {k \in DOMAIN line :
        ~\E j \in 1 .. k : line[j] \in {"&", "help"} /\ j \notin Files(line)}

(* The command that a line, read as a whole, stands for. *)
Means(line, m) ==
    LET words == {k \in Counted(line) \ Files(line) : line[k] \notin {"<", ">"}}
        Named(op) == {k \in Counted(line) \cap Files(line) : line[k - 1] = op}
    IN  /\ Len(m.args) = Cardinality(words)
        /\ \A k \in words : m.args[Cardinality({j \in words : j <= k})] = line[k]
        /\ m.ampersand = \E k \in DOMAIN line \ Counted(line) :
                            line[k] = "&" /\ 1 .. k - 1 \subseteq Counted(line)
        /\ m.pipe_enable = \E k \in words : line[k] = "|"
        /\ m.in_file = IF Named("<") = {} THEN NoFile ELSE line[Max(Named("<"))]
        /\ m.out_file = IF Named(">") = {} THEN NoFile ELSE line[Max(Named(">"))]

(* What is run is what was typed last, whatever was run before it, in this *)
(* shell or in the shell it was forked from: nothing of an older command   *)
(* is left over, and `!!' repeats all of the newest: arguments, files and  *)
(* & (simple-shell.c:61-68, 213-274).                                      *)
RunsWhatWasTyped ==
    \A p \in Pids : table[p].pc = "run" => Means(table[p].typed, table[p].mem)

(* Why a wait for p, which runs a redirected or piped command, can last    *)
(* for ever: p or the left command has become a shell with a prompt of its *)
(* own, is blocked on a full pipe, or is stopped.                          *)
Hangs(p) ==
    \E q \in Pids : /\ q = p \/ table[q].parent = p
                    /\ table[q].pc \in {"prompt", "run", "wait", "stopped"} \/ Blocked(q)

(* A shell that waits comes back to its prompt, however its command ends   *)
(* or fails, unless one of the reasons above keeps it, or its child is     *)
(* stopped; a command without <, > or | can only be kept by a stop         *)
(* (simple-shell.c:78-81, 84-88, 106-107, 182-190).                        *)
ShellComesBack ==
    \A p \in Pids :
        table[p].pc = "wait" ~>
            \/ table[p].pc # "wait"
            \/ table[table[p].child].pc = "stopped"
            \/ /\ Hangs(table[p].child)
               /\ LET m == table[p].mem
                  IN  m.pipe_enable \/ m.in_file # NoFile \/ m.out_file # NoFile
=============================================================================
