------------------------------ MODULE ProcFile ------------------------------
(***************************************************************************)
(* Projects 1 and 2: the kernel modules behind /proc/jiffies, /proc/seconds *)
(* and /proc/pid, which keep what they know in static variables that all   *)
(* users of the file share without a lock.                                 *)
(*                                                                         *)
(* A process reads the file once, calling proc_read until it returns 0 or  *)
(* fails, or writes a number to /proc/pid once.  The steps of a handler    *)
(* are its accesses to the shared variables.                               *)
(***************************************************************************)
EXTENDS Integers, FiniteSets

CONSTANTS Processes,
          Nobody,      \* is no process
          Numbers,     \* what is written to /proc/pid, and the pids that exist
          WIDTH,       \* how many values an unsigned long has
          INT_WIDTH,   \* how many values an int has
          MSEC, HZ,    \* 1000, and the ticks of a second
          FirstJiffies,\* the kernel starts it a little below WIDTH
          MaxTicks,    \* bound: ticks while the module is loaded
          MaxLoads     \* bound: times the module is loaded

ASSUME ConstantsAssumption ==
    /\ Nobody \notin Processes
    /\ Numbers \subseteq Nat \ {0}
    /\ FirstJiffies \in 0 .. WIDTH - 1
    /\ {WIDTH, INT_WIDTH, MSEC, HZ} \subseteq Nat \ {0}
    /\ INT_WIDTH % 2 = 0 /\ MSEC <= INT_WIDTH \div 2
    /\ {MaxTicks, MaxLoads} \subseteq Nat

VARIABLES
    file,         \* which of the three
    loads,        \* how often its module has been loaded
    loaded,
    jiffies,      \* the kernel's counter
    elapsed,      \* ticks since the module was loaded, as they really are
    init,         \* secondsproc.c:16
    tasks,        \* pids of the tasks that exist
    l_pid,        \* pidproc.c:20
    completed,    \* the static variable of proc_read
    procs,        \* each process: its position in the code and what it has read
    alone,        \* the last process to open the file, while nothing disturbs it
    broken        \* a process has stopped reading before the end of the file

kernel == <<jiffies, elapsed, tasks>>
module == <<file, loads, loaded, init>>
vars == <<kernel, module, l_pid, completed, procs, alone, broken>>

(* tsk is the local variable; texts counts what was read, 2 for more than  *)
(* 1; text is the last of it.                                              *)
New == [pc |-> "new", tsk |-> 0, texts |-> 0, text |-> <<>>]

InHandler(p) == procs[p].pc \in {"clear", "fill", "print", "mark", "write"}
Active(p) == InHandler(p) \/ procs[p].pc = "between"

-----------------------------------------------------------------------------
(* The kernel around the modules *)

Tick ==
    /\ loaded /\ file # "pid"
    /\ elapsed < MaxTicks
    /\ jiffies' = (jiffies + 1) % WIDTH
    /\ elapsed' = elapsed + 1
    /\ UNCHANGED <<tasks, module, l_pid, completed, procs, alone, broken>>

(* A task exits or is created. *)
TaskChange ==
    /\ file = "pid"
    /\ \E n \in Numbers : tasks' = IF n \in tasks THEN tasks \ {n} ELSE tasks \cup {n}
    /\ alone' = Nobody
    /\ UNCHANGED <<jiffies, elapsed, module, l_pid, completed, procs, broken>>

(* insmod: fresh static variables, and proc_init. *)
proc_init ==
    /\ ~loaded /\ loads < MaxLoads
    /\ loaded' = TRUE /\ loads' = loads + 1
    /\ init' = IF file = "seconds" THEN jiffies ELSE 0
    /\ elapsed' = 0 /\ l_pid' = 0 /\ completed' = 0
    /\ procs' = [p \in Processes |-> New]
    /\ alone' = Nobody /\ broken' = FALSE
    /\ UNCHANGED <<file, jiffies, tasks>>

(* rmmod: remove_proc_entry waits for the handlers that run; whoever is    *)
(* still reading gets an error from the next call.                         *)
proc_exit ==
    /\ loaded /\ ~\E p \in Processes : InHandler(p)
    /\ loaded' = FALSE
    /\ procs' = [p \in Processes |-> [procs[p] EXCEPT !.pc = "done"]]
    /\ alone' = Nobody
    /\ broken' = TRUE
    /\ UNCHANGED <<kernel, file, loads, init, l_pid, completed>>

-----------------------------------------------------------------------------
(* proc_read *)

Goto(p, from, to) == /\ procs[p].pc = from
                     /\ procs' = [procs EXCEPT ![p].pc = to]

(* The process opens the file to read it. *)
Open(p) ==
    /\ loaded /\ Goto(p, "new", "between")
    /\ alone' = IF completed = 0 /\ ~\E q \in Processes : Active(q) THEN p ELSE Nobody
    /\ UNCHANGED <<kernel, module, l_pid, completed, broken>>

(* The test of completed. *)
Test(p) ==
    /\ Goto(p, "between", IF completed = 1 THEN "clear" ELSE "fill")
    /\ UNCHANGED <<kernel, module, l_pid, completed, alone, broken>>

Clear(p) ==
    /\ Goto(p, "clear", "done")
    /\ completed' = 0
    /\ UNCHANGED <<kernel, module, l_pid, alone, broken>>

(* The other two modules note first that they have answered. *)
Fill(p) ==
    /\ file # "pid"
    /\ Goto(p, "fill", "print")
    /\ completed' = 1
    /\ UNCHANGED <<kernel, module, l_pid, alone, broken>>

(* Mutant: completed is set before the task is looked for. *)
MarkedTooEarly(p) ==
    /\ file = "pid" /\ procs[p].pc = "fill"
    /\ completed' = 1
    /\ procs' = [procs EXCEPT ![p].pc = IF l_pid \in tasks THEN "print" ELSE "done",
                              ![p].tsk = l_pid]
    /\ UNCHANGED <<kernel, module, l_pid, alone, broken>>

(* pid_task(find_vpid(l_pid)); proc_read returns 0 when there is none. *)
FindTask(p) ==
    /\ file = "pid" /\ procs[p].pc = "fill"
    /\ procs' = [procs EXCEPT ![p].pc = IF l_pid \in tasks THEN "print" ELSE "done",
                              ![p].tsk = l_pid]
    /\ UNCHANGED <<kernel, module, l_pid, completed, alone, broken>>

(* Mutant: the quotient of each counter, and then the difference. *)
DifferenceOfTimes == (((jiffies * MSEC) \div HZ) - ((init * MSEC) \div HZ)) % WIDTH

(* Thousandths of a second, an unsigned long. *)
time100 == ((((jiffies - init) % WIDTH) * MSEC) % WIDTH) \div HZ

(* The conversion of a number to int, which is narrower or signed. *)
to_int(v) == ((v + (INT_WIDTH \div 2)) % INT_WIDTH) - (INT_WIDTH \div 2)

(* The seconds and the thousandths that are printed. *)
seconds     == to_int(time100 \div MSEC)
thousandths == to_int(time100 % MSEC)

Text(p) == CASE file = "jiffies" -> <<jiffies>>
             [] file = "seconds" -> <<<<seconds, thousandths>>, elapsed>>
             [] file = "pid"     -> <<procs[p].tsk, l_pid, procs[p].tsk \in tasks>>

(* sprintf, followed in the other two modules by a copy_to_user whose      *)
(* result they ignore: a text counts as read when that fails, too.  In     *)
(* /proc/pid nothing has kept the task from exiting, or l_pid from         *)
(* changing, since FindTask.                                               *)
Sprintf(p) ==
    /\ procs[p].pc = "print"
    /\ procs' = [procs EXCEPT ![p].pc = IF file = "pid" THEN "mark" ELSE "between",
                              ![p].texts = IF @ = 0 THEN 1 ELSE 2,
                              ![p].text = Text(p)]
    /\ UNCHANGED <<kernel, module, l_pid, completed, alone, broken>>

(* Mutant: completed is not set. *)
MarkForgotten(p) ==
    /\ Goto(p, "mark", "between")
    /\ UNCHANGED <<kernel, module, l_pid, completed, alone, broken>>

(* completed = 1 in /proc/pid, and copy_to_user, which may fail. *)
Mark(p) ==
    /\ completed' = 1
    /\ \/ Goto(p, "mark", "between") /\ UNCHANGED <<alone, broken>>
       \/ Goto(p, "mark", "done") /\ broken' = TRUE /\ alone' = Nobody
    /\ UNCHANGED <<kernel, module, l_pid>>

(* The process is killed, or has read enough. *)
StopReading(p) ==
    /\ Goto(p, "between", "done")
    /\ broken' = TRUE /\ alone' = Nobody
    /\ UNCHANGED <<kernel, module, l_pid, completed>>

-----------------------------------------------------------------------------
(* proc_write *)

(* The call, up to copy_from_user, which may fail. *)
Write(p) ==
    /\ loaded /\ file = "pid"
    /\ Goto(p, "new", "write") \/ Goto(p, "new", "done")
    /\ alone' = Nobody
    /\ UNCHANGED <<kernel, module, l_pid, completed, broken>>

(* kstrtol of all but the last character: the number when a newline ends   *)
(* it, its last digit lost when not, and no change when it is no number.   *)
Store(p) ==
    /\ Goto(p, "write", "done")
    /\ l_pid' \in {l_pid} \cup Numbers \cup {n \div 10 : n \in Numbers}
    /\ UNCHANGED <<kernel, module, completed, alone, broken>>

-----------------------------------------------------------------------------
Init ==
    /\ file \in {"jiffies", "seconds", "pid"}
    /\ loads = 0 /\ loaded = FALSE
    /\ jiffies = FirstJiffies
    /\ elapsed = 0 /\ init = 0 /\ l_pid = 0 /\ completed = 0
    /\ tasks = IF file = "pid" THEN Numbers ELSE {}
    /\ procs = [p \in Processes |-> [New EXCEPT !.pc = "done"]]
    /\ alone = Nobody /\ broken = FALSE

Handler(p) == Test(p) \/ Clear(p) \/ Fill(p) \/ FindTask(p) \/ Sprintf(p) \/ Mark(p) \/ Store(p)

Next == \/ Tick \/ TaskChange \/ proc_init \/ proc_exit
        \/ \E p \in Processes : Open(p) \/ Write(p) \/ StopReading(p) \/ Handler(p)

(* Processes call on and handlers run; that is all that must happen. *)
Spec == Init /\ [][Next]_vars /\ \A p \in Processes : WF_vars(Handler(p))

-----------------------------------------------------------------------------
(* Properties *)

(* What the three files show, and nothing before the first read. *)
Texts == {<<>>} \cup {<<j>> : j \in 0 .. WIDTH - 1} \cup ((Int \X Int) \X Nat)
                \cup (Nat \X Nat \X BOOLEAN)

Positions == {"new", "between", "clear", "fill", "print", "mark", "write", "done"}
Process == [pc : Positions, tsk : Nat, texts : 0 .. 2, text : Texts]

TypeOK ==
    /\ file \in {"jiffies", "seconds", "pid"} /\ loaded \in BOOLEAN
    /\ jiffies \in 0 .. WIDTH - 1 /\ init \in 0 .. WIDTH - 1
    /\ elapsed \in 0 .. MaxTicks /\ loads \in 0 .. MaxLoads
    /\ tasks \subseteq Numbers /\ l_pid \in Nat
    /\ completed \in {0, 1}
    /\ alone \in Processes \cup {Nobody} /\ broken \in BOOLEAN
    /\ procs \in [Processes -> Process]

(* The readers take completed from each other, but leave it as they found  *)
(* it: unless one of them stopped early, completed is only set while       *)
(* somebody is reading, and the next to open the file does not find it     *)
(* empty (jiffiesproc.c:41-46, secondsproc.c:40-47, pidproc.c:69-84).      *)
EndedFilesAreReset ==
    /\ TypeOK
    /\ completed = 1 /\ ~broken => \E p \in Processes : Active(p)

(* A process that has the file to itself reads its text exactly once: of   *)
(* the task last chosen, and none when that task does not exist            *)
(* (pidproc.c:57-91, jiffiesproc.c:38-52, secondsproc.c:37-59).            *)
OneTextAlone ==
    alone # Nobody =>
        LET p == procs[alone]
        IN  /\ p.texts < 2
            /\ p.pc = "done" => p.texts = IF file = "pid" /\ l_pid \notin tasks THEN 0 ELSE 1
            /\ file = "pid" /\ p.texts = 1 => p.text = <<l_pid, l_pid, TRUE>>

(* The time shown is the time since the module was loaded, in seconds and  *)
(* thousandths, also when jiffies has passed through 0 in between, as long *)
(* as the product with 1000 fits into an unsigned long and the seconds fit *)
(* into an int (secondsproc.c:25, 49-55).                                  *)
TimeIsExact ==
    \A p \in Processes :
        file = "seconds" /\ procs[p].texts > 0 =>
            LET shown == procs[p].text[1]
                ticks == procs[p].text[2]
            IN  ticks * MSEC < WIDTH /\ ticks \div HZ < INT_WIDTH \div 2 =>
                    shown = <<ticks \div HZ, ((ticks % HZ) * MSEC) \div HZ>>

(* "This function is called repeatedly until it returns 0, so there must   *)
(* be logic that ensures it ultimately returns 0" (pidproc.c:57-60): every *)
(* reader reaches the end, since each of the finitely many others can take *)
(* completed away from it only once more than it ends.                     *)
ReadsEnd == \A p \in Processes : Active(p) ~> ~Active(p)
=============================================================================
