----------------------------- MODULE LinuxProofs -----------------------------
(***************************************************************************)
(* The programs that work with Linux itself, for every value of their      *)
(* constants.  ProcFile, the kernel modules (Projects 1 and 2), for every  *)
(* set of processes, every width of the counters and every bound: its type *)
(* invariant, and the three invariants that MCProcFile checks.  Shell      *)
(* (Project 2), for every number of processes and every set of lines and   *)
(* programs: the two invariants that MCShell checks.  Each of the five     *)
(* needs a stronger one, which is defined before its proof.                *)
(***************************************************************************)
EXTENDS ProcFile, Shell, Arithmetic, SequenceTheorems, FiniteSetTheorems, TLAPS

-----------------------------------------------------------------------------
(* Types *)

(* The constants, one by one. *)
LEMMA ConstantTypes ==
    /\ Nobody \notin Processes /\ Numbers \subseteq Nat
    /\ FirstJiffies \in 0 .. WIDTH - 1
    /\ WIDTH \in Nat /\ WIDTH > 0 /\ MSEC \in Nat /\ MSEC > 0 /\ HZ \in Nat /\ HZ > 0
    /\ INT_WIDTH \in Nat /\ INT_WIDTH > 0 /\ INT_WIDTH \div 2 \in Nat
    /\ INT_WIDTH = 2 * (INT_WIDTH \div 2) /\ MSEC <= INT_WIDTH \div 2
    /\ MaxTicks \in Nat /\ MaxLoads \in Nat
BY ConstantsAssumption

(* The time is a number, whatever the counters are.                        *)
LEMMA TimeIsNumber ==
    ASSUME TypeOK
    PROVE  time100 \in Nat
<1> DEFINE ticks == (jiffies - init) % WIDTH
           product == ticks * MSEC
           kept == product % WIDTH
<1>1. ticks \in Nat
  BY ConstantTypes DEF TypeOK
<1>2. product \in Nat
  <2> HIDE DEF ticks
  <2> QED BY <1>1, ConstantTypes
<1>3. kept \in Nat
  <2> HIDE DEF product
  <2> QED BY <1>2, ConstantTypes
<1>4. kept \div HZ \in Nat
  <2> HIDE DEF kept
  <2> QED BY <1>3, ConstantTypes
<1> QED BY <1>4 DEF time100

(* The conversion to int is one to an integer, and keeps what fits into    *)
(* the positive half (secondsproc.c:52-53).                                *)
LEMMA IntKeeps ==
    ASSUME NEW v \in Nat
    PROVE  /\ to_int(v) \in Int
           /\ v < INT_WIDTH \div 2 => to_int(v) = v
<1> DEFINE half == INT_WIDTH \div 2
<1>1. half \in Nat /\ INT_WIDTH = 2 * half /\ INT_WIDTH \in Nat \ {0}
  BY ConstantTypes
<1>2. to_int(v) = ((v + half) % INT_WIDTH) - half
  BY DEF to_int
<1> HIDE DEF half
<1>3. (v + half) % INT_WIDTH \in Int
  BY <1>1
<1>4. ASSUME v < half
      PROVE  (v + half) % INT_WIDTH = v + half
  <2>1. PICK y \in Nat : y = v + half
    BY <1>1
  <2>2. y \in 0 .. 2 * INT_WIDTH - 1 /\ y < INT_WIDTH
    BY <1>1, <1>4, <2>1
  <2>3. y % INT_WIDTH = y
    BY <1>1, <2>2, SmallMod
  <2> QED BY <2>1, <2>3
<1>5. to_int(v) \in Int
  BY <1>1, <1>2, <1>3
<1>6. ASSUME v < half
      PROVE  to_int(v) = v
  BY <1>1, <1>2, <1>4, <1>6
<1> QED BY <1>5, <1>6 DEF half

(* What is shown are integers.                                             *)
LEMMA ShownAreIntegers ==
    ASSUME TypeOK
    PROVE  seconds \in Int /\ thousandths \in Int
<1>1. time100 \in Nat /\ MSEC \in Nat \ {0}
  BY TimeIsNumber, ConstantTypes
<1>2. time100 \div MSEC \in Nat /\ time100 % MSEC \in Nat
  BY <1>1, QuotientAndRemainder
<1> QED BY <1>2, IntKeeps DEF seconds, thousandths

(* What sprintf writes is one of the texts.                                *)
LEMMA TextIsTyped ==
    ASSUME TypeOK, NEW p \in Processes
    PROVE  Text(p) \in Texts
<1>1. CASE file = "jiffies"
  BY <1>1, ConstantTypes DEF TypeOK, Text, Texts
<1>2. CASE file = "seconds"
  <2>1. elapsed \in Nat
    BY ConstantTypes DEF TypeOK
  <2>2. Text(p) = <<<<seconds, thousandths>>, elapsed>>
    BY <1>2 DEF Text
  <2>3. <<<<seconds, thousandths>>, elapsed>> \in (Int \X Int) \X Nat
    BY <2>1, ShownAreIntegers
  <2> QED BY <2>2, <2>3 DEF Texts
<1>3. CASE file = "pid"
  <2> DEFINE exists == procs[p].tsk \in tasks
  <2>1. l_pid \in Nat /\ procs[p].tsk \in Nat
    BY DEF TypeOK, Process
  <2>2. exists \in BOOLEAN
    OBVIOUS
  <2>3. Text(p) = <<procs[p].tsk, l_pid, exists>>
    BY <1>3 DEF Text
  <2>4. <<procs[p].tsk, l_pid, exists>> \in Nat \X Nat \X BOOLEAN
    <3> HIDE DEF exists
    <3> QED BY <2>1, <2>2
  <2> QED BY <2>3, <2>4 DEF Texts
<1> QED BY <1>1, <1>2, <1>3 DEF TypeOK

(* A process stays one when it moves to another position.                  *)
LEMMA MoveIsTyped ==
    ASSUME TypeOK, NEW p \in Processes, NEW from \in Positions, NEW to \in Positions,
           Goto(p, from, to)
    PROVE  procs' \in [Processes -> Process]
BY DEF Goto, TypeOK, Process

(* Position and text of a process that has not begun.                      *)
LEMMA NewIsTyped == New \in Process /\ [New EXCEPT !.pc = "done"] \in Process
<1>1. <<>> \in Texts
  BY DEF Texts
<1> QED BY <1>1 DEF New, Process, Positions

(* TypeOK holds in the first state.                                        *)
LEMMA TypeInit ==
    ASSUME Init
    PROVE  TypeOK
<1>1. procs \in [Processes -> Process]
  <2> DEFINE ended == [New EXCEPT !.pc = "done"]
  <2>1. procs = [p \in Processes |-> ended] /\ ended \in Process
    BY NewIsTyped DEF Init
  <2> HIDE DEF ended
  <2> QED BY <2>1
<1>2. tasks \subseteq Numbers
  BY DEF Init
<1>3. jiffies \in 0 .. WIDTH - 1 /\ init \in 0 .. WIDTH - 1
  BY ConstantTypes DEF Init
<1>4. elapsed \in 0 .. MaxTicks /\ loads \in 0 .. MaxLoads
  BY ConstantTypes DEF Init
<1>5. /\ file \in {"jiffies", "seconds", "pid"} /\ loaded \in BOOLEAN
      /\ l_pid \in Nat /\ completed \in {0, 1}
      /\ alone \in Processes \cup {Nobody} /\ broken \in BOOLEAN
  BY DEF Init
<1> QED BY <1>1, <1>2, <1>3, <1>4, <1>5 DEF TypeOK

(* Process contains no variable.                                           *)
LEMMA ProcessIsFixed == Process' = Process
BY DEF Process, Positions, Texts

(* Every step keeps TypeOK.                                                *)
LEMMA TypeStep ==
    ASSUME TypeOK, [Next]_vars
    PROVE  TypeOK'
<1> USE ConstantTypes, ProcessIsFixed
<1>1. CASE Tick
  BY <1>1 DEF Tick, TypeOK, module
<1>2. CASE TaskChange
  BY <1>2 DEF TaskChange, TypeOK, module
<1>3. CASE proc_init
  <2>1. procs' \in [Processes -> Process]
    BY <1>3, NewIsTyped DEF proc_init
  <2>2. init' \in 0 .. WIDTH - 1 /\ elapsed' \in 0 .. MaxTicks /\ loads' \in 0 .. MaxLoads
    BY <1>3 DEF proc_init, TypeOK
  <2>3. l_pid' \in Nat /\ completed' \in {0, 1} /\ loaded' \in BOOLEAN /\ broken' \in BOOLEAN
    BY <1>3 DEF proc_init
  <2>4. alone' \in Processes \cup {Nobody} /\ UNCHANGED <<file, jiffies, tasks>>
    BY <1>3 DEF proc_init
  <2> QED BY <2>1, <2>2, <2>3, <2>4 DEF TypeOK
<1>4. CASE proc_exit
  <2>1. procs' \in [Processes -> Process]
    BY <1>4 DEF proc_exit, TypeOK, Process, Positions
  <2> QED BY <1>4, <2>1 DEF proc_exit, TypeOK, kernel
<1>5. ASSUME NEW p \in Processes, Open(p) \/ Write(p) \/ StopReading(p) \/ Handler(p)
      PROVE  TypeOK'
  <2> USE MoveIsTyped DEF Positions
  <2>1. CASE Open(p)
    <3>1. procs' \in [Processes -> Process]
      BY <2>1 DEF Open
    <3> QED BY <2>1, <3>1 DEF Open, TypeOK, kernel, module
  <2>2. CASE Write(p)
    <3>1. procs' \in [Processes -> Process]
      BY <2>2 DEF Write
    <3> QED BY <2>2, <3>1 DEF Write, TypeOK, kernel, module
  <2>3. CASE StopReading(p)
    <3>1. procs' \in [Processes -> Process]
      BY <2>3 DEF StopReading
    <3> QED BY <2>3, <3>1 DEF StopReading, TypeOK, kernel, module
  <2>4. CASE Test(p)
    <3>1. procs' \in [Processes -> Process]
      BY <2>4 DEF Test
    <3> QED BY <2>4, <3>1 DEF Test, TypeOK, kernel, module
  <2>5. CASE Clear(p)
    <3>1. procs' \in [Processes -> Process]
      BY <2>5 DEF Clear
    <3> QED BY <2>5, <3>1 DEF Clear, TypeOK, kernel, module
  <2>6. CASE Fill(p)
    <3>1. procs' \in [Processes -> Process]
      BY <2>6 DEF Fill
    <3> QED BY <2>6, <3>1 DEF Fill, TypeOK, kernel, module
  <2>7. CASE FindTask(p)
    <3>1. procs' \in [Processes -> Process]
      <4> DEFINE found == [procs[p] EXCEPT !.pc = IF l_pid \in tasks THEN "print" ELSE "done",
                                           !.tsk = l_pid]
      <4>1. found \in Process
        BY DEF TypeOK, Process
      <4>2. procs' = [procs EXCEPT ![p] = found]
        BY <2>7 DEF FindTask, TypeOK, Process
      <4> HIDE DEF found
      <4> QED BY <4>1, <4>2 DEF TypeOK
    <3> QED BY <2>7, <3>1 DEF FindTask, TypeOK, kernel, module
  <2>8. CASE Sprintf(p)
    <3>1. Text(p) \in Texts
      BY TextIsTyped
    <3>2. procs' \in [Processes -> Process]
      <4> DEFINE said == [procs[p] EXCEPT !.pc = IF file = "pid" THEN "mark" ELSE "between",
                                          !.texts = IF @ = 0 THEN 1 ELSE 2,
                                          !.text = Text(p)]
      <4>1. said \in Process
        <5>1. procs[p] \in Process
          BY DEF TypeOK
        <5>2. (IF procs[p].texts = 0 THEN 1 ELSE 2) \in 0 .. 2
          OBVIOUS
        <5> QED BY <3>1, <5>1, <5>2 DEF Process
      <4>2. procs' = [procs EXCEPT ![p] = said]
        BY <2>8 DEF Sprintf, TypeOK, Process
      <4> HIDE DEF said
      <4> QED BY <4>1, <4>2 DEF TypeOK
    <3> QED BY <2>8, <3>2 DEF Sprintf, TypeOK, kernel, module
  <2>9. CASE Mark(p)
    <3>1. procs' \in [Processes -> Process]
      BY <2>9 DEF Mark
    <3>2. alone' \in Processes \cup {Nobody} /\ broken' \in BOOLEAN
      BY <2>9 DEF Mark, TypeOK
    <3>3. completed' = 1 /\ UNCHANGED <<kernel, module, l_pid>>
      BY <2>9 DEF Mark
    <3> QED BY <3>1, <3>2, <3>3 DEF TypeOK, kernel, module
  <2>10. CASE Store(p)
    <3>1. \A n \in Numbers : n \div 10 \in Nat
      OBVIOUS
    <3>2. l_pid' \in Nat
      BY <2>10, <3>1 DEF Store, TypeOK
    <3>3. procs' \in [Processes -> Process]
      BY <2>10 DEF Store
    <3> QED BY <2>10, <3>2, <3>3 DEF Store, TypeOK, kernel, module
  <2> QED BY <1>5, <2>1, <2>2, <2>3, <2>4, <2>5, <2>6, <2>7, <2>8, <2>9, <2>10 DEF Handler
<1>6. CASE UNCHANGED vars
  BY <1>6 DEF vars, kernel, module, TypeOK
<1> QED BY <1>1, <1>2, <1>3, <1>4, <1>5, <1>6 DEF Next

(* The variables keep their types, whatever the readers, the writers and   *)
(* the module loader do (jiffiesproc.c:24-52, secondsproc.c:24-59,         *)
(* pidproc.c:35-117).                                                      *)
THEOREM TypeCorrect == Spec => []TypeOK
BY TypeInit, TypeStep, PTL DEF Spec

-----------------------------------------------------------------------------
(* How the steps of a process change procs *)

(* A move changes the position of one process and nothing else.            *)
LEMMA MoveChanges ==
    ASSUME TypeOK, NEW p \in Processes, NEW from, NEW to, Goto(p, from, to)
    PROVE  /\ procs[p].pc = from
           /\ procs'[p].pc = to
           /\ procs'[p].tsk = procs[p].tsk
           /\ procs'[p].texts = procs[p].texts
           /\ procs'[p].text = procs[p].text
           /\ \A q \in Processes \ {p} : procs'[q] = procs[q]
BY DEF Goto, TypeOK, Process

(* What FindTask does to its process.                                      *)
LEMMA FindTaskChanges ==
    ASSUME TypeOK, NEW p \in Processes, FindTask(p)
    PROVE  /\ procs[p].pc = "fill"
           /\ procs'[p].pc = IF l_pid \in tasks THEN "print" ELSE "done"
           /\ procs'[p].tsk = l_pid
           /\ procs'[p].texts = procs[p].texts
           /\ procs'[p].text = procs[p].text
           /\ \A q \in Processes \ {p} : procs'[q] = procs[q]
BY DEF FindTask, TypeOK, Process

(* What Sprintf does to its process.                                       *)
LEMMA SprintfChanges ==
    ASSUME TypeOK, NEW p \in Processes, Sprintf(p)
    PROVE  /\ procs[p].pc = "print"
           /\ procs'[p].pc = IF file = "pid" THEN "mark" ELSE "between"
           /\ procs'[p].tsk = procs[p].tsk
           /\ procs'[p].texts = IF procs[p].texts = 0 THEN 1 ELSE 2
           /\ procs'[p].text = Text(p)
           /\ \A q \in Processes \ {p} : procs'[q] = procs[q]
BY DEF Sprintf, TypeOK, Process

-----------------------------------------------------------------------------
(* The files are found reset *)

(* A process that will test or clear completed before it ends, or that is  *)
(* about to.                                                               *)
WillTest(p) == \/ procs[p].pc \in {"between", "clear"}
               \/ (file # "pid" /\ procs[p].pc = "print")

(* completed is only set while such a process is there.  That some process *)
(* is Active does not suffice for that: one in /proc/pid that has found no *)
(* task leaves without a look at completed.                                *)
SomebodyWillTest == (completed = 1 /\ ~broken) => \E p \in Processes : WillTest(p)

(* A process that may test keeps completed in order as long as it is not   *)
(* the one to move.                                                        *)
LEMMA OthersWillTest ==
    ASSUME TypeOK, SomebodyWillTest, completed = 1, ~broken, file' = file,
           NEW p \in Processes, ~WillTest(p),
           \A q \in Processes \ {p} : procs'[q] = procs[q]
    PROVE  SomebodyWillTest'
<1>1. PICK q \in Processes : WillTest(q)
  BY DEF SomebodyWillTest
<1>2. procs'[q] = procs[q]
  BY <1>1
<1>3. WillTest(q)'
  BY <1>1, <1>2 DEF WillTest
<1> QED BY <1>3 DEF SomebodyWillTest

(* Every step keeps it.                                                    *)
LEMMA SomebodyWillTestStep ==
    ASSUME TypeOK, SomebodyWillTest, [Next]_vars
    PROVE  SomebodyWillTest'
<1>1. CASE Tick \/ TaskChange \/ UNCHANGED vars
  BY <1>1 DEF Tick, TaskChange, vars, module, SomebodyWillTest, WillTest
<1>2. CASE proc_init \/ proc_exit
  BY <1>2 DEF proc_init, proc_exit, SomebodyWillTest
<1>3. ASSUME NEW p \in Processes, Open(p) \/ Write(p) \/ StopReading(p) \/ Handler(p)
      PROVE  SomebodyWillTest'
  <2>1. file' = file
    BY <1>3 DEF Open, Write, StopReading, Handler, Test, Clear, Fill, FindTask, Sprintf, Mark,
                Store, module
  <2>2. CASE Open(p)
    <3>1. procs'[p].pc = "between"
      BY <2>2, MoveChanges DEF Open
    <3> QED BY <3>1 DEF SomebodyWillTest, WillTest
  <2>3. CASE Write(p)
    <3>1. procs[p].pc = "new" /\ \A q \in Processes \ {p} : procs'[q] = procs[q]
      BY <2>3, MoveChanges DEF Write
    <3>2. completed' = completed /\ broken' = broken
      BY <2>3 DEF Write
    <3> QED BY <2>1, <3>1, <3>2, OthersWillTest DEF SomebodyWillTest, WillTest
  <2>4. CASE StopReading(p)
    BY <2>4 DEF StopReading, SomebodyWillTest
  <2>5. CASE Test(p)
    <3>1. /\ completed' = completed /\ broken' = broken
          /\ procs'[p].pc = IF completed = 1 THEN "clear" ELSE "fill"
      BY <2>5, MoveChanges DEF Test
    <3> QED BY <3>1 DEF SomebodyWillTest, WillTest
  <2>6. CASE Clear(p)
    BY <2>6 DEF Clear, SomebodyWillTest
  <2>7. CASE Fill(p)
    <3>1. procs'[p].pc = "print" /\ file # "pid"
      BY <2>7, MoveChanges DEF Fill
    <3> QED BY <2>1, <3>1 DEF SomebodyWillTest, WillTest
  <2>8. CASE FindTask(p)
    <3>1. procs[p].pc = "fill" /\ \A q \in Processes \ {p} : procs'[q] = procs[q]
      BY <2>8, FindTaskChanges
    <3>2. completed' = completed /\ broken' = broken
      BY <2>8 DEF FindTask
    <3> QED BY <2>1, <3>1, <3>2, OthersWillTest DEF SomebodyWillTest, WillTest
  <2>9. CASE Sprintf(p)
    <3>1. completed' = completed /\ broken' = broken
      BY <2>9 DEF Sprintf
    <3>2. CASE file = "pid"
      <4>1. procs[p].pc = "print" /\ \A q \in Processes \ {p} : procs'[q] = procs[q]
        BY <2>9, SprintfChanges
      <4> QED BY <2>1, <3>1, <3>2, <4>1, OthersWillTest DEF SomebodyWillTest, WillTest
    <3>3. CASE file # "pid"
      <4>1. procs'[p].pc = "between"
        BY <2>9, <3>3, SprintfChanges
      <4> QED BY <4>1 DEF SomebodyWillTest, WillTest
    <3> QED BY <3>2, <3>3
  <2>10. CASE Mark(p)
    <3>1. procs'[p].pc = "between" \/ broken'
      BY <2>10, MoveChanges DEF Mark
    <3> QED BY <3>1 DEF SomebodyWillTest, WillTest
  <2>11. CASE Store(p)
    <3>1. procs[p].pc = "write" /\ \A q \in Processes \ {p} : procs'[q] = procs[q]
      BY <2>11, MoveChanges DEF Store
    <3>2. completed' = completed /\ broken' = broken
      BY <2>11 DEF Store
    <3> QED BY <2>1, <3>1, <3>2, OthersWillTest DEF SomebodyWillTest, WillTest
  <2> QED BY <1>3, <2>2, <2>3, <2>4, <2>5, <2>6, <2>7, <2>8, <2>9, <2>10, <2>11 DEF Handler
<1> QED BY <1>1, <1>2, <1>3 DEF Next

(* It is enough for the readers to leave completed as they found it.       *)
LEMMA ResetFollows ==
    ASSUME TypeOK, SomebodyWillTest
    PROVE  EndedFilesAreReset
BY DEF SomebodyWillTest, WillTest, EndedFilesAreReset, Active, InHandler

(* completed is set only while somebody reads, unless a reader has stopped *)
(* early, for any number of readers that take it from each other           *)
(* (jiffiesproc.c:41-46, secondsproc.c:40-47, pidproc.c:69-84).            *)
THEOREM ResetCorrect == Spec => []EndedFilesAreReset
<1>1. Init => TypeOK /\ SomebodyWillTest
  <2>1. Init => completed = 0
    BY DEF Init
  <2> QED BY <2>1, TypeInit DEF SomebodyWillTest
<1>2. (TypeOK /\ SomebodyWillTest) /\ [Next]_vars => (TypeOK /\ SomebodyWillTest)'
  BY TypeStep, SomebodyWillTestStep
<1>3. TypeOK /\ SomebodyWillTest => EndedFilesAreReset
  BY ResetFollows
<1> QED BY <1>1, <1>2, <1>3, PTL DEF Spec

-----------------------------------------------------------------------------
(* The time is exact *)

(* Nobody is in a handler, or between two calls, of a module that is not   *)
(* there.                                                                  *)
ActiveWhileLoaded == \A p \in Processes : /\ Active(p) => loaded
                                          /\ procs[p].pc = "new" => procs[p] = New

(* jiffies stands elapsed ticks behind init, round the width of the        *)
(* counter, until it has gone round once.                                  *)
ClockAgrees ==
    (file = "seconds" /\ loaded /\ elapsed < WIDTH) => jiffies = (init + elapsed) % WIDTH

(* The subtraction in unsigned arithmetic gives the ticks that passed, also *)
(* when the counter went through 0 (secondsproc.c:49).                     *)
LEMMA DifferenceIsElapsed ==
    ASSUME NEW w \in Nat \ {0}, NEW i \in 0 .. w - 1, NEW e \in 0 .. w - 1
    PROVE  (((i + e) % w) - i) % w = e
<1>1. i + e \in 0 .. 2 * w - 1 /\ e \in 0 .. 2 * w - 1 /\ e % w = e
  OBVIOUS
<1>2. (i + e) % w = IF i + e < w THEN i + e ELSE i + e - w
  <2>1. PICK x \in 0 .. 2 * w - 1 : x = i + e
    BY <1>1
  <2>2. x % w = IF x < w THEN x ELSE x - w
    BY SmallMod
  <2> QED BY <2>1, <2>2
<1>3. CASE i + e < w
  BY <1>1, <1>2, <1>3
<1>4. CASE i + e >= w
  <2>1. ((i + e) % w) - i = e - w
    BY <1>2, <1>4
  <2>2. (e - w) % w = e
    OBVIOUS
  <2> QED BY <2>1, <2>2
<1> QED BY <1>3, <1>4

(* A product of positive numbers is no smaller than either.                *)
LEMMA ProductIsNoSmaller ==
    ASSUME NEW e \in Nat, NEW m \in Nat, m > 0
    PROVE  e * m \in Nat /\ e <= e * m
<1>1. m - 1 \in Nat /\ e * (m - 1) \in Nat
  OBVIOUS
<1>2. e * m = e * (m - 1) + e
  OBVIOUS
<1> QED BY <1>1, <1>2

(* Ticks as thousandths of a second, divided again into seconds and the    *)
(* thousandths that remain: the rounding of the first division does not    *)
(* show in the second (secondsproc.c:50-53).                               *)
LEMMA DivisionsNest ==
    ASSUME NEW e \in Nat, NEW m \in Nat \ {0}, NEW h \in Nat \ {0}
    PROVE  /\ ((e * m) \div h) \div m = e \div h
           /\ ((e * m) \div h) % m = ((e % h) * m) \div h
           /\ (e * m) \div h \in Nat
<1>1. PICK q \in Nat, r \in 0 .. h - 1 : q = e \div h /\ r = e % h /\ e = q * h + r
  BY QuotientAndRemainder
<1>2. r * m \in Nat
  OBVIOUS
<1>3. PICK s \in Nat, u \in 0 .. h - 1 :
         s = (r * m) \div h /\ u = (r * m) % h /\ r * m = s * h + u
  BY <1>2, QuotientAndRemainder
<1>4. r * m \in 0 .. m * h - 1
  <2>1. r <= h - 1 /\ r \in Nat /\ h - 1 \in Nat
    OBVIOUS
  <2>2. r * m <= (h - 1) * m
    BY <2>1
  <2>3. (h - 1) * m = m * h - m
    OBVIOUS
  <2> QED BY <1>2, <2>2, <2>3
<1>5. s \in 0 .. m - 1
  <2>1. PICK y : y = r * m
    OBVIOUS
  <2>2. y \in 0 .. m * h - 1 /\ s = y \div h /\ m \in Nat
    BY <1>3, <1>4, <2>1
  <2>3. y \div h < m
    BY <2>2, QuotientIsBelow
  <2> QED BY <1>3, <2>2, <2>3
<1>6. e * m = (q * m + s) * h + u /\ q * m + s \in Nat
  <2>1. e * m = (q * h) * m + r * m
    BY <1>1
  <2>2. (q * h) * m = (q * m) * h /\ q * m \in Nat
    OBVIOUS
  <2>3. (q * m + s) * h = (q * m) * h + s * h
    BY <2>2
  <2> QED BY <1>3, <2>1, <2>2, <2>3
<1>7. (e * m) \div h = q * m + s
  BY <1>6, PartsOfSum
<1>8. (q * m + s) \div m = q /\ (q * m + s) % m = s
  BY <1>5, PartsOfSum
<1> QED BY <1>1, <1>3, <1>6, <1>7, <1>8

(* What the file shows is the time since the module was loaded.            *)
LEMMA TimeShown ==
    ASSUME TypeOK, ClockAgrees, file = "seconds", loaded, elapsed * MSEC < WIDTH
    PROVE  time100 = (elapsed * MSEC) \div HZ /\ elapsed \in Nat
<1> DEFINE product == elapsed * MSEC
<1>1. elapsed \in Nat /\ init \in 0 .. WIDTH - 1
  BY ConstantTypes DEF TypeOK
<1>2. product \in Nat /\ elapsed <= product
  BY <1>1, ConstantTypes, ProductIsNoSmaller
<1>3. elapsed \in 0 .. WIDTH - 1 /\ product \in 0 .. WIDTH - 1
  <2> HIDE DEF product
  <2>1. product < WIDTH
    BY DEF product
  <2> QED BY <1>1, <1>2, <2>1, ConstantTypes
<1>4. jiffies = (init + elapsed) % WIDTH
  BY <1>3, ConstantTypes DEF ClockAgrees
<1>5. (jiffies - init) % WIDTH = elapsed
  BY <1>1, <1>3, <1>4, ConstantTypes, DifferenceIsElapsed
<1>6. product % WIDTH = product
  <2> HIDE DEF product
  <2> QED BY <1>3, ConstantTypes
<1> QED BY <1>1, <1>5, <1>6 DEF time100

(* In seconds and thousandths, when the seconds fit into an int.           *)
LEMMA SecondsShown ==
    ASSUME TypeOK, ClockAgrees, file = "seconds", loaded, elapsed * MSEC < WIDTH,
           elapsed \div HZ < INT_WIDTH \div 2
    PROVE  /\ seconds = elapsed \div HZ
           /\ thousandths = ((elapsed % HZ) * MSEC) \div HZ
<1>1. elapsed \in Nat /\ MSEC \in Nat \ {0} /\ HZ \in Nat \ {0}
  BY TimeShown, ConstantTypes
<1>2. time100 = (elapsed * MSEC) \div HZ /\ time100 \in Nat
  BY TimeShown, TimeIsNumber
<1>3. /\ time100 \div MSEC = elapsed \div HZ
      /\ time100 % MSEC = ((elapsed % HZ) * MSEC) \div HZ
  BY <1>1, <1>2, DivisionsNest
<1>4. time100 \div MSEC \in Nat /\ time100 % MSEC \in 0 .. MSEC - 1
  BY <1>1, <1>2, QuotientAndRemainder
<1>5. time100 % MSEC \in Nat /\ time100 % MSEC < INT_WIDTH \div 2
  <2> DEFINE t == time100 % MSEC
             half == INT_WIDTH \div 2
  <2>1. t \in 0 .. MSEC - 1 /\ MSEC \in Nat /\ MSEC <= half /\ half \in Nat
    BY <1>4, ConstantTypes
  <2> HIDE DEF t, half
  <2>2. t \in Nat /\ t < half
    BY <2>1
  <2> QED BY <2>2 DEF t, half
<1>6. seconds = time100 \div MSEC
  BY <1>3, <1>4, IntKeeps DEF seconds
<1>7. thousandths = time100 % MSEC
  BY <1>5, IntKeeps DEF thousandths
<1> QED BY <1>3, <1>6, <1>7

(* What the time rests on.                                                 *)
TimeInvariant == TypeOK /\ ActiveWhileLoaded /\ ClockAgrees /\ TimeIsExact

(* Who is active, step by step.                                            *)
LEMMA ActiveWhileLoadedStep ==
    ASSUME TypeOK, ActiveWhileLoaded, [Next]_vars
    PROVE  ActiveWhileLoaded'
<1> USE DEF ActiveWhileLoaded, Active, InHandler
<1>1. CASE Tick \/ TaskChange \/ UNCHANGED vars
  BY <1>1 DEF Tick, TaskChange, vars, module
<1>2. CASE proc_init
  BY <1>2 DEF proc_init
<1>3. CASE proc_exit
  BY <1>3 DEF proc_exit, TypeOK, Process
<1>4. ASSUME NEW p \in Processes, Open(p) \/ Write(p) \/ StopReading(p) \/ Handler(p)
      PROVE  ActiveWhileLoaded'
  <2>1. loaded' = loaded
    BY <1>4 DEF Open, Write, StopReading, Handler, Test, Clear, Fill, FindTask, Sprintf, Mark,
                Store, module
  <2>2. \A q \in Processes \ {p} : procs'[q] = procs[q]
    BY <1>4, MoveChanges, FindTaskChanges, SprintfChanges
       DEF Open, Write, StopReading, Handler, Test, Clear, Fill, Mark, Store
  <2>3. procs'[p].pc # "new"
    BY <1>4, MoveChanges, FindTaskChanges, SprintfChanges
       DEF Open, Write, StopReading, Handler, Test, Clear, Fill, Mark, Store
  <2>4. loaded
    <3>1. CASE Open(p) \/ Write(p)
      BY <3>1 DEF Open, Write
    <3>2. CASE StopReading(p) \/ Handler(p)
      BY <3>2, MoveChanges, FindTaskChanges, SprintfChanges
         DEF StopReading, Handler, Test, Clear, Fill, Mark, Store
    <3> QED BY <1>4, <3>1, <3>2
  <2> QED BY <2>1, <2>2, <2>3, <2>4
<1> QED BY <1>1, <1>2, <1>3, <1>4 DEF Next

(* The clock, step by step.                                                *)
LEMMA ClockAgreesStep ==
    ASSUME TypeOK, ClockAgrees, [Next]_vars
    PROVE  ClockAgrees'
<1>1. CASE Tick
  <2> SUFFICES ASSUME file = "seconds", loaded, elapsed' < WIDTH
               PROVE  jiffies' = (init + elapsed') % WIDTH
    BY <1>1 DEF Tick, module, ClockAgrees
  <2>1. /\ elapsed \in Nat /\ elapsed' = elapsed + 1
        /\ jiffies' = (jiffies + 1) % WIDTH
        /\ init \in 0 .. WIDTH - 1
    BY <1>1, ConstantTypes DEF Tick, TypeOK
  <2>2. elapsed < WIDTH /\ init + elapsed \in 0 .. 2 * WIDTH - 2
    BY <2>1, ConstantTypes
  <2>3. jiffies = (init + elapsed) % WIDTH
    BY <2>2 DEF ClockAgrees
  <2>4. (((init + elapsed) % WIDTH) + 1) % WIDTH = (init + elapsed + 1) % WIDTH
    BY <2>2, ConstantTypes, RearAdvances
  <2> QED BY <2>1, <2>3, <2>4
<1>2. CASE proc_init
  <2>1. file' = "seconds" => jiffies' = jiffies /\ init' = jiffies /\ elapsed' = 0
    BY <1>2 DEF proc_init
  <2>2. (jiffies + 0) % WIDTH = jiffies
    BY ConstantTypes DEF TypeOK
  <2> QED BY <2>1, <2>2 DEF ClockAgrees
<1>3. CASE proc_exit
  BY <1>3 DEF proc_exit, ClockAgrees
<1>4. CASE UNCHANGED <<file, loaded, jiffies, elapsed, init>>
  BY <1>4 DEF ClockAgrees
<1>5. ASSUME NEW p \in Processes, Open(p) \/ Write(p) \/ StopReading(p) \/ Handler(p)
      PROVE  UNCHANGED <<file, loaded, jiffies, elapsed, init>>
  BY <1>5 DEF Open, Write, StopReading, Handler, Test, Clear, Fill, FindTask, Sprintf, Mark, Store,
              module, kernel
<1>6. TaskChange \/ UNCHANGED vars => UNCHANGED <<file, loaded, jiffies, elapsed, init>>
  BY DEF TaskChange, vars, module, kernel
<1> QED BY <1>1, <1>2, <1>3, <1>4, <1>5, <1>6 DEF Next

(* What the file should show after so many ticks.                          *)
Shown(ticks) == <<ticks \div HZ, ((ticks % HZ) * MSEC) \div HZ>>

(* The times that have been read, step by step.                            *)
LEMMA TimeStep ==
    ASSUME TimeInvariant, [Next]_vars
    PROVE  TimeIsExact'
<1> USE DEF TimeInvariant
<1>1. file' = file
  BY DEF Next, Tick, TaskChange, proc_init, proc_exit, Open, Write, StopReading, Handler, Test,
         Clear, Fill, FindTask, Sprintf, Mark, Store, vars, module
<1> SUFFICES ASSUME NEW q \in Processes, file = "seconds", procs'[q].texts > 0,
                    procs'[q].text[2] * MSEC < WIDTH,
                    procs'[q].text[2] \div HZ < INT_WIDTH \div 2
             PROVE  procs'[q].text[1] = Shown(procs'[q].text[2])
  BY <1>1 DEF TimeIsExact, Shown
<1>2. CASE UNCHANGED <<procs[q].texts, procs[q].text>>
  BY <1>2 DEF TimeIsExact, Shown
<1>3. CASE Tick \/ TaskChange \/ UNCHANGED vars
  BY <1>2, <1>3 DEF Tick, TaskChange, vars
<1>4. CASE proc_init
  BY <1>4 DEF proc_init, New
<1>5. CASE proc_exit
  <2>1. procs'[q] = [procs[q] EXCEPT !.pc = "done"] /\ procs[q] \in Process
    BY <1>5 DEF proc_exit, TypeOK
  <2>2. UNCHANGED <<procs[q].texts, procs[q].text>>
    BY <2>1 DEF Process
  <2> QED BY <1>2, <2>2
<1>6. ASSUME NEW p \in Processes, Open(p) \/ Write(p) \/ StopReading(p) \/ Handler(p)
      PROVE  procs'[q].text[1] = Shown(procs'[q].text[2])
  <2>1. \A r \in Processes \ {p} : procs'[r] = procs[r]
    BY <1>6, MoveChanges, FindTaskChanges, SprintfChanges
       DEF Open, Write, StopReading, Handler, Test, Clear, Fill, Mark, Store
  <2>2. CASE q # p
    BY <1>2, <2>1, <2>2
  <2>3. CASE q = p /\ ~Sprintf(p)
    <3>1. UNCHANGED <<procs[p].texts, procs[p].text>>
      BY <1>6, <2>3, MoveChanges, FindTaskChanges
         DEF Open, Write, StopReading, Handler, Test, Clear, Fill, Mark, Store
    <3> QED BY <1>2, <2>3, <3>1
  <2>4. CASE q = p /\ Sprintf(p)
    <3>1. procs[p].pc = "print" /\ procs'[p].text = <<<<seconds, thousandths>>, elapsed>>
      BY <2>4, SprintfChanges DEF Text
    <3>2. loaded
      BY <3>1 DEF ActiveWhileLoaded, Active, InHandler
    <3>3. elapsed * MSEC < WIDTH /\ elapsed \div HZ < INT_WIDTH \div 2
      BY <2>4, <3>1
    <3>4. <<seconds, thousandths>> = Shown(elapsed)
      BY <3>2, <3>3, SecondsShown DEF Shown
    <3> QED BY <2>4, <3>1, <3>4
  <2> QED BY <2>2, <2>3, <2>4
<1> QED BY <1>3, <1>4, <1>5, <1>6 DEF Next

(* The time shown is the time since the module was loaded, in seconds and  *)
(* thousandths, also across a wrap-around of jiffies, as long as the       *)
(* product with 1000 and the seconds fit (secondsproc.c:25, 49-55).        *)
THEOREM TimeCorrect == Spec => []TimeIsExact
<1>1. Init => TimeInvariant
  <2> SUFFICES ASSUME Init PROVE TimeInvariant
    OBVIOUS
  <2>1. \A p \in Processes : procs[p].pc = "done" /\ procs[p].texts = 0
    BY DEF Init, New
  <2>2. ActiveWhileLoaded
    BY <2>1 DEF ActiveWhileLoaded, Active, InHandler
  <2>3. ClockAgrees
    BY DEF Init, ClockAgrees
  <2>4. TimeIsExact
    BY <2>1 DEF TimeIsExact
  <2> QED BY <2>2, <2>3, <2>4, TypeInit DEF TimeInvariant
<1>2. TimeInvariant /\ [Next]_vars => TimeInvariant'
  BY TypeStep, ActiveWhileLoadedStep, ClockAgreesStep, TimeStep DEF TimeInvariant
<1>3. TimeInvariant => TimeIsExact
  BY DEF TimeInvariant
<1> QED BY <1>1, <1>2, <1>3, PTL DEF Spec

-----------------------------------------------------------------------------
(* A process alone reads its text once *)

(* How far the process that has the file to itself has come: at each       *)
(* position, what it has read, and completed.                              *)
Progress(p) ==
    LET r == procs[p]
        pid == file = "pid"
    IN  \/ r.pc = "between" /\ r.texts = completed
        \/ r.pc = "fill" /\ r.texts = 0 /\ completed = 0
        \/ /\ r.pc = "print" /\ r.texts = 0
           /\ pid => completed = 0 /\ r.tsk = l_pid /\ l_pid \in tasks
           /\ ~pid => completed = 1
        \/ pid /\ r.pc = "mark" /\ r.texts = 1 /\ completed = 0
        \/ r.pc = "clear" /\ r.texts = 1
        \/ r.pc = "done" /\ r.texts = IF pid /\ l_pid \notin tasks THEN 0 ELSE 1

(* While alone is a process nobody else is in the file, it has come as far *)
(* as its position says, and what it has read in /proc/pid is of the task  *)
(* that was chosen and exists.                                             *)
AloneInvariant ==
    alone # Nobody =>
        /\ \A q \in Processes \ {alone} : ~Active(q)
        /\ Progress(alone)
        /\ (file = "pid" /\ procs[alone].texts = 1) =>
               procs[alone].text = <<l_pid, l_pid, TRUE>> /\ l_pid \in tasks

(* The steps of another process leave alone as it is, since only one that  *)
(* opens the file or writes to it is not Active.                           *)
LEMMA OnlyAloneMoves ==
    ASSUME AloneInvariant, TypeOK, alone # Nobody, NEW p \in Processes,
           StopReading(p) \/ Handler(p)
    PROVE  p = alone
<1>1. Active(p)
  BY MoveChanges, FindTaskChanges, SprintfChanges
     DEF StopReading, Handler, Test, Clear, Fill, Mark, Store, Active, InHandler
<1> QED BY <1>1 DEF AloneInvariant

(* Every step keeps it.                                                    *)
LEMMA AloneStep ==
    ASSUME TypeOK, ActiveWhileLoaded, AloneInvariant, [Next]_vars
    PROVE  AloneInvariant'
<1> SUFFICES ASSUME alone' # Nobody
             PROVE  AloneInvariant'
  BY DEF AloneInvariant
<1>1. CASE Tick \/ UNCHANGED vars
  <2>1. UNCHANGED <<file, procs, l_pid, completed, tasks, alone>>
    BY <1>1 DEF Tick, vars, module, kernel
  <2> QED BY <2>1 DEF AloneInvariant, Progress, Active, InHandler
<1>2. CASE TaskChange \/ proc_init \/ proc_exit
  BY <1>2 DEF TaskChange, proc_init, proc_exit
<1>3. ASSUME NEW p \in Processes, Open(p)
      PROVE  AloneInvariant'
  <2>1. /\ UNCHANGED <<file, l_pid, completed, tasks>>
        /\ alone' = p /\ completed = 0
        /\ \A q \in Processes : ~Active(q)
    BY <1>3 DEF Open, module, kernel
  <2>2. /\ procs[p].pc = "new" /\ procs'[p].pc = "between"
        /\ procs'[p].texts = procs[p].texts
        /\ \A q \in Processes \ {p} : procs'[q] = procs[q]
    BY <1>3, MoveChanges DEF Open
  <2>3. procs'[p].texts = 0
    BY <2>2 DEF ActiveWhileLoaded, New
  <2> QED BY <2>1, <2>2, <2>3 DEF AloneInvariant, Progress, Active, InHandler
<1>4. ASSUME NEW p \in Processes, Write(p) \/ StopReading(p)
      PROVE  AloneInvariant'
  BY <1>4 DEF Write, StopReading
<1>5. ASSUME NEW p \in Processes, Handler(p)
      PROVE  AloneInvariant'
  <2>1. alone' = alone /\ UNCHANGED <<file, tasks>>
    BY <1>5 DEF Handler, Test, Clear, Fill, FindTask, Sprintf, Mark, Store, module, kernel
  <2>2. p = alone
    BY <1>5, <2>1, OnlyAloneMoves
  <2>3. \A q \in Processes \ {p} : procs'[q] = procs[q]
    BY <1>5, MoveChanges, FindTaskChanges, SprintfChanges
       DEF Handler, Test, Clear, Fill, Mark, Store
  <2>4. \A q \in Processes \ {alone'} : ~Active(q)'
    BY <2>1, <2>2, <2>3 DEF AloneInvariant, Active, InHandler
  <2>5. /\ Progress(p)
        /\ (file = "pid" /\ procs[p].texts = 1) =>
               procs[p].text = <<l_pid, l_pid, TRUE>> /\ l_pid \in tasks
    BY <2>1, <2>2 DEF AloneInvariant
  <2>6. SUFFICES /\ Progress(p)'
                 /\ (file' = "pid" /\ procs'[p].texts = 1) =>
                        procs'[p].text = <<l_pid', l_pid', TRUE>> /\ l_pid' \in tasks'
    BY <2>1, <2>2, <2>4 DEF AloneInvariant
  <2>7. l_pid' = l_pid
    <3>1. procs[p].pc # "write"
      BY <2>5 DEF Progress
    <3> QED BY <1>5, <3>1 DEF Handler, Test, Clear, Fill, FindTask, Sprintf, Mark, Store, Goto
  <2> USE <2>1, <2>5, <2>7
  <2>8. CASE Test(p)
    <3>1. /\ procs[p].pc = "between" /\ completed' = completed
          /\ procs'[p].pc = IF completed = 1 THEN "clear" ELSE "fill"
          /\ procs'[p].texts = procs[p].texts /\ procs'[p].text = procs[p].text
      BY <2>8, MoveChanges DEF Test
    <3>2. procs[p].texts = completed /\ completed \in {0, 1}
      BY <3>1 DEF Progress, TypeOK
    <3> QED BY <3>1, <3>2 DEF Progress
  <2>9. CASE Clear(p)
    <3>1. /\ procs[p].pc = "clear" /\ procs'[p].pc = "done"
          /\ procs'[p].texts = procs[p].texts /\ procs'[p].text = procs[p].text
      BY <2>9, MoveChanges DEF Clear
    <3>2. procs[p].texts = 1
      BY <3>1 DEF Progress
    <3> QED BY <3>1, <3>2 DEF Progress
  <2>10. CASE Fill(p)
    <3>1. /\ procs[p].pc = "fill" /\ procs'[p].pc = "print" /\ completed' = 1 /\ file # "pid"
          /\ procs'[p].texts = procs[p].texts /\ procs'[p].text = procs[p].text
      BY <2>10, MoveChanges DEF Fill
    <3>2. procs[p].texts = 0
      BY <3>1 DEF Progress
    <3> QED BY <3>1, <3>2 DEF Progress
  <2>11. CASE FindTask(p)
    <3>1. completed' = completed /\ file = "pid"
      BY <2>11 DEF FindTask
    <3> QED BY <2>11, <3>1, FindTaskChanges DEF Progress
  <2>12. CASE Sprintf(p)
    <3>1. completed' = completed
      BY <2>12 DEF Sprintf
    <3>2. file = "pid" => procs'[p].text = <<procs[p].tsk, l_pid, procs[p].tsk \in tasks>>
      BY <2>12, SprintfChanges DEF Text
    <3>3. /\ procs[p].pc = "print" /\ procs[p].texts = 0 /\ procs'[p].texts = 1
          /\ file = "pid" => completed = 0 /\ procs[p].tsk = l_pid /\ l_pid \in tasks
          /\ file # "pid" => completed = 1
      BY <2>12, SprintfChanges DEF Progress
    <3>4. file = "pid" => procs'[p].text = <<l_pid, l_pid, TRUE>>
      BY <3>2, <3>3
    <3> QED BY <2>12, <3>1, <3>3, <3>4, SprintfChanges DEF Progress
  <2>13. CASE Mark(p)
    <3>1. alone' = Nobody \/ (Goto(p, "mark", "between") /\ completed' = 1)
      BY <2>13 DEF Mark
    <3>2. Goto(p, "mark", "between") /\ completed' = 1
      BY <3>1, <2>1
    <3>3. /\ procs[p].pc = "mark" /\ procs'[p].pc = "between"
          /\ procs'[p].texts = procs[p].texts /\ procs'[p].text = procs[p].text
      BY <3>2, MoveChanges
    <3>4. procs[p].texts = 1
      BY <3>3 DEF Progress
    <3> QED BY <3>2, <3>3, <3>4 DEF Progress
  <2>14. CASE Store(p)
    BY <2>14, MoveChanges DEF Store, Progress
  <2> QED BY <1>5, <2>8, <2>9, <2>10, <2>11, <2>12, <2>13, <2>14 DEF Handler
<1> QED BY <1>1, <1>2, <1>3, <1>4, <1>5 DEF Next

(* A process that has the file to itself reads its text exactly once       *)
(* (pidproc.c:57-91, jiffiesproc.c:38-52, secondsproc.c:37-59).            *)
THEOREM AloneCorrect == Spec => []OneTextAlone
<1> DEFINE Inv == TypeOK /\ ActiveWhileLoaded /\ AloneInvariant
<1>1. Init => Inv
  <2> SUFFICES ASSUME Init PROVE Inv
    OBVIOUS
  <2>1. alone = Nobody /\ \A p \in Processes : procs[p].pc = "done"
    BY DEF Init, New
  <2> QED BY <2>1, TypeInit DEF ActiveWhileLoaded, AloneInvariant, Active, InHandler
<1>2. Inv /\ [Next]_vars => Inv'
  BY TypeStep, ActiveWhileLoadedStep, AloneStep
<1>3. Inv => OneTextAlone
  <2> SUFFICES ASSUME Inv, alone # Nobody PROVE OneTextAlone
    BY DEF OneTextAlone
  <2>1. Progress(alone) /\ completed \in {0, 1}
    BY DEF AloneInvariant, TypeOK
  <2>2. procs[alone].texts \in {0, 1}
    BY <2>1 DEF Progress
  <2>3. procs[alone].pc = "done" =>
            procs[alone].texts = IF file = "pid" /\ l_pid \notin tasks THEN 0 ELSE 1
    BY <2>1 DEF Progress
  <2>4. procs[alone].texts < 2
    BY <2>2
  <2>5. file = "pid" /\ procs[alone].texts = 1 => procs[alone].text = <<l_pid, l_pid, TRUE>>
    BY DEF AloneInvariant
  <2> QED BY <2>3, <2>4, <2>5 DEF OneTextAlone
<1> QED BY <1>1, <1>2, <1>3, PTL DEF Spec

-----------------------------------------------------------------------------
(* The shell: its processes *)

PCs == {"free", "prompt", "run", "wait", "normal", "redirect", "outer", "left",
        "waitleft", "right", "program", "stopped", "zombie"}

Memories == [args : Seq(STRING), ampersand : BOOLEAN, in_file : STRING \cup {NoFile},
             out_file : STRING \cup {NoFile}, pipe_enable : BOOLEAN]

ProcessType == [pc : PCs, parent : 0 .. MaxPid, child : 0 .. MaxPid, pipe : 0 .. MaxPid,
                mem : Memories, typed : Lines \cup {<<>>}, background : BOOLEAN]

Gone(q) == q.pc \in {"free", "zombie"}

(* Who a process names as its parent, its reader or its child is there. *)
Sound(P) ==
    \A p \in Pids :
        /\ P[p].pc = "free" => P[p] = NoProcess
        /\ P[p].pc = "zombie" => P[p].parent # Outside
        /\ P[p].parent # Outside => P[p].parent # p /\ ~Gone(P[P[p].parent])
        /\ P[p].pipe # Outside => P[p].pipe # p /\ ~Gone(P[P[p].pipe])
        /\ P[p].child # Outside <=> P[p].pc \in {"wait", "waitleft"}
        /\ P[p].child # Outside => P[P[p].child].parent = p

(* The children that c may be of p, by where p is. *)
MayLeave(q, p, c, d) ==
    /\ q.pc \in {"prompt", "run"} => d.pipe = p \/ d.background
    /\ q.pc = "wait" => c = q.child \/ d.pipe = p \/ d.background
    /\ q.pc \notin {"normal", "redirect", "outer", "left"}
    /\ q.pc \in {"waitleft", "right"} => d.pipe = p

Children(P) == \A p, c \in Pids : P[c].parent = p => MayLeave(P[p], p, c, P[c])

InShell == {"prompt", "run", "wait", "normal", "redirect", "outer", "left", "waitleft", "right"}

InPipe == {"outer", "left", "waitleft", "right"}

Fits(q) == /\ q.pc \in InShell => Means(q.typed, q.mem)
           /\ q.pc \in InPipe => q.mem.pipe_enable

Typed(P) == \A p \in Pids : Fits(P[p])

ShellInvOf(P) == P \in [Pids -> ProcessType] /\ Sound(P) /\ Children(P) /\ Typed(P)

LEMMA PidsAre ==
    /\ MaxPid \in Nat \ {0} /\ Main \in Pids /\ Outside = 0 /\ Outside \notin Pids
    /\ 0 .. MaxPid = Pids \cup {Outside}
BY ShellAssumption DEF Pids, Main, Outside

(* Every field of every process. *)
LEMMA FieldsAre ==
    ASSUME NEW P \in [Pids -> ProcessType], NEW p \in Pids
    PROVE  /\ P[p] \in ProcessType
           /\ P[p].pc \in PCs /\ P[p].parent \in 0 .. MaxPid /\ P[p].child \in 0 .. MaxPid
           /\ P[p].pipe \in 0 .. MaxPid /\ P[p].mem \in Memories
           /\ P[p].typed \in Lines \cup {<<>>} /\ P[p].background \in BOOLEAN
           /\ P[p].parent # Outside => P[p].parent \in Pids
           /\ P[p].child # Outside => P[p].child \in Pids
           /\ P[p].pipe # Outside => P[p].pipe \in Pids
<1>1. P[p] \in ProcessType
  OBVIOUS
<1>2. /\ P[p].pc \in PCs /\ P[p].parent \in 0 .. MaxPid /\ P[p].child \in 0 .. MaxPid
      /\ P[p].pipe \in 0 .. MaxPid /\ P[p].mem \in Memories
      /\ P[p].typed \in Lines \cup {<<>>} /\ P[p].background \in BOOLEAN
  BY <1>1 DEF ProcessType
<1> QED BY <1>1, <1>2, PidsAre

LEMMA NoProcessIs ==
    /\ NoProcess \in ProcessType
    /\ NoProcess.pc = "free" /\ NoProcess.parent = Outside /\ NoProcess.child = Outside
    /\ NoProcess.pipe = Outside /\ NoProcess.typed = <<>> /\ NoProcess.mem = NoCommand
    /\ NoProcess.background = FALSE
<1>1. NoCommand \in Memories
  <2>1. <<>> \in Seq(STRING)
    BY EmptySeq
  <2> QED BY <2>1 DEF NoCommand, Memories
<1>2. Outside \in 0 .. MaxPid
  BY PidsAre
<1> QED BY <1>1, <1>2 DEF NoProcess, ProcessType, PCs

(* A process moves to another place of the program. *)
LEMMA MoveKeeps ==
    ASSUME ShellInvOf(table), NEW p \in Pids, NEW q \in ProcessType, NEW Q,
           Q = [table EXCEPT ![p] = q],
           q.parent = table[p].parent, q.child = table[p].child, q.pipe = table[p].pipe,
           q.background = table[p].background,
           ~Gone(table[p]), table[p].child = Outside,
           q.pc \notin {"free", "zombie", "wait", "waitleft"},
           \A c \in Pids : table[c].parent = p => MayLeave(q, p, c, table[c]),
           Fits(q)
    PROVE  ShellInvOf(Q)
<1>0. table \in [Pids -> ProcessType] /\ Sound(table) /\ Children(table) /\ Typed(table)
  BY DEF ShellInvOf
<1>1. Q \in [Pids -> ProcessType] /\ Q[p] = q /\ \A r \in Pids \ {p} : Q[r] = table[r]
  BY <1>0
<1>2. \A r \in Pids : /\ Q[r].parent = table[r].parent /\ Q[r].child = table[r].child
                      /\ Q[r].pipe = table[r].pipe /\ Q[r].background = table[r].background
                      /\ Gone(Q[r]) <=> Gone(table[r])
  BY <1>1 DEF Gone
<1>3. Sound(Q)
  <2> SUFFICES ASSUME NEW r \in Pids
               PROVE  /\ Q[r].pc = "free" => Q[r] = NoProcess
                      /\ Q[r].pc = "zombie" => Q[r].parent # Outside
                      /\ Q[r].parent # Outside => Q[r].parent # r /\ ~Gone(Q[Q[r].parent])
                      /\ Q[r].pipe # Outside => Q[r].pipe # r /\ ~Gone(Q[Q[r].pipe])
                      /\ Q[r].child # Outside <=> Q[r].pc \in {"wait", "waitleft"}
                      /\ Q[r].child # Outside => Q[Q[r].child].parent = r
    BY DEF Sound
  <2>1. /\ table[r].pc = "free" => table[r] = NoProcess
        /\ table[r].pc = "zombie" => table[r].parent # Outside
        /\ table[r].parent # Outside => table[r].parent # r /\ ~Gone(table[table[r].parent])
        /\ table[r].pipe # Outside => table[r].pipe # r /\ ~Gone(table[table[r].pipe])
        /\ table[r].child # Outside <=> table[r].pc \in {"wait", "waitleft"}
        /\ table[r].child # Outside => table[table[r].child].parent = r
    BY <1>0 DEF Sound
  <2>2. /\ table[r].parent # Outside => table[r].parent \in Pids
        /\ table[r].child # Outside => table[r].child \in Pids
        /\ table[r].pipe # Outside => table[r].pipe \in Pids
    BY <1>0, FieldsAre
  <2>3. CASE r = p
    BY <1>1, <1>2, <2>1, <2>2, <2>3
  <2>4. CASE r # p
    BY <1>1, <1>2, <2>1, <2>2, <2>4
  <2> QED BY <2>3, <2>4
<1>4. Children(Q)
  <2> SUFFICES ASSUME NEW r \in Pids, NEW c \in Pids, Q[c].parent = r
               PROVE  MayLeave(Q[r], r, c, Q[c])
    BY DEF Children
  <2>1. table[c].parent = r /\ Q[c].pipe = table[c].pipe /\ Q[c].background = table[c].background
    BY <1>2
  <2>2. CASE r = p
    <3>1. MayLeave(q, p, c, table[c])
      BY <2>1, <2>2
    <3> QED BY <1>1, <2>1, <2>2, <3>1 DEF MayLeave
  <2>3. CASE r # p
    <3>1. MayLeave(table[r], r, c, table[c])
      BY <1>0, <2>1 DEF Children
    <3> QED BY <1>1, <2>1, <2>3, <3>1 DEF MayLeave
  <2> QED BY <2>2, <2>3
<1>5. Typed(Q)
  <2> SUFFICES ASSUME NEW r \in Pids PROVE Fits(Q[r])
    BY DEF Typed
  <2>1. CASE r = p
    BY <1>1, <2>1
  <2>2. CASE r # p
    BY <1>0, <1>1, <2>2 DEF Typed
  <2> QED BY <2>1, <2>2
<1> QED BY <1>1, <1>3, <1>4, <1>5 DEF ShellInvOf

(* A process ends. *)
LEMMA EndedIs ==
    ASSUME table \in [Pids -> ProcessType], NEW p \in Pids
    PROVE  /\ Ended(p) \in [Pids -> ProcessType]
           /\ IF table[p].parent = Outside THEN Ended(p)[p] = NoProcess
              ELSE /\ Ended(p)[p].pc = "zombie" /\ Ended(p)[p].child = Outside
                   /\ Ended(p)[p].parent = table[p].parent /\ Ended(p)[p].pipe = table[p].pipe
                   /\ Ended(p)[p].background = table[p].background
           /\ \A q \in Pids \ {p} :
                 IF table[q].parent = p /\ table[q].pc = "zombie" THEN Ended(p)[q] = NoProcess
                 ELSE /\ Ended(p)[q].pc = table[q].pc /\ Ended(p)[q].child = table[q].child
                      /\ Ended(p)[q].mem = table[q].mem /\ Ended(p)[q].typed = table[q].typed
                      /\ Ended(p)[q].background = table[q].background
                      /\ Ended(p)[q].parent = IF table[q].parent = p THEN Outside
                                              ELSE table[q].parent
                      /\ Ended(p)[q].pipe = IF table[q].pipe = p THEN Outside ELSE table[q].pipe
                      /\ table[q].parent # p /\ table[q].pipe # p => Ended(p)[q] = table[q]
<1> DEFINE Dead == [NoProcess EXCEPT !.pc = "zombie", !.parent = table[p].parent,
                                     !.pipe = table[p].pipe,
                                     !.background = table[p].background]
           Other(q) == [table[q] EXCEPT !.parent = IF @ = p THEN Outside ELSE @,
                                        !.pipe = IF @ = p THEN Outside ELSE @]
<1>0. Outside \in 0 .. MaxPid
  BY PidsAre
<1>1. /\ Dead \in ProcessType /\ Dead.pc = "zombie" /\ Dead.child = Outside
      /\ Dead.parent = table[p].parent /\ Dead.pipe = table[p].pipe
      /\ Dead.background = table[p].background
  <2>1. /\ table[p].parent \in 0 .. MaxPid /\ table[p].pipe \in 0 .. MaxPid
        /\ table[p].background \in BOOLEAN
    BY FieldsAre
  <2>2. "zombie" \in PCs
    BY DEF PCs
  <2> QED BY <2>1, <2>2, NoProcessIs DEF ProcessType
<1>2. ASSUME NEW q \in Pids
      PROVE  /\ Other(q) \in ProcessType
             /\ Other(q).pc = table[q].pc /\ Other(q).child = table[q].child
             /\ Other(q).mem = table[q].mem /\ Other(q).typed = table[q].typed
             /\ Other(q).background = table[q].background
             /\ Other(q).parent = IF table[q].parent = p THEN Outside ELSE table[q].parent
             /\ Other(q).pipe = IF table[q].pipe = p THEN Outside ELSE table[q].pipe
             /\ table[q].parent # p /\ table[q].pipe # p => Other(q) = table[q]
  <2>1. table[q] \in ProcessType
    BY FieldsAre
  <2> QED BY <1>0, <2>1 DEF ProcessType
<1>3. Ended(p) = [q \in Pids |->
                    IF q = p THEN IF table[p].parent = Outside THEN NoProcess ELSE Dead
                    ELSE IF table[q].parent = p /\ table[q].pc = "zombie" THEN NoProcess
                    ELSE Other(q)]
  BY DEF Ended
<1>4. NoProcess \in ProcessType
  BY NoProcessIs
<1> HIDE DEF Dead, Other
<1> QED BY <1>1, <1>2, <1>3, <1>4

LEMMA EndedKeeps ==
    ASSUME ShellInvOf(table), NEW p \in Pids, ~Gone(table[p])
    PROVE  ShellInvOf(Ended(p))
<1> DEFINE Q == Ended(p)
<1>0. table \in [Pids -> ProcessType] /\ Sound(table) /\ Children(table) /\ Typed(table)
  BY DEF ShellInvOf
<1>1. Q \in [Pids -> ProcessType]
  BY <1>0, EndedIs
<1>2. IF table[p].parent = Outside THEN Q[p] = NoProcess
      ELSE /\ Q[p].pc = "zombie" /\ Q[p].child = Outside
           /\ Q[p].parent = table[p].parent /\ Q[p].pipe = table[p].pipe
           /\ Q[p].background = table[p].background
  BY <1>0, EndedIs
<1>3. \A q \in Pids \ {p} :
         IF table[q].parent = p /\ table[q].pc = "zombie" THEN Q[q] = NoProcess
         ELSE /\ Q[q].pc = table[q].pc /\ Q[q].child = table[q].child
              /\ Q[q].mem = table[q].mem /\ Q[q].typed = table[q].typed
              /\ Q[q].background = table[q].background
              /\ Q[q].parent = IF table[q].parent = p THEN Outside ELSE table[q].parent
              /\ Q[q].pipe = IF table[q].pipe = p THEN Outside ELSE table[q].pipe
              /\ table[q].parent # p /\ table[q].pipe # p => Q[q] = table[q]
  BY <1>0, EndedIs
<1> HIDE DEF Q
<1>4. \A r \in Pids :
         /\ table[r].pc = "free" => table[r] = NoProcess
         /\ table[r].pc = "zombie" => table[r].parent # Outside
         /\ table[r].parent # Outside => table[r].parent # r /\ ~Gone(table[table[r].parent])
         /\ table[r].pipe # Outside => table[r].pipe # r /\ ~Gone(table[table[r].pipe])
         /\ table[r].child # Outside <=> table[r].pc \in {"wait", "waitleft"}
         /\ table[r].child # Outside => table[table[r].child].parent = r
  BY <1>0 DEF Sound
<1>5. \A r \in Pids : /\ table[r].parent # Outside => table[r].parent \in Pids
                      /\ table[r].child # Outside => table[r].child \in Pids
                      /\ table[r].pipe # Outside => table[r].pipe \in Pids
  BY <1>0, FieldsAre
<1>6. \A r \in Pids \ {p} : ~Gone(table[r]) => Q[r].pc = table[r].pc /\ ~Gone(Q[r])
  BY <1>3 DEF Gone
<1>7. \A r \in Pids : Q[r].parent \in {Outside, table[r].parent} \ {p}
  BY <1>2, <1>3, <1>4, NoProcessIs, PidsAre
<1>8. \A r \in Pids : Q[r].pipe \in {Outside, table[r].pipe} \ {p}
  BY <1>2, <1>3, <1>4, NoProcessIs, PidsAre
<1>9. Sound(Q)
  <2> SUFFICES ASSUME NEW r \in Pids
               PROVE  /\ Q[r].pc = "free" => Q[r] = NoProcess
                      /\ Q[r].pc = "zombie" => Q[r].parent # Outside
                      /\ Q[r].parent # Outside => Q[r].parent # r /\ ~Gone(Q[Q[r].parent])
                      /\ Q[r].pipe # Outside => Q[r].pipe # r /\ ~Gone(Q[Q[r].pipe])
                      /\ Q[r].child # Outside <=> Q[r].pc \in {"wait", "waitleft"}
                      /\ Q[r].child # Outside => Q[Q[r].child].parent = r
    BY DEF Sound
  <2>1. Q[r].parent # Outside => Q[r].parent # r /\ ~Gone(Q[Q[r].parent])
    BY <1>4, <1>5, <1>6, <1>7
  <2>2. Q[r].pipe # Outside => Q[r].pipe # r /\ ~Gone(Q[Q[r].pipe])
    BY <1>4, <1>5, <1>6, <1>8
  <2>3. CASE r = p
    BY <1>2, <2>1, <2>2, <2>3, NoProcessIs
  <2>4. CASE r # p /\ table[r].parent = p /\ table[r].pc = "zombie"
    BY <1>3, <2>1, <2>2, <2>4, NoProcessIs
  <2>5. CASE r # p /\ ~(table[r].parent = p /\ table[r].pc = "zombie")
    <3>1. /\ Q[r].pc = table[r].pc /\ Q[r].child = table[r].child
          /\ Q[r].parent = IF table[r].parent = p THEN Outside ELSE table[r].parent
      BY <1>3, <2>5
    <3>2. Q[r].pc = "free" => Q[r] = NoProcess
      <4> SUFFICES ASSUME table[r].pc = "free" PROVE Q[r] = NoProcess
        BY <3>1
      <4>1. table[r] = NoProcess
        BY <1>4
      <4>2. table[r].parent # p /\ table[r].pipe # p
        BY <4>1, NoProcessIs, PidsAre
      <4> QED BY <1>3, <2>5, <4>1, <4>2
    <3>3. Q[r].pc = "zombie" => Q[r].parent # Outside
      BY <1>4, <2>5, <3>1
    <3>4. Q[r].child # Outside => Q[Q[r].child].parent = r
      <4> SUFFICES ASSUME table[r].child # Outside PROVE Q[table[r].child].parent = r
        BY <3>1
      <4>1. table[r].child \in Pids /\ table[table[r].child].parent = r
        BY <1>4, <1>5
      <4>2. CASE table[r].child = p
        BY <1>2, <4>1, <4>2, PidsAre
      <4>3. CASE table[r].child # p
        BY <1>3, <2>5, <4>1, <4>3
      <4> QED BY <4>2, <4>3
    <3> QED BY <1>4, <2>1, <2>2, <3>1, <3>2, <3>3, <3>4
  <2> QED BY <2>3, <2>4, <2>5
<1>10. Children(Q)
  <2> SUFFICES ASSUME NEW r \in Pids, NEW c \in Pids, Q[c].parent = r
               PROVE  MayLeave(Q[r], r, c, Q[c])
    BY DEF Children
  <2>1. r # Outside /\ table[c].parent = r /\ r # p
    BY <1>7, PidsAre
  <2>2. MayLeave(table[r], r, c, table[c]) /\ ~Gone(table[r])
    BY <1>0, <1>4, <2>1 DEF Children
  <2>3. Q[r].pc = table[r].pc /\ Q[r].child = table[r].child
    BY <1>3, <2>1, <2>2 DEF Gone
  <2>4. /\ Q[c].background = table[c].background
        /\ table[c].pipe = r => Q[c].pipe = r
    <3>1. CASE c = p
      BY <1>2, <2>1, <3>1
    <3>2. CASE c # p
      BY <1>3, <2>1, <3>2
    <3> QED BY <3>1, <3>2
  <2> QED BY <2>2, <2>3, <2>4 DEF MayLeave
<1>11. Typed(Q)
  <2> SUFFICES ASSUME NEW r \in Pids PROVE Fits(Q[r])
    BY DEF Typed
  <2>1. CASE r = p \/ (table[r].parent = p /\ table[r].pc = "zombie")
    <3>1. Q[r].pc \in {"free", "zombie"}
      BY <1>2, <1>3, <2>1, NoProcessIs
    <3> QED BY <3>1 DEF Fits, InShell, InPipe
  <2>2. CASE r # p /\ ~(table[r].parent = p /\ table[r].pc = "zombie")
    <3>1. Q[r].pc = table[r].pc /\ Q[r].mem = table[r].mem /\ Q[r].typed = table[r].typed
      BY <1>3, <2>2
    <3>2. Fits(table[r])
      BY <1>0 DEF Typed
    <3> QED BY <3>1, <3>2 DEF Fits
  <2> QED BY <2>1, <2>2
<1> QED BY <1>1, <1>9, <1>10, <1>11 DEF ShellInvOf, Q

(* fork takes the smallest free place for the child. *)
LEMMA FreePidIs ==
    ASSUME FreePids # {}
    PROVE  Min(FreePids) \in Pids /\ Min(FreePids) # Main /\ table[Min(FreePids)].pc = "free"
<1>1. FreePids \in SUBSET (1 .. MaxPid) /\ 1 \in Int /\ MaxPid \in Int
  BY PidsAre DEF FreePids, Pids
<1>2. PICK m \in FreePids : \A n \in FreePids : m <= n
  BY <1>1, RangeHasLeast
<1>3. Min(FreePids) \in FreePids
  BY <1>2 DEF Min
<1> QED BY <1>3 DEF FreePids

(* Q is the table after p forked c. *)
IsForked(Q, p, c, parentPc, childPc, pipe) ==
    /\ c \in Pids /\ c # p /\ table[c].pc = "free"
    /\ Q \in [Pids -> ProcessType]
    /\ \A q \in Pids \ {p, c} : Q[q] = table[q]
    /\ /\ Q[p].pc = parentPc
       /\ Q[p].child = (IF parentPc = "prompt" THEN Outside ELSE c)
       /\ Q[p].parent = table[p].parent /\ Q[p].pipe = table[p].pipe
       /\ Q[p].background = table[p].background
       /\ Q[p].mem = table[p].mem /\ Q[p].typed = table[p].typed
    /\ /\ Q[c].pc = childPc /\ Q[c].child = Outside /\ Q[c].parent = p
       /\ Q[c].pipe = pipe
       /\ Q[c].background = \E k \in DOMAIN table[p].typed : table[p].typed[k] = "&"
       /\ Q[c].mem = table[p].mem /\ Q[c].typed = table[p].typed

LEMMA ForkedIs ==
    ASSUME table \in [Pids -> ProcessType], NEW p \in Pids, FreePids # {},
           NEW parentPc \in PCs, NEW childPc \in PCs, NEW pipe \in 0 .. MaxPid,
           table[p].pc # "free",
           NEW Q, Q = Forked(p, parentPc, childPc, pipe),
           NEW c, c = Min(FreePids)
    PROVE  IsForked(Q, p, c, parentPc, childPc, pipe)
<1> DEFINE back == \E k \in DOMAIN table[p].typed : table[p].typed[k] = "&"
           Parent == [table[p] EXCEPT !.pc = parentPc,
                                      !.child = IF parentPc = "prompt" THEN Outside ELSE c]
           Child(b) == [table[p] EXCEPT !.pc = childPc, !.parent = p, !.child = Outside,
                                        !.pipe = pipe, !.background = b]
<1>1. c \in Pids /\ c # p /\ table[c].pc = "free"
  BY FreePidIs
<1>2. table[p] \in ProcessType
  BY FieldsAre
<1>3. Outside \in 0 .. MaxPid /\ p \in 0 .. MaxPid /\ c \in 0 .. MaxPid
  BY <1>1, PidsAre
<1>4. /\ Parent \in ProcessType
      /\ Parent.pc = parentPc /\ Parent.child = (IF parentPc = "prompt" THEN Outside ELSE c)
      /\ Parent.parent = table[p].parent /\ Parent.pipe = table[p].pipe
      /\ Parent.background = table[p].background
      /\ Parent.mem = table[p].mem /\ Parent.typed = table[p].typed
  BY <1>2, <1>3 DEF ProcessType
<1>5. back \in BOOLEAN
  OBVIOUS
<1>6. ASSUME NEW b \in BOOLEAN
      PROVE  /\ Child(b) \in ProcessType
             /\ Child(b).pc = childPc /\ Child(b).child = Outside /\ Child(b).parent = p
             /\ Child(b).pipe = pipe /\ Child(b).background = b
             /\ Child(b).mem = table[p].mem /\ Child(b).typed = table[p].typed
  BY <1>2, <1>3 DEF ProcessType
<1>7. Q = [table EXCEPT ![p].pc = parentPc,
                        ![p].child = IF parentPc = "prompt" THEN Outside ELSE c,
                        ![c] = Child(back)]
  BY DEF Forked
<1> HIDE DEF back, Child
<1>8. Q = [table EXCEPT ![p] = Parent, ![c] = Child(back)]
  BY <1>1, <1>2, <1>7
<1> HIDE DEF Parent
<1>9. /\ Q \in [Pids -> ProcessType] /\ Q[p] = Parent /\ Q[c] = Child(back)
      /\ \A q \in Pids \ {p, c} : Q[q] = table[q]
  BY <1>1, <1>4, <1>5, <1>6, <1>8
<1>10. /\ Child(back).pc = childPc /\ Child(back).child = Outside /\ Child(back).parent = p
       /\ Child(back).pipe = pipe /\ Child(back).background = back
       /\ Child(back).mem = table[p].mem /\ Child(back).typed = table[p].typed
  BY <1>5, <1>6
<1>11. Child(back).background = \E k \in DOMAIN table[p].typed : table[p].typed[k] = "&"
  BY <1>10, Zenon DEF back
<1> QED BY <1>1, <1>4, <1>9, <1>10, <1>11 DEF IsForked

(* A process forks: Run forks the child of a command, Pipe the left command. *)
LEMMA ForkedKeeps ==
    ASSUME ShellInvOf(table), NEW p \in Pids, FreePids # {},
           NEW parentPc \in {"prompt", "wait", "waitleft"},
           NEW childPc \in {"redirect", "outer", "normal", "left"}, NEW pipe,
           parentPc # "waitleft" => table[p].pc = "run" /\ pipe = table[p].pipe /\ childPc # "left",
           childPc = "outer" => table[p].mem.pipe_enable,
           parentPc = "waitleft" => table[p].pc = "outer" /\ pipe = p,
           parentPc = "prompt" => \E k \in DOMAIN table[p].typed : table[p].typed[k] = "&"
    PROVE  ShellInvOf(Forked(p, parentPc, childPc, pipe))
<1>a. PICK Q : Q = Forked(p, parentPc, childPc, pipe)
  OBVIOUS
<1>b. PICK c : c = Min(FreePids)
  OBVIOUS
<1>0. table \in [Pids -> ProcessType] /\ Sound(table) /\ Children(table) /\ Typed(table)
  BY DEF ShellInvOf
<1>1. \A r \in Pids :
         /\ table[r].pc = "free" => table[r] = NoProcess
         /\ table[r].pc = "zombie" => table[r].parent # Outside
         /\ table[r].parent # Outside => table[r].parent # r /\ ~Gone(table[table[r].parent])
         /\ table[r].pipe # Outside => table[r].pipe # r /\ ~Gone(table[table[r].pipe])
         /\ table[r].child # Outside <=> table[r].pc \in {"wait", "waitleft"}
         /\ table[r].child # Outside => table[table[r].child].parent = r
  BY <1>0 DEF Sound
<1>2. \A r \in Pids : /\ table[r].parent # Outside => table[r].parent \in Pids
                      /\ table[r].child # Outside => table[r].child \in Pids
                      /\ table[r].pipe # Outside => table[r].pipe \in Pids
  BY <1>0, FieldsAre
<1>3. pipe \in 0 .. MaxPid /\ pipe \in {p, table[p].pipe}
  BY <1>0, FieldsAre, PidsAre
<1>4. parentPc \in PCs /\ childPc \in PCs /\ table[p].pc # "free"
  BY DEF PCs
<1>c. IsForked(Q, p, c, parentPc, childPc, pipe)
  BY <1>a, <1>b, <1>0, <1>3, <1>4, ForkedIs
<1>5. /\ c \in Pids /\ c # p /\ table[c].pc = "free"
      /\ Q \in [Pids -> ProcessType]
      /\ \A q \in Pids \ {p, c} : Q[q] = table[q]
      /\ /\ Q[p].pc = parentPc
         /\ Q[p].child = (IF parentPc = "prompt" THEN Outside ELSE c)
         /\ Q[p].parent = table[p].parent /\ Q[p].pipe = table[p].pipe
         /\ Q[p].background = table[p].background
         /\ Q[p].mem = table[p].mem /\ Q[p].typed = table[p].typed
      /\ /\ Q[c].pc = childPc /\ Q[c].child = Outside /\ Q[c].parent = p
         /\ Q[c].pipe = pipe
         /\ Q[c].background = \E k \in DOMAIN table[p].typed : table[p].typed[k] = "&"
         /\ Q[c].mem = table[p].mem /\ Q[c].typed = table[p].typed
  BY <1>c DEF IsForked
<1>6. table[c] = NoProcess /\ table[c].parent = Outside /\ Gone(table[c])
  BY <1>1, <1>5, NoProcessIs DEF Gone
<1>7. \A r \in Pids : ~Gone(table[r]) => r # c /\ ~Gone(Q[r])
  BY <1>5, <1>6 DEF Gone
<1>8. ~Gone(table[p]) /\ ~Gone(Q[c])
  BY <1>5 DEF Gone
<1>9. Sound(Q)
  <2> SUFFICES ASSUME NEW r \in Pids
               PROVE  /\ Q[r].pc = "free" => Q[r] = NoProcess
                      /\ Q[r].pc = "zombie" => Q[r].parent # Outside
                      /\ Q[r].parent # Outside => Q[r].parent # r /\ ~Gone(Q[Q[r].parent])
                      /\ Q[r].pipe # Outside => Q[r].pipe # r /\ ~Gone(Q[Q[r].pipe])
                      /\ Q[r].child # Outside <=> Q[r].pc \in {"wait", "waitleft"}
                      /\ Q[r].child # Outside => Q[Q[r].child].parent = r
    BY DEF Sound
  <2>1. CASE r = p
    <3>1. Q[r].child # Outside => Q[Q[r].child].parent = r
      BY <1>5, <2>1
    <3>2. Q[r].child # Outside <=> Q[r].pc \in {"wait", "waitleft"}
      BY <1>5, <2>1, PidsAre
    <3>3. Q[r].parent # Outside => Q[r].parent # r /\ ~Gone(Q[Q[r].parent])
      BY <1>1, <1>2, <1>5, <1>7, <2>1
    <3>4. Q[r].pipe # Outside => Q[r].pipe # r /\ ~Gone(Q[Q[r].pipe])
      BY <1>1, <1>2, <1>5, <1>7, <2>1
    <3> QED BY <1>5, <2>1, <3>1, <3>2, <3>3, <3>4
  <2>2. CASE r = c
    <3>1. Q[r].pipe # Outside => Q[r].pipe # r /\ ~Gone(Q[Q[r].pipe])
      BY <1>1, <1>2, <1>3, <1>5, <1>7, <1>8, <2>2
    <3>2. Q[r].parent # Outside => Q[r].parent # r /\ ~Gone(Q[Q[r].parent])
      BY <1>5, <1>7, <1>8, <2>2
    <3> QED BY <1>5, <2>2, <3>1, <3>2
  <2>3. CASE r \notin {p, c}
    <3>1. Q[r] = table[r]
      BY <1>5, <2>3
    <3>2. Q[r].child # Outside => Q[Q[r].child].parent = r
      <4> SUFFICES ASSUME table[r].child # Outside PROVE Q[table[r].child].parent = r
        BY <3>1
      <4>1. table[r].child \in Pids /\ table[table[r].child].parent = r /\ r # Outside
        BY <1>1, <1>2, PidsAre
      <4>2. table[r].child # c
        BY <1>6, <4>1
      <4> QED BY <1>5, <4>1, <4>2
    <3> QED BY <1>1, <1>2, <1>7, <3>1, <3>2
  <2> QED BY <2>1, <2>2, <2>3
<1>10. Children(Q)
  <2> SUFFICES ASSUME NEW r \in Pids, NEW d \in Pids, Q[d].parent = r
               PROVE  MayLeave(Q[r], r, d, Q[d])
    BY DEF Children
  <2>1. CASE d = c
    <3>1. r = p
      BY <1>5, <2>1
    <3>2. parentPc = "prompt" => Q[c].background
      BY <1>5
    <3> QED BY <1>5, <2>1, <3>1, <3>2, PidsAre DEF MayLeave
  <2>2. CASE d # c
    <3>1. table[d].parent = r
      BY <1>5, <2>2
    <3>2. MayLeave(table[r], r, d, table[d]) /\ r # c
      BY <1>0, <1>1, <1>6, <3>1, PidsAre DEF Children
    <3>3. Q[d].pipe = table[d].pipe /\ Q[d].background = table[d].background
      BY <1>5, <2>2
    <3>4. CASE r = p
      BY <1>5, <3>2, <3>3, <3>4 DEF MayLeave
    <3>5. CASE r # p
      BY <1>5, <3>2, <3>3, <3>5 DEF MayLeave
    <3> QED BY <3>4, <3>5
  <2> QED BY <2>1, <2>2
<1>11. Typed(Q)
  <2> SUFFICES ASSUME NEW r \in Pids PROVE Fits(Q[r])
    BY DEF Typed
  <2>1. Fits(table[p])
    BY <1>0 DEF Typed
  <2>2. CASE r \in {p, c}
    <3>1. Q[r].mem = table[p].mem /\ Q[r].typed = table[p].typed
      BY <1>5, <2>2
    <3>2. Means(table[p].typed, table[p].mem)
      BY <2>1 DEF Fits, InShell
    <3>3. Q[r].pc \in InPipe => table[p].mem.pipe_enable
      BY <1>5, <2>1, <2>2 DEF Fits, InPipe
    <3> QED BY <3>1, <3>2, <3>3 DEF Fits
  <2>3. CASE r \notin {p, c}
    BY <1>0, <1>5, <2>3 DEF Typed
  <2> QED BY <2>2, <2>3
<1> QED BY <1>a, <1>5, <1>9, <1>10, <1>11 DEF ShellInvOf

(* A process has waited long enough for its child, which is d from then on. *)
LEMMA ReapedKeeps ==
    ASSUME ShellInvOf(table), NEW p \in Pids,
           NEW pc, NEW c, c = table[p].child,
           NEW d, d = IF table[c].pc = "zombie" THEN NoProcess ELSE table[c],
           \/ pc = "prompt" /\ table[p].pc = "wait" /\ table[c].pc = "zombie"
           \/ pc = "right" /\ table[p].pc = "waitleft",
           NEW Q, Q = [table EXCEPT ![p].pc = pc, ![p].child = Outside, ![c] = d]
    PROVE  ShellInvOf(Q)
<1>0. table \in [Pids -> ProcessType] /\ Sound(table) /\ Children(table) /\ Typed(table)
  BY DEF ShellInvOf
<1>1. \A r \in Pids :
         /\ table[r].pc = "free" => table[r] = NoProcess
         /\ table[r].pc = "zombie" => table[r].parent # Outside
         /\ table[r].parent # Outside => table[r].parent # r /\ ~Gone(table[table[r].parent])
         /\ table[r].pipe # Outside => table[r].pipe # r /\ ~Gone(table[table[r].pipe])
         /\ table[r].child # Outside <=> table[r].pc \in {"wait", "waitleft"}
         /\ table[r].child # Outside => table[table[r].child].parent = r
  BY <1>0 DEF Sound
<1>2. \A r \in Pids : /\ table[r].parent # Outside => table[r].parent \in Pids
                      /\ table[r].child # Outside => table[r].child \in Pids
                      /\ table[r].pipe # Outside => table[r].pipe \in Pids
  BY <1>0, FieldsAre
<1>3. c \in Pids /\ table[c].parent = p /\ c # p /\ ~Gone(table[p])
  <2>1. c \in Pids /\ table[c].parent = p
    BY <1>1, <1>2
  <2>2. p # Outside
    BY PidsAre
  <2> QED BY <1>1, <2>1, <2>2
<1>4. /\ Q \in [Pids -> ProcessType]
      /\ \A q \in Pids \ {p, c} : Q[q] = table[q]
      /\ /\ Q[p].pc = pc /\ Q[p].child = Outside
         /\ Q[p].parent = table[p].parent /\ Q[p].pipe = table[p].pipe
         /\ Q[p].background = table[p].background
         /\ Q[p].mem = table[p].mem /\ Q[p].typed = table[p].typed
      /\ Q[c] = d
  <2> DEFINE Parent == [table[p] EXCEPT !.pc = pc, !.child = Outside]
  <2>1. table[p] \in ProcessType /\ table[c] \in ProcessType /\ d \in ProcessType
    BY <1>0, <1>3, FieldsAre, NoProcessIs
  <2>2. pc \in PCs /\ Outside \in 0 .. MaxPid
    BY PidsAre DEF PCs
  <2>3. /\ Parent \in ProcessType
        /\ Parent.pc = pc /\ Parent.child = Outside
        /\ Parent.parent = table[p].parent /\ Parent.pipe = table[p].pipe
        /\ Parent.background = table[p].background
        /\ Parent.mem = table[p].mem /\ Parent.typed = table[p].typed
    BY <2>1, <2>2 DEF ProcessType
  <2>4. Q = [table EXCEPT ![p] = Parent, ![c] = d]
    BY <1>0, <1>3, <2>1
  <2> HIDE DEF Parent
  <2> QED BY <1>0, <1>3, <2>1, <2>3, <2>4
<1>5. \A r \in Pids : ~Gone(table[r]) => ~Gone(Q[r])
  BY <1>3, <1>4 DEF Gone
<1>6. /\ Q[c].parent \in {Outside, table[c].parent} /\ Q[c].pipe \in {Outside, table[c].pipe}
      /\ Q[c].pc = "free" => Q[c] = NoProcess
      /\ Q[c].pc # "zombie"
      /\ Q[c].child # Outside <=> Q[c].pc \in {"wait", "waitleft"}
      /\ Q[c].child # Outside => Q[c].child = table[c].child /\ table[c].pc # "zombie"
  BY <1>1, <1>3, <1>4, NoProcessIs
<1>7. Sound(Q)
  <2> SUFFICES ASSUME NEW r \in Pids
               PROVE  /\ Q[r].pc = "free" => Q[r] = NoProcess
                      /\ Q[r].pc = "zombie" => Q[r].parent # Outside
                      /\ Q[r].parent # Outside => Q[r].parent # r /\ ~Gone(Q[Q[r].parent])
                      /\ Q[r].pipe # Outside => Q[r].pipe # r /\ ~Gone(Q[Q[r].pipe])
                      /\ Q[r].child # Outside <=> Q[r].pc \in {"wait", "waitleft"}
                      /\ Q[r].child # Outside => Q[Q[r].child].parent = r
    BY DEF Sound
  <2>1. /\ Q[r].parent # Outside => Q[r].parent # r /\ ~Gone(Q[Q[r].parent])
        /\ Q[r].pipe # Outside => Q[r].pipe # r /\ ~Gone(Q[Q[r].pipe])
    <3>1. Q[r].parent \in {Outside, table[r].parent} /\ Q[r].pipe \in {Outside, table[r].pipe}
      BY <1>4, <1>6
    <3> QED BY <1>1, <1>2, <1>5, <3>1
  <2>2. CASE r = p
    BY <1>4, <2>1, <2>2
  <2>3. r # p => (Q[r].child # Outside => Q[Q[r].child].parent = r)
    <3> SUFFICES ASSUME r # p, Q[r].child # Outside PROVE Q[Q[r].child].parent = r
      OBVIOUS
    <3>1. Q[r].child = table[r].child
      BY <1>4, <1>6
    <3>2. table[r].child \in Pids /\ table[table[r].child].parent = r
      BY <1>1, <1>2, <3>1
    <3>3. table[r].child # c
      BY <1>3, <3>2
    <3> QED BY <1>4, <3>1, <3>2, <3>3
  <2>4. CASE r = c
    BY <1>3, <1>6, <2>1, <2>3, <2>4
  <2>5. CASE r \notin {p, c}
    BY <1>1, <1>4, <2>1, <2>3, <2>5
  <2> QED BY <2>2, <2>4, <2>5
<1>8. Children(Q)
  <2> SUFFICES ASSUME NEW r \in Pids, NEW k \in Pids, Q[k].parent = r
               PROVE  MayLeave(Q[r], r, k, Q[k])
    BY DEF Children
  <2>0. r # Outside
    BY PidsAre
  <2>1. table[k].parent = r
    BY <1>4, <1>6, <2>0
  <2>2. MayLeave(table[r], r, k, table[k]) /\ ~Gone(table[r])
    BY <1>0, <1>1, <2>0, <2>1 DEF Children
  <2>3. Q[k].pipe = table[k].pipe /\ Q[k].background = table[k].background
    <3>1. k = c => Q[k] = table[k]
      BY <1>4, <2>0, NoProcessIs
    <3> QED BY <1>4, <3>1
  <2>4. CASE r = p
    <3>1. pc = "prompt" => k # c
      BY <1>4, <2>0, NoProcessIs
    <3> QED BY <1>4, <2>2, <2>3, <2>4, <3>1 DEF MayLeave
  <2>5. CASE r # p
    <3>1. Q[r] = table[r]
      BY <1>4, <2>2, <2>5 DEF Gone
    <3> QED BY <2>2, <2>3, <3>1 DEF MayLeave
  <2> QED BY <2>4, <2>5
<1>9. Typed(Q)
  <2> SUFFICES ASSUME NEW r \in Pids PROVE Fits(Q[r])
    BY DEF Typed
  <2>0. Fits(table[r])
    BY <1>0 DEF Typed
  <2>1. CASE r = p
    <3>1. table[p].pc \in InShell /\ (pc = "right" => table[p].pc \in InPipe)
      BY DEF InShell, InPipe
    <3>2. pc = "prompt" => pc \notin InPipe
      BY DEF InPipe
    <3> QED BY <1>4, <2>0, <2>1, <3>1, <3>2 DEF Fits
  <2>2. CASE r # p
    <3>1. Q[r] = table[r] \/ Q[r].pc = "free"
      BY <1>4, <2>2, NoProcessIs
    <3> QED BY <2>0, <3>1 DEF Fits, InShell, InPipe
  <2> QED BY <2>1, <2>2
<1> QED BY <1>4, <1>7, <1>8, <1>9 DEF ShellInvOf

(* A process whose children may stay goes to another place of the code. *)
LEMMA GoOnKeeps ==
    ASSUME ShellInvOf(table), NEW p \in Pids, NEW pc \in PCs,
           ~Gone(table[p]), table[p].child = Outside,
           pc \notin {"free", "zombie", "wait", "waitleft"},
           \/ pc \in {"program", "stopped"} /\ table[p].pc \in {"program", "stopped"}
           \/ pc = "prompt" /\ table[p].pc \in {"run", "redirect", "outer", "left", "right"}
    PROVE  ShellInvOf(GoOn(table, p, pc))
<1> DEFINE q == [table[p] EXCEPT !.pc = pc]
<1>0. /\ table \in [Pids -> ProcessType] /\ Children(table) /\ Typed(table)
      /\ table[p] \in ProcessType
  BY FieldsAre DEF ShellInvOf
<1>1. /\ q \in ProcessType /\ q.pc = pc
      /\ q.parent = table[p].parent /\ q.child = table[p].child /\ q.pipe = table[p].pipe
      /\ q.background = table[p].background /\ q.mem = table[p].mem /\ q.typed = table[p].typed
  BY <1>0 DEF ProcessType
<1>2. GoOn(table, p, pc) = [table EXCEPT ![p] = q]
  BY <1>0 DEF GoOn
<1> HIDE DEF q
<1>3. \A c \in Pids : table[c].parent = p => MayLeave(q, p, c, table[c])
  <2> SUFFICES ASSUME NEW c \in Pids, table[c].parent = p PROVE MayLeave(q, p, c, table[c])
    OBVIOUS
  <2>1. MayLeave(table[p], p, c, table[c])
    BY <1>0 DEF Children
  <2> QED BY <1>1, <2>1 DEF MayLeave
<1>4. Fits(q)
  <2>1. Fits(table[p])
    BY <1>0 DEF Typed
  <2> QED BY <1>1, <2>1 DEF Fits, InShell, InPipe
<1> QED BY <1>1, <1>2, <1>3, <1>4, MoveKeeps

(* execvp: the process is a program, ends, or goes on. *)
LEMMA ExecvpKeeps ==
    ASSUME ShellInvOf(table), NEW p \in Pids, NEW words \in Seq(STRING), NEW goesOn,
           table[p].pc \in {"normal", "redirect", "left", "right"},
           ShellInvOf(goesOn), Execvp(p, words, goesOn)
    PROVE  ShellInvOf(table')
<1>0. /\ table \in [Pids -> ProcessType] /\ Sound(table) /\ Children(table)
      /\ table[p] \in ProcessType /\ ~Gone(table[p]) /\ table[p].child = Outside
  BY FieldsAre DEF ShellInvOf, Sound, Gone
<1>1. CASE words = <<>>
  BY <1>0, <1>1, EndedKeeps DEF Execvp
<1>2. CASE words # <<>> /\ words[1] \notin Programs
  BY <1>2 DEF Execvp
<1>3. CASE words # <<>> /\ words[1] \in Programs
  <2> DEFINE m == [NoCommand EXCEPT !.args = <<words[1]>>]
             q == [table[p] EXCEPT !.pc = "program", !.typed = <<>>, !.mem = m]
  <2>1. m \in Memories
    <3>1. words[1] \in STRING
      BY <1>3, EmptySeq
    <3>2. <<words[1]>> \in Seq(STRING)
      BY <3>1
    <3> QED BY <3>2 DEF Memories, NoCommand
  <2> HIDE DEF m
  <2>2. "program" \in PCs
    BY DEF PCs
  <2>3. /\ q \in ProcessType /\ q.pc = "program"
        /\ q.parent = table[p].parent /\ q.child = table[p].child /\ q.pipe = table[p].pipe
        /\ q.background = table[p].background
    BY <1>0, <2>1, <2>2 DEF ProcessType
  <2>4. table' = [table EXCEPT ![p] = q]
    BY <1>0, <1>3 DEF Execvp, m
  <2> HIDE DEF q
  <2>5. \A c \in Pids : table[c].parent = p => MayLeave(q, p, c, table[c])
    BY <2>3 DEF MayLeave
  <2>6. Fits(q)
    BY <2>3 DEF Fits, InShell, InPipe
  <2> QED BY <1>0, <2>3, <2>4, <2>5, <2>6, MoveKeeps
<1> QED BY <1>1, <1>2, <1>3

(* The words of a line are finitely many, and those up to each of them are *)
(* at least one.                                                           *)
LEMMA CountIs ==
    ASSUME NEW n \in Nat, NEW W \in SUBSET (1 .. n), NEW k \in W
    PROVE  /\ IsFiniteSet({j \in W : j <= k})
           /\ Cardinality({j \in W : j <= k}) \in 1 .. Cardinality(W)
           /\ IsFiniteSet(W) /\ Cardinality(W) \in Nat
<1> DEFINE V == {j \in W : j <= k}
<1>1. IsFiniteSet(W) /\ Cardinality(W) \in Nat
  <2>1. IsFiniteSet(1 .. n)
    BY FS_Interval
  <2>2. IsFiniteSet(W)
    BY <2>1, FS_Subset
  <2> QED BY <2>2, FS_CardinalityType
<1>2. V \subseteq W /\ k \in V
  OBVIOUS
<1> HIDE DEF V
<1>3. IsFiniteSet(V) /\ Cardinality(V) <= Cardinality(W)
  BY <1>1, <1>2, FS_Subset
<1>4. Cardinality(V) \in Nat /\ Cardinality(V) # 0
  BY <1>2, <1>3, FS_CardinalityType, FS_EmptySet
<1> QED BY <1>1, <1>3, <1>4 DEF V

(* A command with pipe_enable has a | among its arguments. *)
LEMMA BarIsThere ==
    ASSUME NEW line \in Seq(STRING), NEW m \in Memories, Means(line, m), m.pipe_enable
    PROVE  \E k \in 1 .. Len(m.args) : m.args[k] = "|"
<1> DEFINE W == {k \in Counted(line) \ Files(line) : line[k] \notin {"<", ">"}}
<1>1. W \in SUBSET (1 .. Len(line)) /\ Len(line) \in Nat
  BY DEF Counted
<1>2. PICK k \in W : line[k] = "|"
  BY Zenon DEF Means
<1>3. m.args[Cardinality({j \in W : j <= k})] = line[k] /\ Len(m.args) = Cardinality(W)
  BY Zenon DEF Means
<1> HIDE DEF W
<1>4. Cardinality({j \in W : j <= k}) \in 1 .. Cardinality(W)
  BY <1>1, CountIs
<1> QED BY <1>2, <1>3, <1>4

(* The two commands of a pipe are made of the words of the line. *)
LEMMA CommandsAre ==
    ASSUME ShellInvOf(table), NEW p \in Pids, table[p].pc \in InPipe
    PROVE  left(p) \in Seq(STRING) /\ right(p) \in Seq(STRING)
<1> DEFINE m == table[p].mem
<1>1. m \in Memories /\ table[p].typed \in Seq(STRING)
  <2>1. m \in Memories /\ table[p].typed \in Lines \cup {<<>>}
    BY FieldsAre DEF ShellInvOf
  <2> QED BY <2>1, ShellAssumption, EmptySeq
<1>2. Means(table[p].typed, m) /\ m.pipe_enable
  BY DEF ShellInvOf, Typed, Fits, InPipe, InShell
<1>3. m.args \in Seq(STRING)
  BY <1>1 DEF Memories
<1>4. \E k \in 1 .. Len(m.args) : m.args[k] = "|"
  BY <1>1, <1>2, BarIsThere
<1> DEFINE B == {k \in 1 .. Len(m.args) : m.args[k] = "|"}
<1>5. mid(p) = Min(B)
  BY DEF mid
<1>6. B \in SUBSET (1 .. Len(m.args)) /\ B # {} /\ 1 \in Int /\ Len(m.args) \in Int
  BY <1>3, <1>4
<1> HIDE DEF B
<1>7. PICK k \in B : \A j \in B : k <= j
  BY <1>6, RangeHasLeast
<1>8. mid(p) \in 1 .. Len(m.args)
  BY <1>5, <1>6, <1>7 DEF Min
<1> HIDE DEF m
<1>9. SubSeq(m.args, 1, mid(p) - 1) \in Seq(STRING)
  BY <1>3, <1>8
<1>10. SubSeq(m.args, mid(p) + 1, Len(m.args)) \in Seq(STRING)
  BY <1>3, <1>8
<1> QED BY <1>9, <1>10 DEF left, right, m

-----------------------------------------------------------------------------
(* The shell: the words of a line *)

(* The sets that Files goes through. *)
FilesUpTo(line) ==
    LET files[k \in 0 .. Len(line)] ==
            IF k < 2 THEN {}
            ELSE IF line[k - 1] \in {"<", ">"} /\ k - 1 \notin files[k - 1]
                 THEN files[k - 1] \cup {k} ELSE files[k - 1]
    IN  files

LEMMA FilesAreLast == \A line : Files(line) = FilesUpTo(line)[Len(line)]
BY DEF Files, FilesUpTo

(* A word names a file. *)
NamesFile(line, k, F) == k >= 2 /\ line[k - 1] \in {"<", ">"} /\ k - 1 \notin F

LEMMA FilesUpToIs ==
    ASSUME NEW line \in Seq(STRING)
    PROVE  /\ FilesUpTo(line)[0] = {}
           /\ \A k \in 1 .. Len(line) :
                 FilesUpTo(line)[k] = IF NamesFile(line, k, FilesUpTo(line)[k - 1])
                                      THEN FilesUpTo(line)[k - 1] \cup {k}
                                      ELSE IF k < 2 THEN {} ELSE FilesUpTo(line)[k - 1]
<1> DEFINE n == Len(line)
           D == SUBSET (1 .. n)
           Round(k, F) == IF NamesFile(line, k, F) THEN F \cup {k} ELSE IF k < 2 THEN {} ELSE F
           h == [k \in 1 .. n |-> [F \in D |-> Round(k, F)]]
           Eq(f) == f = [k \in 0 .. n |->
                            IF k < 2 THEN {}
                            ELSE IF line[k - 1] \in {"<", ">"} /\ k - 1 \notin f[k - 1]
                                 THEN f[k - 1] \cup {k} ELSE f[k - 1]]
<1>1. n \in Nat /\ {} \in D
  OBVIOUS
<1>2. ASSUME NEW k \in 1 .. n, NEW F \in D
      PROVE  Round(k, F) \in D
  OBVIOUS
<1> HIDE DEF n, D, Round
<1>3. h \in [1 .. n -> [D -> D]]
  BY <1>2
<1>4. CanIterate(n, D, {}, h)
  BY <1>1, <1>3 DEF CanIterate
<1>5. PICK f : IsIteration(f, n, D, {}, h)
  BY <1>4, Recursion
<1>6. f \in [0 .. n -> D] /\ f[0] = {} /\ \A k \in 1 .. n : f[k] = h[k][f[k - 1]]
  BY <1>5 DEF IsIteration
<1>7. ASSUME NEW k \in 1 .. n
      PROVE  f[k] = Round(k, f[k - 1])
  <2>1. f[k - 1] \in D
    BY <1>1, <1>6
  <2> QED BY <1>6, <2>1
<1>8. \A k \in 0 .. n :
         f[k] = IF k < 2 THEN {}
                ELSE IF line[k - 1] \in {"<", ">"} /\ k - 1 \notin f[k - 1]
                     THEN f[k - 1] \cup {k} ELSE f[k - 1]
  <2> SUFFICES ASSUME NEW k \in 0 .. n, k # 0
               PROVE  f[k] = IF k < 2 THEN {}
                             ELSE IF line[k - 1] \in {"<", ">"} /\ k - 1 \notin f[k - 1]
                                  THEN f[k - 1] \cup {k} ELSE f[k - 1]
    BY <1>6
  <2>1. k \in 1 .. n /\ k \in Int
    BY <1>1
  <2>2. f[k] = Round(k, f[k - 1])
    BY <1>7, <2>1
  <2>3. k >= 2 <=> ~(k < 2)
    BY <2>1
  <2> QED BY <2>2, <2>3, Zenon DEF Round, NamesFile
<1> HIDE DEF h
<1>9. Eq(f)
  BY <1>6, <1>8
<1>10. Eq(FilesUpTo(line))
  BY <1>9 DEF FilesUpTo, n
<1> DEFINE g == FilesUpTo(line)
<1> HIDE DEF g
<1>11. g = [k \in 0 .. n |-> IF k < 2 THEN {}
                             ELSE IF line[k - 1] \in {"<", ">"} /\ k - 1 \notin g[k - 1]
                                  THEN g[k - 1] \cup {k} ELSE g[k - 1]]
  BY <1>10 DEF g
<1>12. g[0] = {} /\ \A k \in 1 .. n : g[k] = Round(k, g[k - 1])
  <2>1. 0 \in 0 .. n /\ \A k \in 1 .. n : k \in 0 .. n /\ k \in Int
    BY <1>1
  <2>2. g[0] = {}
    BY <1>11, <2>1
  <2>3. ASSUME NEW k \in 1 .. n
        PROVE  g[k] = Round(k, g[k - 1])
    <3>1. k >= 2 <=> ~(k < 2)
      BY <2>1
    <3>2. g[k] = IF k < 2 THEN {}
                 ELSE IF line[k - 1] \in {"<", ">"} /\ k - 1 \notin g[k - 1]
                      THEN g[k - 1] \cup {k} ELSE g[k - 1]
      BY <1>11, <2>1, Zenon
    <3> QED BY <3>1, <3>2, Zenon DEF Round, NamesFile
  <2> QED BY <2>2, <2>3
<1> QED BY <1>12 DEF g, n, Round

(* Which words of a line name a file, by the words before them. *)
LEMMA FilesAre ==
    ASSUME NEW line \in Seq(STRING)
    PROVE  /\ Files(line) \in SUBSET (1 .. Len(line))
           /\ \A k \in 1 .. Len(line) :
                 k \in Files(line) <=> NamesFile(line, k, Files(line))
<1> DEFINE n == Len(line)
           g == FilesUpTo(line)
           S == {k \in 0 .. n : /\ g[k] \in SUBSET (1 .. k)
                                /\ \A j \in 0 .. k : g[k] \cap (1 .. j) = g[j]}
<1>1. n \in Nat /\ g[0] = {}
  BY FilesUpToIs
<1>2. \A k \in 1 .. n :
         g[k] = IF NamesFile(line, k, g[k - 1]) THEN g[k - 1] \cup {k}
                ELSE IF k < 2 THEN {} ELSE g[k - 1]
  BY FilesUpToIs
<1> HIDE DEF n, g
<1>3. 0 \in S
  BY <1>1
<1>4. ASSUME NEW k \in 1 .. n, k - 1 \in S
      PROVE  k \in S
  <2>1. /\ g[k - 1] \in SUBSET (1 .. k - 1)
        /\ \A j \in 0 .. k - 1 : g[k - 1] \cap (1 .. j) = g[j]
    BY <1>4
  <2>2. k \in Int /\ k >= 1 /\ k <= n /\ n \in Int
    BY <1>1
  <2>3. g[k] \in {g[k - 1], g[k - 1] \cup {k}}
    <3>1. k < 2 => g[k - 1] = {}
      BY <1>1, <2>2
    <3> QED BY <1>2, <3>1
  <2>4. g[k] \in SUBSET (1 .. k)
    BY <2>1, <2>2, <2>3
  <2>5. ASSUME NEW j \in 0 .. k
        PROVE  g[k] \cap (1 .. j) = g[j]
    <3>1. CASE j = k
      BY <2>4, <3>1
    <3>2. CASE j # k
      <4>1. j \in 0 .. k - 1
        BY <2>2, <3>2
      <4>2. g[k] \cap (1 .. j) = g[k - 1] \cap (1 .. j)
        BY <2>2, <2>3, <4>1
      <4> QED BY <2>1, <4>1, <4>2
    <3> QED BY <3>1, <3>2
  <2> QED BY <1>1, <2>4, <2>5
<1> HIDE DEF S
<1>5. 0 .. n \subseteq S
  BY <1>1, <1>3, <1>4, BoundedInduction
<1>6. n \in S /\ \A k \in 1 .. n : k \in S /\ k - 1 \in S
  BY <1>1, <1>5
<1>7. Files(line) = g[n]
  BY FilesAreLast DEF g, n
<1>8. g[n] \in SUBSET (1 .. n) /\ \A j \in 0 .. n : g[n] \cap (1 .. j) = g[j]
  BY <1>6 DEF S
<1>9. ASSUME NEW k \in 1 .. n
      PROVE  k \in g[n] <=> NamesFile(line, k, g[n])
  <2>1. k \in 0 .. n /\ k - 1 \in 0 .. n /\ k \in 1 .. k /\ k \notin 1 .. k - 1 /\ k \in Int
    BY <1>1
  <2>2. k \in g[n] <=> k \in g[k]
    BY <1>8, <2>1
  <2>3. k \notin g[k - 1]
    BY <1>8, <2>1
  <2>4. k \in g[k] <=> NamesFile(line, k, g[k - 1])
    BY <1>2, <2>1, <2>3
  <2>5. k >= 2 => (k - 1 \in g[n] <=> k - 1 \in g[k - 1])
    <3>1. k >= 2 => k - 1 \in 1 .. k - 1
      BY <2>1
    <3> QED BY <1>8, <2>1, <3>1
  <2> QED BY <2>2, <2>4, <2>5 DEF NamesFile
<1> QED BY <1>7, <1>8, <1>9 DEF n

(* The states that the loop over the words goes through. *)
Modes == {"word", "in", "out", "exit", "break"}

Rounds == [mem : Memories, mode : Modes]

RoundsOf(line, mem) ==
    LET loop[k \in 0 .. Len(line)] ==
            IF k = 0 THEN [mem |-> reset_shell(mem), mode |-> "word"]
            ELSE TakeWord(loop[k - 1], line[k])
    IN  loop

LEMMA ParsedIsLast ==
    \A line, mem : Parsed(line, mem) = IF line[1] = "!!" THEN [mem |-> mem, mode |-> "break"]
                                       ELSE RoundsOf(line, mem)[Len(line)]
BY DEF Parsed, RoundsOf

(* What one word does, by the mode. *)
Taken(t, s, word) ==
    /\ t \in Rounds
    /\ s.mode \in {"exit", "break"} => t = s
    /\ s.mode = "in" =>
          /\ t.mode = "word" /\ t.mem.in_file = word /\ t.mem.out_file = s.mem.out_file
          /\ t.mem.args = s.mem.args /\ t.mem.ampersand = s.mem.ampersand
          /\ t.mem.pipe_enable = s.mem.pipe_enable
    /\ s.mode = "out" =>
          /\ t.mode = "word" /\ t.mem.out_file = word /\ t.mem.in_file = s.mem.in_file
          /\ t.mem.args = s.mem.args /\ t.mem.ampersand = s.mem.ampersand
          /\ t.mem.pipe_enable = s.mem.pipe_enable
    /\ s.mode = "word" /\ word = "exit" => t.mode = "exit"
    /\ s.mode = "word" /\ word = "help" => t.mode = "break" /\ t.mem = s.mem
    /\ s.mode = "word" /\ word = "&" =>
          /\ t.mode = "break" /\ t.mem.ampersand = TRUE
          /\ t.mem.args = s.mem.args /\ t.mem.in_file = s.mem.in_file
          /\ t.mem.out_file = s.mem.out_file /\ t.mem.pipe_enable = s.mem.pipe_enable
    /\ s.mode = "word" /\ word = "<" => t.mode = "in" /\ t.mem = s.mem
    /\ s.mode = "word" /\ word = ">" => t.mode = "out" /\ t.mem = s.mem
    /\ s.mode = "word" /\ word \notin {"exit", "help", "&", "<", ">"} =>
          /\ t.mode = "word" /\ t.mem.args = Append(s.mem.args, word)
          /\ t.mem.pipe_enable = (s.mem.pipe_enable \/ word = "|")
          /\ t.mem.ampersand = s.mem.ampersand
          /\ t.mem.in_file = s.mem.in_file /\ t.mem.out_file = s.mem.out_file

LEMMA TakeWordIs ==
    ASSUME NEW s \in Rounds, NEW word \in STRING, NEW t, t = TakeWord(s, word)
    PROVE  Taken(t, s, word)
<1>1. /\ s.mem \in Memories /\ s.mode \in Modes
      /\ s.mem.args \in Seq(STRING) /\ s.mem.ampersand \in BOOLEAN
      /\ s.mem.in_file \in STRING \cup {NoFile} /\ s.mem.out_file \in STRING \cup {NoFile}
      /\ s.mem.pipe_enable \in BOOLEAN
  BY DEF Rounds, Memories
<1>2. {"word", "in", "out", "exit", "break"} \subseteq Modes
  BY DEF Modes
<1>3. CASE s.mode \in {"exit", "break"}
  BY <1>1, <1>3 DEF TakeWord, Taken, Rounds
<1>4. CASE s.mode = "in"
  <2>1. t = [s EXCEPT !.mem.in_file = word, !.mode = "word"]
    BY <1>4 DEF TakeWord
  <2> DEFINE M == [s.mem EXCEPT !.in_file = word]
  <2>2. /\ M \in Memories /\ M.args = s.mem.args
        /\ M.ampersand = s.mem.ampersand
        /\ M.in_file = word
        /\ M.out_file = s.mem.out_file
        /\ M.pipe_enable = s.mem.pipe_enable
    BY <1>1 DEF Memories
  <2>3. t = [s EXCEPT !.mem = M, !.mode = "word"]
    BY <1>1, <2>1 DEF Rounds, Memories
  <2> HIDE DEF M
  <2>4. t \in Rounds /\ t.mode = "word" /\ t.mem = M
    BY <1>1, <1>2, <1>4, <2>2, <2>3 DEF Rounds
  <2> QED BY <1>4, <2>2, <2>4 DEF Taken
<1>5. CASE s.mode = "out"
  <2>1. t = [s EXCEPT !.mem.out_file = word, !.mode = "word"]
    BY <1>5 DEF TakeWord
  <2> DEFINE M == [s.mem EXCEPT !.out_file = word]
  <2>2. /\ M \in Memories /\ M.args = s.mem.args
        /\ M.ampersand = s.mem.ampersand
        /\ M.in_file = s.mem.in_file
        /\ M.out_file = word
        /\ M.pipe_enable = s.mem.pipe_enable
    BY <1>1 DEF Memories
  <2>3. t = [s EXCEPT !.mem = M, !.mode = "word"]
    BY <1>1, <2>1 DEF Rounds, Memories
  <2> HIDE DEF M
  <2>4. t \in Rounds /\ t.mode = "word" /\ t.mem = M
    BY <1>1, <1>2, <1>5, <2>2, <2>3 DEF Rounds
  <2> QED BY <1>5, <2>2, <2>4 DEF Taken
<1>6. CASE s.mode = "word" /\ word = "exit"
  <2>1. t = [s EXCEPT !.mode = "exit"]
    BY <1>6 DEF TakeWord
  <2> QED BY <1>1, <1>2, <1>6, <2>1 DEF Rounds, Taken
<1>7. CASE s.mode = "word" /\ word = "help"
  <2>1. t = [s EXCEPT !.mode = "break"]
    BY <1>7 DEF TakeWord
  <2> QED BY <1>1, <1>2, <1>7, <2>1 DEF Rounds, Taken
<1>8. CASE s.mode = "word" /\ word = "&"
  <2>1. t = [s EXCEPT !.mem.ampersand = TRUE, !.mode = "break"]
    BY <1>8 DEF TakeWord
  <2> DEFINE M == [s.mem EXCEPT !.ampersand = TRUE]
  <2>2. /\ M \in Memories /\ M.args = s.mem.args
        /\ M.ampersand = TRUE
        /\ M.in_file = s.mem.in_file
        /\ M.out_file = s.mem.out_file
        /\ M.pipe_enable = s.mem.pipe_enable
    BY <1>1 DEF Memories
  <2>3. t = [s EXCEPT !.mem = M, !.mode = "break"]
    BY <1>1, <2>1 DEF Rounds, Memories
  <2> HIDE DEF M
  <2>4. t \in Rounds /\ t.mode = "break" /\ t.mem = M
    BY <1>1, <1>2, <1>8, <2>2, <2>3 DEF Rounds
  <2> QED BY <1>8, <2>2, <2>4 DEF Taken
<1>9. CASE s.mode = "word" /\ word = "<"
  <2>1. t = [s EXCEPT !.mode = "in"]
    BY <1>9 DEF TakeWord
  <2> QED BY <1>1, <1>2, <1>9, <2>1 DEF Rounds, Taken
<1>10. CASE s.mode = "word" /\ word = ">"
  <2>1. t = [s EXCEPT !.mode = "out"]
    BY <1>10 DEF TakeWord
  <2> QED BY <1>1, <1>2, <1>10, <2>1 DEF Rounds, Taken
<1>11. CASE s.mode = "word" /\ word \notin {"exit", "help", "&", "<", ">"}
  <2>1. t = [s EXCEPT !.mem.args = Append(@, word),
                      !.mem.pipe_enable = (@ \/ word = "|")]
    BY <1>11 DEF TakeWord
  <2> DEFINE b == s.mem.pipe_enable \/ word = "|"
  <2>a. Append(s.mem.args, word) \in Seq(STRING)
    BY <1>1
  <2>b. b \in BOOLEAN
    OBVIOUS
  <2>c. t = [s EXCEPT !.mem.args = Append(@, word), !.mem.pipe_enable = b]
    BY <2>1
  <2> HIDE DEF b
  <2> DEFINE M == [s.mem EXCEPT !.args = Append(s.mem.args, word), !.pipe_enable = b]
  <2>2. /\ M \in Memories /\ M.args = Append(s.mem.args, word)
        /\ M.ampersand = s.mem.ampersand
        /\ M.in_file = s.mem.in_file
        /\ M.out_file = s.mem.out_file
        /\ M.pipe_enable = b
    BY <1>1, <2>a, <2>b DEF Memories
  <2>3. t = [s EXCEPT !.mem = M]
    BY <1>1, <2>c DEF Rounds, Memories
  <2> HIDE DEF M
  <2>4. t \in Rounds /\ t.mode = "word" /\ t.mem = M
    BY <1>1, <1>2, <1>11, <2>2, <2>3 DEF Rounds
  <2> QED BY <1>11, <2>2, <2>4 DEF b, Taken
<1> QED BY <1>1, <1>3, <1>4, <1>5, <1>6, <1>7, <1>8, <1>9, <1>10, <1>11 DEF Modes

LEMMA RoundsAre ==
    ASSUME NEW line \in Seq(STRING), NEW mem
    PROVE  /\ RoundsOf(line, mem)[0] = [mem |-> NoCommand, mode |-> "word"]
           /\ \A k \in 0 .. Len(line) : RoundsOf(line, mem)[k] \in Rounds
           /\ \A k \in 1 .. Len(line) :
                 RoundsOf(line, mem)[k] = TakeWord(RoundsOf(line, mem)[k - 1], line[k])
<1> DEFINE n == Len(line)
           D == Rounds
           d == [mem |-> NoCommand, mode |-> "word"]
           h == [k \in 1 .. n |-> [s \in D |-> TakeWord(s, line[k])]]
           Eq(f) == f = [k \in 0 .. n |->
                            IF k = 0 THEN [mem |-> reset_shell(mem), mode |-> "word"]
                            ELSE TakeWord(f[k - 1], line[k])]
<1>1. n \in Nat /\ d \in D
  <2>1. NoCommand \in Memories
    BY NoProcessIs DEF ProcessType
  <2> QED BY <2>1 DEF Rounds, Modes
<1>2. ASSUME NEW k \in 1 .. n, NEW s \in D
      PROVE  TakeWord(s, line[k]) \in D
  <2>1. line[k] \in STRING
    OBVIOUS
  <2> QED BY <2>1, TakeWordIs DEF Taken
<1>3. d = [mem |-> reset_shell(mem), mode |-> "word"]
  BY DEF reset_shell
<1> HIDE DEF n, D, d
<1>4. h \in [1 .. n -> [D -> D]]
  BY <1>2
<1>5. CanIterate(n, D, d, h)
  BY <1>1, <1>4 DEF CanIterate
<1>6. PICK f : IsIteration(f, n, D, d, h)
  BY <1>5, Recursion
<1>7. f \in [0 .. n -> D] /\ f[0] = d /\ \A k \in 1 .. n : f[k] = h[k][f[k - 1]]
  BY <1>6 DEF IsIteration
<1>8. ASSUME NEW k \in 0 .. n
      PROVE  f[k] = IF k = 0 THEN d ELSE TakeWord(f[k - 1], line[k])
  <2>1. CASE k = 0
    BY <1>7, <2>1
  <2>2. CASE k # 0
    <3>1. k \in 1 .. n
      BY <1>1, <2>2
    <3>2. f[k - 1] \in D
      BY <1>1, <1>7, <3>1
    <3> QED BY <1>7, <2>2, <3>1, <3>2
  <2> QED BY <2>1, <2>2
<1> HIDE DEF h
<1>9. Eq(f)
  BY <1>3, <1>7, <1>8
<1> DEFINE G == RoundsOf(line, mem)
<1>10. Eq(G)
  BY <1>9 DEF RoundsOf, n
<1> HIDE DEF G
<1>11. G = [k \in 0 .. n |-> IF k = 0 THEN d ELSE TakeWord(G[k - 1], line[k])]
  BY <1>3, <1>10
<1>12. 0 \in 0 .. n /\ \A k \in 1 .. n : k \in 0 .. n /\ k # 0
  BY <1>1
<1>13. G[0] = d /\ \A k \in 1 .. n : G[k] = TakeWord(G[k - 1], line[k])
  BY <1>11, <1>12
<1> DEFINE S == {k \in 0 .. n : G[k] \in D}
<1>14. 0 \in S
  BY <1>1, <1>12, <1>13
<1>15. ASSUME NEW k \in 1 .. n, k - 1 \in S
       PROVE  k \in S
  BY <1>2, <1>12, <1>13, <1>15
<1> HIDE DEF S
<1>16. 0 .. n \subseteq S
  BY <1>1, <1>14, <1>15, BoundedInduction
<1> QED BY <1>13, <1>16 DEF G, S, n, D, d

(* A command has the words W of a line as its arguments, and the names at  *)
(* the last of I and the last of O as its files.                           *)
Described(m, line, W, I, O) ==
    /\ Len(m.args) = Cardinality(W)
    /\ \A j \in W : m.args[Cardinality({i \in W : i <= j})] = line[j]
    /\ m.pipe_enable = \E j \in W : line[j] = "|"
    /\ m.in_file = IF I = {} THEN NoFile ELSE line[Max(I)]
    /\ m.out_file = IF O = {} THEN NoFile ELSE line[Max(O)]

LEMMA WordIsAdded ==
    ASSUME NEW line, NEW k \in Nat \ {0}, NEW W \in SUBSET (1 .. k - 1), NEW I, NEW O,
           NEW m \in Memories, NEW m2, Described(m, line, W, I, O), line[k] \in STRING,
           m2.args = Append(m.args, line[k]),
           m2.pipe_enable = (m.pipe_enable \/ line[k] = "|"),
           m2.in_file = m.in_file, m2.out_file = m.out_file
    PROVE  Described(m2, line, W \cup {k}, I, O)
<1> DEFINE V == W \cup {k}
<1>1. m.args \in Seq(STRING)
  BY DEF Memories
<1>2. Len(m.args) = Cardinality(W) /\ \A j \in W : m.args[Cardinality({i \in W : i <= j})] = line[j]
  BY DEF Described
<1>3. IsFiniteSet(W)
  <2>1. IsFiniteSet(1 .. k - 1)
    BY FS_Interval
  <2> QED BY <2>1, FS_Subset
<1>4. k \notin W
  OBVIOUS
<1>5. Cardinality(V) = Cardinality(W) + 1
  BY <1>3, <1>4, FS_AddElement
<1>6. Len(m2.args) = Len(m.args) + 1 /\ m2.args[Len(m.args) + 1] = line[k]
  BY <1>1
<1>7. ASSUME NEW j \in V
      PROVE  m2.args[Cardinality({i \in V : i <= j})] = line[j]
  <2>1. CASE j = k
    <3>0. \A i \in V : i <= k
      OBVIOUS
    <3>1. {i \in V : i <= j} = V
      BY <2>1, <3>0, Zenon
    <3> QED BY <1>2, <1>5, <1>6, <2>1, <3>1
  <2>2. CASE j # k
    <3>1. j \in W
      BY <2>2
    <3>2. {i \in V : i <= j} = {i \in W : i <= j}
      BY <3>1
    <3>3. k - 1 \in Nat
      OBVIOUS
    <3>4. Cardinality({i \in W : i <= j}) \in 1 .. Cardinality(W)
      BY <3>1, <3>3, CountIs
    <3> DEFINE c == Cardinality({i \in W : i <= j})
    <3>5. m.args[c] = line[j] /\ c \in 1 .. Len(m.args)
      BY <1>2, <3>1, <3>4
    <3> HIDE DEF c
    <3>6. m2.args[c] = m.args[c]
      BY <1>1, <3>5
    <3> QED BY <3>2, <3>5, <3>6 DEF c
  <2> QED BY <2>1, <2>2
<1>8. m2.pipe_enable = \E j \in V : line[j] = "|"
  <2>1. m.pipe_enable = \E j \in W : line[j] = "|"
    BY DEF Described
  <2>2. (\E j \in V : line[j] = "|") <=> ((\E j \in W : line[j] = "|") \/ line[k] = "|")
    OBVIOUS
  <2>3. (\E j \in V : line[j] = "|") = ((\E j \in W : line[j] = "|") \/ line[k] = "|")
    BY <2>2, Zenon
  <2> HIDE DEF V
  <2> QED BY <2>1, <2>3, Zenon
<1>9. /\ m2.in_file = IF I = {} THEN NoFile ELSE line[Max(I)]
      /\ m2.out_file = IF O = {} THEN NoFile ELSE line[Max(O)]
  BY DEF Described
<1> HIDE DEF V
<1>10. Len(m2.args) = Cardinality(V)
  BY <1>2, <1>5, <1>6
<1>11. Described(m2, line, V, I, O)
  BY <1>7, <1>8, <1>9, <1>10, Zenon DEF Described
<1> QED BY <1>11 DEF V

LEMMA MaxIsAdded ==
    ASSUME NEW k \in Nat \ {0}, NEW I \in SUBSET (1 .. k - 1)
    PROVE  Max(I \cup {k}) = k /\ I \cup {k} # {}
<1> DEFINE J == I \cup {k}
<1>1. k \in J /\ \A y \in J : k >= y
  OBVIOUS
<1>2. \A x \in J : (\A y \in J : x >= y) => x = k
  OBVIOUS
<1> HIDE DEF J
<1>3. Max(J) = k
  BY <1>1, <1>2 DEF Max
<1> QED BY <1>3 DEF J

(* The words up to k that count as arguments, and those that name a file. *)
ArgumentsUpTo(line, k) == {j \in 1 .. k : j \notin Files(line) /\ line[j] \notin {"<", ">"}}
NamesUpTo(line, k, op) == {j \in 1 .. k : j \in Files(line) /\ line[j - 1] = op}

DescribedUpTo(m, line, k) ==
    Described(m, line, ArgumentsUpTo(line, k), NamesUpTo(line, k, "<"), NamesUpTo(line, k, ">"))

(* The loop is left at word j. *)
Stops(line, j) == j \notin Files(line) /\ line[j] \in {"&", "help"}

(* The state after k words, until the loop is left, and after that. *)
Runs(s, line, k) ==
    /\ \A j \in 1 .. k : ~Stops(line, j)
    /\ s.mem.ampersand = FALSE
    /\ DescribedUpTo(s.mem, line, k)
    /\ s.mode = "in" <=> k >= 1 /\ k \notin Files(line) /\ line[k] = "<"
    /\ s.mode = "out" <=> k >= 1 /\ k \notin Files(line) /\ line[k] = ">"

IsLeft(s, line, k) ==
    \E j \in 1 .. k : /\ Stops(line, j) /\ \A i \in 1 .. j - 1 : ~Stops(line, i)
                      /\ s.mem.ampersand = (line[j] = "&")
                      /\ DescribedUpTo(s.mem, line, j - 1)

IsRound(s, line, k) ==
    /\ s.mode \in {"word", "in", "out"} => Runs(s, line, k)
    /\ s.mode = "break" => IsLeft(s, line, k)

(* One more word: an argument, a name, or neither. *)
LEMMA UpToNext ==
    ASSUME NEW line \in Seq(STRING), NEW k \in 1 .. Len(line)
    PROVE  /\ ArgumentsUpTo(line, k) =
                 IF k \notin Files(line) /\ line[k] \notin {"<", ">"}
                 THEN ArgumentsUpTo(line, k - 1) \cup {k} ELSE ArgumentsUpTo(line, k - 1)
           /\ \A op : NamesUpTo(line, k, op) =
                         IF k \in Files(line) /\ line[k - 1] = op
                         THEN NamesUpTo(line, k - 1, op) \cup {k} ELSE NamesUpTo(line, k - 1, op)
           /\ ArgumentsUpTo(line, k - 1) \in SUBSET (1 .. k - 1)
           /\ \A op : NamesUpTo(line, k - 1, op) \in SUBSET (1 .. k - 1)
           /\ k \in Nat \ {0} /\ k - 1 \in Nat
<1>1. k \in Nat \ {0} /\ k - 1 \in Nat /\ 1 .. k = 1 .. k - 1 \cup {k} /\ k \notin 1 .. k - 1
  OBVIOUS
<1>2. ArgumentsUpTo(line, k) =
         IF k \notin Files(line) /\ line[k] \notin {"<", ">"}
         THEN ArgumentsUpTo(line, k - 1) \cup {k} ELSE ArgumentsUpTo(line, k - 1)
  BY <1>1 DEF ArgumentsUpTo
<1>3. ASSUME NEW op
      PROVE  NamesUpTo(line, k, op) =
                IF k \in Files(line) /\ line[k - 1] = op
                THEN NamesUpTo(line, k - 1, op) \cup {k} ELSE NamesUpTo(line, k - 1, op)
  BY <1>1 DEF NamesUpTo
<1>4. /\ ArgumentsUpTo(line, k - 1) \in SUBSET (1 .. k - 1)
      /\ \A op : NamesUpTo(line, k - 1, op) \in SUBSET (1 .. k - 1)
  BY DEF ArgumentsUpTo, NamesUpTo
<1> QED BY <1>1, <1>2, <1>3, <1>4

LEMMA RoundStep ==
    ASSUME NEW line \in Seq(STRING), NEW k \in 1 .. Len(line),
           NEW s \in Rounds, IsRound(s, line, k - 1), NEW t, t = TakeWord(s, line[k])
    PROVE  IsRound(t, line, k)
<1> DEFINE word == line[k]
           W == ArgumentsUpTo(line, k - 1)
           I == NamesUpTo(line, k - 1, "<")
           O == NamesUpTo(line, k - 1, ">")
<1>0. word \in STRING /\ k \in Nat \ {0} /\ k - 1 \in Nat
  BY UpToNext
<1>1. /\ W \in SUBSET (1 .. k - 1) /\ I \in SUBSET (1 .. k - 1) /\ O \in SUBSET (1 .. k - 1)
      /\ ArgumentsUpTo(line, k) = IF k \notin Files(line) /\ word \notin {"<", ">"}
                                  THEN W \cup {k} ELSE W
      /\ NamesUpTo(line, k, "<") = IF k \in Files(line) /\ line[k - 1] = "<"
                                   THEN I \cup {k} ELSE I
      /\ NamesUpTo(line, k, ">") = IF k \in Files(line) /\ line[k - 1] = ">"
                                   THEN O \cup {k} ELSE O
  BY UpToNext, Zenon
<1>2. k \in Files(line) <=> k >= 2 /\ line[k - 1] \in {"<", ">"} /\ k - 1 \notin Files(line)
  BY FilesAre DEF NamesFile
<1>3. s.mem \in Memories /\ s.mode \in Modes /\ s.mem.ampersand \in BOOLEAN
  BY DEF Rounds, Memories
<1>t. Taken(t, s, word)
  BY <1>0, TakeWordIs
<1>4. CASE s.mode = "exit"
  <2>1. t = s
    BY <1>t, <1>4 DEF Taken
  <2> QED BY <1>4, <2>1 DEF IsRound
<1>5. CASE s.mode = "break"
  <2>1. t = s
    BY <1>t, <1>5 DEF Taken
  <2>2. IsLeft(s, line, k - 1)
    BY <1>5 DEF IsRound
  <2>3. 1 .. k - 1 \subseteq 1 .. k
    BY <1>0
  <2>4. IsLeft(s, line, k)
    BY <2>2, <2>3, Zenon DEF IsLeft
  <2> QED BY <1>5, <2>1, <2>4 DEF IsRound
<1>6. CASE s.mode \in {"word", "in", "out"}
  <2>1. /\ \A j \in 1 .. k - 1 : ~Stops(line, j)
        /\ s.mem.ampersand = FALSE
        /\ Described(s.mem, line, W, I, O)
        /\ s.mode = "in" <=> k - 1 >= 1 /\ k - 1 \notin Files(line) /\ line[k - 1] = "<"
        /\ s.mode = "out" <=> k - 1 >= 1 /\ k - 1 \notin Files(line) /\ line[k - 1] = ">"
    BY <1>6 DEF IsRound, Runs, DescribedUpTo
  <2>2. \A j \in 1 .. k : j \in 1 .. k - 1 \/ j = k
    BY <1>0
  <2>3. (k - 1 >= 1) <=> (k >= 2)
    BY <1>0
  <2>4. k >= 1
    BY <1>0
  <2>5. /\ k \in Files(line) <=> s.mode \in {"in", "out"}
        /\ s.mode = "in" => line[k - 1] = "<"
        /\ s.mode = "out" => line[k - 1] = ">"
    BY <1>2, <2>1, <2>3
  <2> HIDE DEF W, I, O, word
  <2>6. CASE s.mode = "in"
    <3>1. /\ t.mode = "word" /\ t.mem.in_file = word /\ t.mem.out_file = s.mem.out_file
          /\ t.mem.args = s.mem.args /\ t.mem.ampersand = s.mem.ampersand
          /\ t.mem.pipe_enable = s.mem.pipe_enable
      BY <1>t, <2>6 DEF Taken
    <3>2. Max(I \cup {k}) = k /\ I \cup {k} # {}
      BY <1>0, <1>1, MaxIsAdded
    <3>3. Described(t.mem, line, W, I \cup {k}, O)
      <4>1. /\ Len(s.mem.args) = Cardinality(W)
            /\ \A j \in W : s.mem.args[Cardinality({i \in W : i <= j})] = line[j]
        BY <2>1 DEF Described
      <4>2. s.mem.pipe_enable = \E j \in W : line[j] = "|"
        BY <2>1 DEF Described
      <4>3. s.mem.out_file = IF O = {} THEN NoFile ELSE line[Max(O)]
        BY <2>1 DEF Described
      <4>4. t.mem.in_file = IF I \cup {k} = {} THEN NoFile ELSE line[Max(I \cup {k})]
        BY <3>1, <3>2 DEF word
      <4>5. t.mem.pipe_enable = \E j \in W : line[j] = "|"
        BY <3>1, <4>2, Zenon
      <4> QED BY <3>1, <4>1, <4>3, <4>4, <4>5, Zenon DEF Described
    <3>4. k \in Files(line) /\ line[k - 1] = "<"
      BY <2>5, <2>6
    <3>5. DescribedUpTo(t.mem, line, k)
      <4>1. /\ ArgumentsUpTo(line, k) = W /\ NamesUpTo(line, k, "<") = I \cup {k}
            /\ NamesUpTo(line, k, ">") = O
        BY <1>1, <3>4
      <4> QED BY <3>3, <4>1 DEF DescribedUpTo
    <3>6. \A j \in 1 .. k : ~Stops(line, j)
      BY <2>1, <2>2, <3>4 DEF Stops
    <3> QED BY <2>1, <3>1, <3>4, <3>5, <3>6 DEF IsRound, Runs
  <2>7. CASE s.mode = "out"
    <3>1. /\ t.mode = "word" /\ t.mem.out_file = word /\ t.mem.in_file = s.mem.in_file
          /\ t.mem.args = s.mem.args /\ t.mem.ampersand = s.mem.ampersand
          /\ t.mem.pipe_enable = s.mem.pipe_enable
      BY <1>t, <2>7 DEF Taken
    <3>2. Max(O \cup {k}) = k /\ O \cup {k} # {}
      BY <1>0, <1>1, MaxIsAdded
    <3>3. Described(t.mem, line, W, I, O \cup {k})
      <4>1. /\ Len(s.mem.args) = Cardinality(W)
            /\ \A j \in W : s.mem.args[Cardinality({i \in W : i <= j})] = line[j]
        BY <2>1 DEF Described
      <4>2. s.mem.pipe_enable = \E j \in W : line[j] = "|"
        BY <2>1 DEF Described
      <4>3. s.mem.in_file = IF I = {} THEN NoFile ELSE line[Max(I)]
        BY <2>1 DEF Described
      <4>4. t.mem.out_file = IF O \cup {k} = {} THEN NoFile ELSE line[Max(O \cup {k})]
        BY <3>1, <3>2 DEF word
      <4>5. t.mem.pipe_enable = \E j \in W : line[j] = "|"
        BY <3>1, <4>2, Zenon
      <4> QED BY <3>1, <4>1, <4>3, <4>4, <4>5, Zenon DEF Described
    <3>4. k \in Files(line) /\ line[k - 1] = ">"
      BY <2>5, <2>7
    <3>5. DescribedUpTo(t.mem, line, k)
      <4>1. /\ ArgumentsUpTo(line, k) = W /\ NamesUpTo(line, k, "<") = I
            /\ NamesUpTo(line, k, ">") = O \cup {k}
        BY <1>1, <3>4
      <4> QED BY <3>3, <4>1 DEF DescribedUpTo
    <3>6. \A j \in 1 .. k : ~Stops(line, j)
      BY <2>1, <2>2, <3>4 DEF Stops
    <3> QED BY <2>1, <3>1, <3>4, <3>5, <3>6 DEF IsRound, Runs
  <2>8. CASE s.mode = "word"
    <3>0. k \notin Files(line)
      BY <2>5, <2>8
    <3>1. NamesUpTo(line, k, "<") = I /\ NamesUpTo(line, k, ">") = O
      BY <1>1, <3>0
    <3>2. CASE word = "exit"
      <4>1. t.mode = "exit"
        BY <1>t, <2>8, <3>2 DEF Taken
      <4> QED BY <4>1 DEF IsRound
    <3>3. CASE word \in {"help", "&"}
      <4>1. /\ t.mode = "break"
            /\ t.mem.args = s.mem.args /\ t.mem.in_file = s.mem.in_file
            /\ t.mem.out_file = s.mem.out_file /\ t.mem.pipe_enable = s.mem.pipe_enable
        <5>1. CASE word = "help"
          BY <1>t, <2>8, <5>1 DEF Taken
        <5>2. CASE word = "&"
          BY <1>t, <2>8, <5>2 DEF Taken
        <5> QED BY <3>3, <5>1, <5>2
      <4>2. t.mem.ampersand = (word = "&")
        <5>1. CASE word = "help"
          <6>1. t.mem = s.mem
            BY <1>t, <2>8, <5>1 DEF Taken
          <6> QED BY <2>1, <5>1, <6>1
        <5>2. CASE word = "&"
          <6>1. t.mem.ampersand = TRUE
            BY <1>t, <2>8, <5>2 DEF Taken
          <6> QED BY <5>2, <6>1
        <5> QED BY <3>3, <5>1, <5>2
      <4>3. Described(t.mem, line, W, I, O)
        BY <2>1, <4>1, Zenon DEF Described
      <4>4. Stops(line, k)
        BY <3>0, <3>3 DEF Stops, word
      <4>5. k \in 1 .. k
        BY <1>0
      <4>6. DescribedUpTo(t.mem, line, k - 1)
        BY <4>3 DEF DescribedUpTo, W, I, O
      <4>7. IsLeft(t, line, k)
        BY <2>1, <4>2, <4>4, <4>5, <4>6, Zenon DEF IsLeft, word
      <4> QED BY <4>1, <4>7 DEF IsRound
    <3>4. ASSUME word \notin {"exit", "help", "&"}
          PROVE  \A j \in 1 .. k : ~Stops(line, j)
      BY <2>1, <2>2, <3>4 DEF Stops, word
    <3>5. CASE word \in {"<", ">"}
      <4>1. /\ t.mem = s.mem /\ t.mode \in {"in", "out"}
            /\ t.mode = "in" <=> word = "<"
            /\ t.mode = "out" <=> word = ">"
        <5>1. CASE word = "<"
          BY <1>t, <2>8, <5>1 DEF Taken
        <5>2. CASE word = ">"
          BY <1>t, <2>8, <5>2 DEF Taken
        <5> QED BY <3>5, <5>1, <5>2
      <4>2. ArgumentsUpTo(line, k) = W
        BY <1>1, <3>5
      <4>3. DescribedUpTo(t.mem, line, k)
        BY <2>1, <3>1, <4>1, <4>2 DEF DescribedUpTo
      <4>4. \A j \in 1 .. k : ~Stops(line, j)
        BY <3>4, <3>5
      <4>5. t.mem.ampersand = FALSE
        BY <2>1, <4>1
      <4> QED BY <2>4, <3>0, <4>1, <4>3, <4>4, <4>5 DEF IsRound, Runs, word
    <3>6. CASE word \notin {"exit", "help", "&", "<", ">"}
      <4>1. /\ t.mode = "word" /\ t.mem.args = Append(s.mem.args, word)
            /\ t.mem.pipe_enable = (s.mem.pipe_enable \/ word = "|")
            /\ t.mem.ampersand = s.mem.ampersand
            /\ t.mem.in_file = s.mem.in_file /\ t.mem.out_file = s.mem.out_file
        BY <1>t, <2>8, <3>6 DEF Taken
      <4>2. Described(t.mem, line, W \cup {k}, I, O)
        BY <1>0, <1>1, <1>3, <2>1, <4>1, WordIsAdded DEF word
      <4>3. ArgumentsUpTo(line, k) = W \cup {k}
        BY <1>1, <3>0, <3>6
      <4>4. DescribedUpTo(t.mem, line, k)
        BY <3>1, <4>2, <4>3 DEF DescribedUpTo
      <4>5. \A j \in 1 .. k : ~Stops(line, j)
        BY <3>4, <3>6
      <4>6. t.mem.ampersand = FALSE
        BY <2>1, <4>1
      <4>7. line[k] \notin {"<", ">"}
        BY <3>6 DEF word
      <4> QED BY <4>1, <4>4, <4>5, <4>6, <4>7 DEF IsRound, Runs
    <3> QED BY <3>2, <3>3, <3>5, <3>6
  <2> QED BY <1>6, <2>6, <2>7, <2>8
<1> QED BY <1>3, <1>4, <1>5, <1>6 DEF Modes

(* A command that the counted words of a line describe is what the line means. *)
LEMMA MeansIs ==
    ASSUME NEW line \in Seq(STRING), NEW m, NEW d \in 0 .. Len(line),
           Counted(line) = 1 .. d, DescribedUpTo(m, line, d),
           m.ampersand = \E k \in DOMAIN line \ Counted(line) :
                            line[k] = "&" /\ 1 .. k - 1 \subseteq Counted(line)
    PROVE  Means(line, m)
<1> DEFINE W == {k \in Counted(line) \ Files(line) : line[k] \notin {"<", ">"}}
           N(op) == {k \in Counted(line) \cap Files(line) : line[k - 1] = op}
<1>1. W = ArgumentsUpTo(line, d)
  BY DEF ArgumentsUpTo
<1>2. \A op : N(op) = NamesUpTo(line, d, op)
  BY DEF NamesUpTo
<1> HIDE DEF W, N
<1>3. Described(m, line, W, N("<"), N(">"))
  BY <1>1, <1>2 DEF DescribedUpTo
<1> QED BY <1>3, Zenon DEF Means, Described, W, N

LEMMA NothingIsDescribed == \A line : DescribedUpTo(NoCommand, line, 0)
<1> SUFFICES ASSUME NEW line PROVE DescribedUpTo(NoCommand, line, 0)
  OBVIOUS
<1>1. /\ ArgumentsUpTo(line, 0) = {} /\ NamesUpTo(line, 0, "<") = {}
      /\ NamesUpTo(line, 0, ">") = {}
  BY DEF ArgumentsUpTo, NamesUpTo
<1>2. /\ NoCommand.args = <<>> /\ NoCommand.in_file = NoFile /\ NoCommand.out_file = NoFile
      /\ NoCommand.pipe_enable = FALSE
  BY DEF NoCommand
<1>3. Len(NoCommand.args) = Cardinality({})
  BY <1>2, FS_EmptySet
<1>4. Described(NoCommand, line, {}, {}, {})
  BY <1>2, <1>3 DEF Described
<1> QED BY <1>1, <1>4 DEF DescribedUpTo

LEMMA NothingIsMeant == Means(<<>>, NoCommand)
<1>1. <<>> \in Seq(STRING) /\ DOMAIN <<>> = {} /\ Len(<<>>) = 0
  BY EmptySeq
<1>2. Counted(<<>>) = 1 .. 0
  BY DEF Counted
<1>3. NoCommand.ampersand = \E k \in DOMAIN <<>> \ Counted(<<>>) :
                               <<>>[k] = "&" /\ 1 .. k - 1 \subseteq Counted(<<>>)
  BY DEF NoCommand
<1>4. 0 \in 0 .. Len(<<>>)
  BY <1>1
<1>5. DescribedUpTo(NoCommand, <<>>, 0)
  BY NothingIsDescribed
<1> QED BY <1>1, <1>2, <1>3, <1>4, <1>5, MeansIs

(* The loop over the words leaves what the line, read as a whole, stands for. *)
LEMMA ParsedMeans ==
    ASSUME NEW line \in Seq(STRING), line # <<>>, NEW mem \in Memories,
           NEW s, s = Parsed(line, mem), s.mode \notin {"exit", "in", "out"}
    PROVE  /\ line[1] = "!!" => s.mem = mem
           /\ line[1] # "!!" => s.mem \in Memories /\ Means(line, s.mem)
<1> DEFINE n == Len(line)
           R == RoundsOf(line, mem)
<1>1. CASE line[1] = "!!"
  BY <1>1, ParsedIsLast
<1>2. CASE line[1] # "!!"
  <2>1. /\ R[0] = [mem |-> NoCommand, mode |-> "word"]
        /\ \A k \in 0 .. n : R[k] \in Rounds
        /\ \A k \in 1 .. n : R[k] = TakeWord(R[k - 1], line[k])
    BY RoundsAre
  <2>2. n \in Nat /\ s = R[n]
    BY <1>2, ParsedIsLast
  <2> HIDE DEF n, R
  <2> DEFINE S == {k \in 0 .. n : IsRound(R[k], line, k)}
  <2>3. 0 \in S
    <3>1. DescribedUpTo(NoCommand, line, 0) /\ NoCommand.ampersand = FALSE
      BY NothingIsDescribed DEF NoCommand
    <3>2. R[0].mem = NoCommand /\ R[0].mode = "word"
      BY <2>1
    <3> QED BY <2>2, <3>1, <3>2 DEF IsRound, Runs
  <2>4. ASSUME NEW k \in 1 .. n, k - 1 \in S
        PROVE  k \in S
    <3>1. k - 1 \in 0 .. n /\ k \in 0 .. n
      BY <2>2
    <3>2. IsRound(R[k], line, k)
      <4>1. R[k - 1] \in Rounds /\ IsRound(R[k - 1], line, k - 1)
        BY <2>1, <2>4, <3>1
      <4>2. R[k] = TakeWord(R[k - 1], line[k]) /\ k \in 1 .. Len(line)
        BY <2>1 DEF n
      <4> QED BY <4>1, <4>2, RoundStep
    <3> QED BY <3>1, <3>2
  <2> HIDE DEF S
  <2>5. 0 .. n \subseteq S
    BY <2>2, <2>3, <2>4, BoundedInduction
  <2>6. n \in 0 .. n
    BY <2>2
  <2>7. s \in Rounds /\ IsRound(s, line, n)
    BY <2>1, <2>2, <2>5, <2>6 DEF S
  <2>8. s.mem \in Memories /\ s.mode \in {"word", "break"}
    BY <2>7 DEF Rounds, Modes
  <2>9. Counted(line) = {k \in 1 .. n : ~\E j \in 1 .. k : Stops(line, j)}
    <3>1. DOMAIN line = 1 .. n
      BY DEF n
    <3> QED BY <3>1 DEF Counted, Stops
  <2>10. CASE s.mode = "word"
    <3>1. /\ \A j \in 1 .. n : ~Stops(line, j)
          /\ s.mem.ampersand = FALSE /\ DescribedUpTo(s.mem, line, n)
      BY <2>7, <2>10 DEF IsRound, Runs
    <3>2. Counted(line) = 1 .. n
      <4>1. \A k \in 1 .. n : \A j \in 1 .. k : j \in 1 .. n
        BY <2>2
      <4> QED BY <2>9, <3>1, <4>1
    <3>3. DOMAIN line \ Counted(line) = {}
      BY <3>2 DEF n
    <3>4. s.mem.ampersand = \E k \in DOMAIN line \ Counted(line) :
                               line[k] = "&" /\ 1 .. k - 1 \subseteq Counted(line)
      BY <3>1, <3>3
    <3>5. n \in 0 .. Len(line)
      BY <2>6 DEF n
    <3> QED BY <1>2, <2>8, <3>1, <3>2, <3>4, <3>5, MeansIs
  <2>11. CASE s.mode = "break"
    <3>1. IsLeft(s, line, n)
      BY <2>7, <2>11 DEF IsRound
    <3>2. PICK d \in 1 .. n :
             /\ Stops(line, d) /\ \A i \in 1 .. d - 1 : ~Stops(line, i)
             /\ s.mem.ampersand = (line[d] = "&")
             /\ DescribedUpTo(s.mem, line, d - 1)
      BY <3>1 DEF IsLeft
    <3>3. d \in Int /\ d - 1 \in 0 .. n
      BY <2>2
    <3>4. Counted(line) = 1 .. d - 1
      <4>1. \A k \in 1 .. n : k \in 1 .. d - 1 => ~\E j \in 1 .. k : Stops(line, j)
        <5>1. \A k \in 1 .. d - 1 : \A j \in 1 .. k : j \in 1 .. d - 1
          BY <3>3
        <5> QED BY <3>2, <5>1
      <4>2. \A k \in 1 .. n : k \notin 1 .. d - 1 => d \in 1 .. k
        BY <2>2, <3>3
      <4>3. 1 .. d - 1 \subseteq 1 .. n
        BY <2>2, <3>3
      <4> QED BY <2>9, <3>2, <4>1, <4>2, <4>3
    <3>5. DOMAIN line \ Counted(line) = d .. n
      <4>1. DOMAIN line = 1 .. n
        BY DEF n
      <4> QED BY <2>2, <3>3, <3>4, <4>1
    <3>6. \A k \in d .. n : 1 .. k - 1 \subseteq 1 .. d - 1 <=> k = d
      <4> SUFFICES ASSUME NEW k \in d .. n PROVE 1 .. k - 1 \subseteq 1 .. d - 1 <=> k = d
        OBVIOUS
      <4>1. CASE k = d
        BY <4>1
      <4>2. CASE k # d
        <5>1. d \in 1 .. k - 1 /\ d \notin 1 .. d - 1
          BY <3>3, <4>2
        <5> QED BY <4>2, <5>1
      <4> QED BY <4>1, <4>2
    <3>7. d \in d .. n
      BY <3>3
    <3>8. (line[d] = "&") <=> \E k \in DOMAIN line \ Counted(line) :
                                 line[k] = "&" /\ 1 .. k - 1 \subseteq Counted(line)
      BY <3>4, <3>5, <3>6, <3>7, Zenon
    <3>9. s.mem.ampersand = \E k \in DOMAIN line \ Counted(line) :
                               line[k] = "&" /\ 1 .. k - 1 \subseteq Counted(line)
      BY <3>2, <3>8, Zenon
    <3>10. d - 1 \in 0 .. Len(line)
      BY <3>3 DEF n
    <3> QED BY <1>2, <2>8, <3>2, <3>4, <3>9, <3>10, MeansIs
  <2> QED BY <2>8, <2>10, <2>11
<1> QED BY <1>1, <1>2

-----------------------------------------------------------------------------
(* The shell: its steps *)

ShellInv == ShellInvOf(table)

LEMMA ShellInitial == ShellInit => ShellInv
<1> SUFFICES ASSUME ShellInit PROVE ShellInv
  OBVIOUS
<1> DEFINE first == [NoProcess EXCEPT !.pc = "prompt"]
<1>1. /\ first \in ProcessType /\ first.pc = "prompt" /\ first.parent = Outside
      /\ first.child = Outside /\ first.pipe = Outside
      /\ first.typed = <<>> /\ first.mem = NoCommand
  <2>1. "prompt" \in PCs
    BY DEF PCs
  <2> QED BY <2>1, NoProcessIs DEF ProcessType
<1>2. table = [p \in Pids |-> IF p = Main THEN first ELSE NoProcess]
  BY DEF ShellInit
<1> HIDE DEF first
<1>3. table \in [Pids -> ProcessType]
  BY <1>1, <1>2, NoProcessIs
<1>4. \A p \in Pids : table[p] = first \/ table[p] = NoProcess
  BY <1>2
<1>5. \A p \in Pids : /\ table[p].parent = Outside /\ table[p].child = Outside
                      /\ table[p].pipe = Outside /\ table[p].pc \in {"prompt", "free"}
                      /\ table[p].pc = "free" => table[p] = NoProcess
  BY <1>1, <1>4, NoProcessIs
<1>6. Sound(table)
  BY <1>5 DEF Sound
<1>7. Children(table)
  BY <1>5, PidsAre DEF Children
<1>8. Typed(table)
  <2> SUFFICES ASSUME NEW p \in Pids PROVE Fits(table[p])
    BY DEF Typed
  <2>1. CASE table[p] = first
    BY <1>1, <2>1, NothingIsMeant DEF Fits, InPipe
  <2>2. CASE table[p] = NoProcess
    BY <2>2, NoProcessIs DEF Fits, InShell, InPipe
  <2> QED BY <1>4, <2>1, <2>2
<1> QED BY <1>3, <1>6, <1>7, <1>8 DEF ShellInv, ShellInvOf

LEMMA ReadKeeps ==
    ASSUME ShellInv, NEW p \in Pids, NEW line \in Lines, Read(p, line)
    PROVE  ShellInv'
<1>0. /\ ShellInvOf(table) /\ table \in [Pids -> ProcessType] /\ Sound(table) /\ Children(table)
      /\ Typed(table)
  BY DEF ShellInv, ShellInvOf
<1>1. /\ table[p] \in ProcessType /\ table[p].mem \in Memories
      /\ table[p].typed \in Lines \cup {<<>>} /\ table[p].pc = "prompt"
  BY <1>0, FieldsAre DEF Read
<1>2. ~Gone(table[p]) /\ table[p].child = Outside
  BY <1>0, <1>1 DEF Gone, Sound
<1>3. line \in Seq(STRING) /\ line # <<>>
  BY ShellAssumption
<1>4. PICK s : s = Parsed(line, table[p].mem)
  OBVIOUS
<1>5. table' = IF s.mode \in {"exit", "in", "out"} THEN Ended(p)
               ELSE [table EXCEPT ![p].mem = s.mem, ![p].pc = "run",
                                  ![p].typed = IF line[1] = "!!" THEN @ ELSE line]
  BY <1>4 DEF Read
<1>6. CASE s.mode \in {"exit", "in", "out"}
  <2>1. ShellInvOf(Ended(p))
    BY <1>0, <1>2, EndedKeeps
  <2> QED BY <1>5, <1>6, <2>1 DEF ShellInv
<1>7. CASE s.mode \notin {"exit", "in", "out"}
  <2> DEFINE typed == IF line[1] = "!!" THEN table[p].typed ELSE line
             q == [table[p] EXCEPT !.mem = s.mem, !.pc = "run", !.typed = typed]
  <2>1. /\ line[1] = "!!" => s.mem = table[p].mem
        /\ line[1] # "!!" => s.mem \in Memories /\ Means(line, s.mem)
    BY <1>1, <1>3, <1>4, <1>7, ParsedMeans
  <2>2. Means(table[p].typed, table[p].mem)
    BY <1>0, <1>1 DEF Typed, Fits, InShell
  <2>3. s.mem \in Memories /\ typed \in Lines \cup {<<>>} /\ Means(typed, s.mem)
    BY <1>1, <2>1, <2>2
  <2>4. table' = [table EXCEPT ![p] = q]
    BY <1>0, <1>1, <1>5, <1>7
  <2> HIDE DEF typed
  <2>5. "run" \in PCs
    BY DEF PCs
  <2>6. /\ q \in ProcessType /\ q.pc = "run" /\ q.mem = s.mem /\ q.typed = typed
        /\ q.parent = table[p].parent /\ q.child = table[p].child /\ q.pipe = table[p].pipe
        /\ q.background = table[p].background
    BY <1>1, <2>3, <2>5 DEF ProcessType
  <2> HIDE DEF q
  <2>7. \A c \in Pids : table[c].parent = p => MayLeave(q, p, c, table[c])
    BY <1>0, <1>1, <2>6 DEF Children, MayLeave
  <2>8. Fits(q)
    BY <2>3, <2>6 DEF Fits, InPipe
  <2>9. ShellInvOf(table')
    BY <1>0, <1>2, <2>4, <2>6, <2>7, <2>8, MoveKeeps
  <2> QED BY <2>9 DEF ShellInv
<1> QED BY <1>6, <1>7

LEMMA RunKeeps ==
    ASSUME ShellInv, NEW p \in Pids, Run(p)
    PROVE  ShellInv'
<1> DEFINE m == table[p].mem
<1>0. ShellInvOf(table) /\ table \in [Pids -> ProcessType] /\ Sound(table) /\ Typed(table)
  BY DEF ShellInv, ShellInvOf
<1>1. table[p].pc = "run" /\ ~Gone(table[p]) /\ table[p].child = Outside
  BY <1>0 DEF Run, Sound, Gone
<1>2. CASE FreePids = {}
  <2>1. "prompt" \in PCs
    BY DEF PCs
  <2>2. ShellInvOf(GoOn(table, p, "prompt"))
    BY <1>0, <1>1, <2>1, GoOnKeeps
  <2> QED BY <1>2, <2>2 DEF Run, ShellInv
<1>3. CASE FreePids # {}
  <2> DEFINE parentPc == IF m.ampersand THEN "prompt" ELSE "wait"
             childPc == IF m.in_file # NoFile \/ m.out_file # NoFile THEN "redirect"
                        ELSE IF m.pipe_enable THEN "outer" ELSE "normal"
  <2>1. table' = Forked(p, parentPc, childPc, table[p].pipe)
    BY <1>3 DEF Run
  <2>2. parentPc \in {"prompt", "wait", "waitleft"} /\ parentPc # "waitleft"
    OBVIOUS
  <2>3. /\ childPc \in {"redirect", "outer", "normal", "left"} /\ childPc # "left"
        /\ childPc = "outer" => m.pipe_enable
    OBVIOUS
  <2>4. parentPc = "prompt" => \E k \in DOMAIN table[p].typed : table[p].typed[k] = "&"
    <3>1. Means(table[p].typed, m)
      BY <1>0, <1>1 DEF Typed, Fits, InShell
    <3>2. m.ampersand = \E k \in DOMAIN table[p].typed \ Counted(table[p].typed) :
                           /\ table[p].typed[k] = "&"
                           /\ 1 .. k - 1 \subseteq Counted(table[p].typed)
      BY <3>1, Zenon DEF Means
    <3>3. parentPc = "prompt" => m.ampersand
      OBVIOUS
    <3> HIDE DEF m, parentPc
    <3> QED BY <3>2, <3>3, Zenon
  <2> HIDE DEF parentPc, childPc
  <2>5. ShellInvOf(Forked(p, parentPc, childPc, table[p].pipe))
    BY <1>0, <1>1, <1>3, <2>2, <2>3, <2>4, ForkedKeeps
  <2> QED BY <2>1, <2>5 DEF ShellInv
<1> QED BY <1>2, <1>3

LEMMA PipeKeeps ==
    ASSUME ShellInv, NEW p \in Pids, Pipe(p)
    PROVE  ShellInv'
<1>0. ShellInvOf(table) /\ table \in [Pids -> ProcessType] /\ Sound(table)
  BY DEF ShellInv, ShellInvOf
<1>1. table[p].pc = "outer" /\ ~Gone(table[p]) /\ table[p].child = Outside
  BY <1>0 DEF Pipe, Sound, Gone
<1>2. CASE FreePids = {}
  <2>1. "prompt" \in PCs
    BY DEF PCs
  <2>2. ShellInvOf(GoOn(table, p, "prompt"))
    BY <1>0, <1>1, <2>1, GoOnKeeps
  <2> QED BY <1>2, <2>2 DEF Pipe, ShellInv
<1>3. CASE FreePids # {}
  <2>1. ShellInvOf(Forked(p, "waitleft", "left", p))
    BY <1>0, <1>1, <1>3, ForkedKeeps
  <2> QED BY <1>3, <2>1 DEF Pipe, ShellInv
<1> QED BY <1>2, <1>3

LEMMA WaitKeeps ==
    ASSUME ShellInv, NEW p \in Pids, Wait(p) \/ WaitLeft(p)
    PROVE  ShellInv'
<1>0. ShellInvOf(table) /\ table \in [Pids -> ProcessType]
  BY DEF ShellInv, ShellInvOf
<1>1. PICK c : c = table[p].child
  OBVIOUS
<1>2. PICK d : d = IF table[c].pc = "zombie" THEN NoProcess ELSE table[c]
  OBVIOUS
<1>3. CASE Wait(p)
  <2>1. /\ table[p].pc = "wait" /\ table[c].pc = "zombie"
        /\ table' = [table EXCEPT ![p].pc = "prompt", ![p].child = Outside, ![c] = d]
    BY <1>1, <1>2, <1>3 DEF Wait
  <2>2. ShellInvOf(table')
    BY <1>0, <1>1, <1>2, <2>1, ReapedKeeps
  <2> QED BY <2>2 DEF ShellInv
<1>4. CASE WaitLeft(p)
  <2>1. table[p].pc = "waitleft"
    BY <1>4 DEF WaitLeft
  <2>2. table[p].child = c /\ c \in Pids /\ c # p
    <3>1. /\ table[p].child # Outside /\ table[table[p].child].parent = p
          /\ \A r \in Pids : table[r].parent # Outside => table[r].parent # r
      BY <1>0, <2>1 DEF ShellInvOf, Sound
    <3>2. c \in Pids
      BY <1>0, <1>1, <3>1, FieldsAre
    <3> QED BY <1>1, <3>1, <3>2, PidsAre
  <2>3. table' = [table EXCEPT ![p].pc = "right", ![p].child = Outside,
                               ![c] = IF @.pc = "zombie" THEN NoProcess ELSE @]
    BY <1>1, <1>4 DEF WaitLeft
  <2>4. table' = [table EXCEPT ![p].pc = "right", ![p].child = Outside, ![c] = d]
    BY <1>0, <1>2, <2>2, <2>3
  <2>5. ShellInvOf(table')
    BY <1>0, <1>1, <1>2, <2>1, <2>4, ReapedKeeps
  <2> QED BY <2>5 DEF ShellInv
<1> QED BY <1>3, <1>4

LEMMA ExecKeeps ==
    ASSUME ShellInv, NEW p \in Pids,
           ExecNormal(p) \/ ExecRedirect(p) \/ ExecLeft(p) \/ ExecRight(p)
    PROVE  ShellInv'
<1>0. /\ ShellInvOf(table) /\ table \in [Pids -> ProcessType] /\ Sound(table)
  BY DEF ShellInv, ShellInvOf
<1>1. table[p].pc \in {"normal", "redirect", "left", "right"}
  BY DEF ExecNormal, ExecRedirect, ExecLeft, ExecRight
<1>2. ~Gone(table[p]) /\ table[p].child = Outside
  BY <1>0, <1>1 DEF Sound, Gone
<1>3. table[p].mem.args \in Seq(STRING)
  <2>1. table[p].mem \in Memories
    BY <1>0, FieldsAre
  <2> QED BY <2>1 DEF Memories
<1>4. "prompt" \in PCs
  BY DEF PCs
<1>5. CASE ExecNormal(p)
  <2>1. ShellInvOf(Ended(p))
    BY <1>0, <1>2, EndedKeeps
  <2>2. Execvp(p, table[p].mem.args, Ended(p))
    BY <1>5 DEF ExecNormal
  <2>3. ShellInvOf(table')
    BY <1>0, <1>1, <1>3, <2>1, <2>2, ExecvpKeeps
  <2> QED BY <2>3 DEF ShellInv
<1>6. CASE ExecRedirect(p)
  <2>1. table[p].pc = "redirect" /\ Execvp(p, table[p].mem.args, GoOn(table, p, "prompt"))
    BY <1>6 DEF ExecRedirect
  <2>2. ShellInvOf(GoOn(table, p, "prompt"))
    BY <1>0, <1>2, <1>4, <2>1, GoOnKeeps
  <2>3. ShellInvOf(table')
    BY <1>0, <1>1, <1>3, <2>1, <2>2, ExecvpKeeps
  <2> QED BY <2>3 DEF ShellInv
<1>7. CASE ExecLeft(p)
  <2>1. table[p].pc = "left" /\ Execvp(p, left(p), GoOn(table, p, "prompt"))
    BY <1>7 DEF ExecLeft
  <2>2. ShellInvOf(GoOn(table, p, "prompt"))
    BY <1>0, <1>2, <1>4, <2>1, GoOnKeeps
  <2>3. left(p) \in Seq(STRING)
    BY <1>0, <2>1, CommandsAre DEF InPipe
  <2>4. ShellInvOf(table')
    BY <1>0, <1>1, <2>1, <2>2, <2>3, ExecvpKeeps
  <2> QED BY <2>4 DEF ShellInv
<1>8. CASE ExecRight(p)
  <2>1. table[p].pc = "right" /\ Execvp(p, right(p), GoOn(table, p, "prompt"))
    BY <1>8 DEF ExecRight
  <2>2. ShellInvOf(GoOn(table, p, "prompt"))
    BY <1>0, <1>2, <1>4, <2>1, GoOnKeeps
  <2>3. right(p) \in Seq(STRING)
    BY <1>0, <2>1, CommandsAre DEF InPipe
  <2>4. ShellInvOf(table')
    BY <1>0, <1>1, <2>1, <2>2, <2>3, ExecvpKeeps
  <2> QED BY <2>4 DEF ShellInv
<1> QED BY <1>5, <1>6, <1>7, <1>8

LEMMA ProgramKeeps ==
    ASSUME ShellInv, NEW p \in Pids, End(p) \/ Stop(p) \/ Continue(p) \/ Kill(p)
    PROVE  ShellInv'
<1>0. ShellInvOf(table) /\ Sound(table)
  BY DEF ShellInv, ShellInvOf
<1>1. table[p].pc \in {"program", "stopped"}
  BY DEF End, Stop, Continue, Kill
<1>2. ~Gone(table[p]) /\ table[p].child = Outside
  BY <1>0, <1>1 DEF Sound, Gone
<1>3. {"program", "stopped"} \subseteq PCs
  BY DEF PCs
<1>4. CASE End(p) \/ Kill(p)
  <2>1. ShellInvOf(Ended(p))
    BY <1>0, <1>2, EndedKeeps
  <2> QED BY <1>4, <2>1 DEF End, Kill, ShellInv
<1>5. CASE Stop(p)
  <2>1. ShellInvOf(GoOn(table, p, "stopped"))
    BY <1>0, <1>1, <1>2, <1>3, GoOnKeeps
  <2> QED BY <1>5, <2>1 DEF Stop, ShellInv
<1>6. CASE Continue(p)
  <2>1. ShellInvOf(GoOn(table, p, "program"))
    BY <1>0, <1>1, <1>2, <1>3, GoOnKeeps
  <2> QED BY <1>6, <2>1 DEF Continue, ShellInv
<1> QED BY <1>4, <1>5, <1>6

LEMMA ShellStep == ShellInv /\ [ShellNext]_table => ShellInv'
<1> SUFFICES ASSUME ShellInv, [ShellNext]_table PROVE ShellInv'
  OBVIOUS
<1>1. CASE UNCHANGED table
  BY <1>1 DEF ShellInv
<1>2. CASE ShellNext
  <2>1. PICK p \in Pids : \/ Step(p) \/ Stop(p) \/ Continue(p) \/ Kill(p)
                          \/ \E line \in Lines : Read(p, line)
    BY <1>2 DEF ShellNext
  <2>2. CASE \E line \in Lines : Read(p, line)
    BY <2>2, ReadKeeps
  <2>3. CASE Run(p)
    BY <2>3, RunKeeps
  <2>4. CASE Pipe(p)
    BY <2>4, PipeKeeps
  <2>5. CASE Wait(p) \/ WaitLeft(p)
    BY <2>5, WaitKeeps
  <2>6. CASE ExecNormal(p) \/ ExecRedirect(p) \/ ExecLeft(p) \/ ExecRight(p)
    BY <2>6, ExecKeeps
  <2>7. CASE End(p) \/ Stop(p) \/ Continue(p) \/ Kill(p)
    BY <2>7, ProgramKeeps
  <2> QED BY <2>1, <2>2, <2>3, <2>4, <2>5, <2>6, <2>7 DEF Step
<1> QED BY <1>1, <1>2

(* The process table of the shell is sound at all times: nobody's parent,  *)
(* child or reader is gone, the children of each process are the ones that *)
(* its place in the code allows, and each process that still runs the      *)
(* shell's code has the variables its last line stands for                 *)
(* (simple-shell.c:68-274).                                                *)
THEOREM ShellInvariant == ShellSpec => []ShellInv
<1>1. ShellSpec => ShellInit /\ [][ShellNext]_table
  BY PTL DEF ShellSpec
<1> QED BY <1>1, ShellInitial, ShellStep, PTL

LEMMA AwaitedFollows == ShellInv => ForegroundIsAwaited
<1> SUFFICES ASSUME ShellInv PROVE ForegroundIsAwaited
  OBVIOUS
<1>0. table \in [Pids -> ProcessType] /\ Sound(table) /\ Children(table)
  BY DEF ShellInv, ShellInvOf
<1>1. ShellTypeOK
  <2> SUFFICES ASSUME NEW p \in Pids
               PROVE  /\ table[p].pc \in PCs
                      /\ {table[p].parent, table[p].child, table[p].pipe}
                            \subseteq {Outside} \cup {r \in Pids : table[r].pc # "free"}
                      /\ table[p].pc \in {"wait", "waitleft"} <=> table[p].child # Outside
                      /\ table[p].typed \in Lines \cup {<<>>}
    BY DEF ShellTypeOK, PCs
  <2>1. /\ table[p].pc \in PCs /\ table[p].typed \in Lines \cup {<<>>}
        /\ table[p].parent # Outside => table[p].parent \in Pids
        /\ table[p].child # Outside => table[p].child \in Pids
        /\ table[p].pipe # Outside => table[p].pipe \in Pids
    BY <1>0, FieldsAre
  <2>2. /\ table[p].parent # Outside => ~Gone(table[table[p].parent])
        /\ table[p].pipe # Outside => ~Gone(table[table[p].pipe])
        /\ table[p].child # Outside <=> table[p].pc \in {"wait", "waitleft"}
        /\ table[p].child # Outside => table[table[p].child].parent = p
    BY <1>0 DEF Sound
  <2>3. table[p].child # Outside => table[table[p].child].pc # "free"
    BY <1>0, <2>1, <2>2, NoProcessIs, PidsAre DEF Sound
  <2> QED BY <2>1, <2>2, <2>3 DEF Gone
<1>2. \A p, c \in Pids :
         table[p].pc = "prompt" /\ table[c].parent = p /\ table[c].pipe # p =>
             table[c].background
  BY <1>0 DEF Children, MayLeave
<1>3. \A p \in Pids : table[p].child # Outside => table[table[p].child].parent = p
  BY <1>0 DEF Sound
<1> QED BY <1>1, <1>2, <1>3 DEF ForegroundIsAwaited

(* A prompt is seen again only when the command before it has finished,    *)
(* unless its line ended in &: the loops around waitpid                    *)
(* (simple-shell.c:84-89, 135-139, 194-198).                               *)
THEOREM ForegroundWaited == ShellSpec => []ForegroundIsAwaited
BY ShellInvariant, AwaitedFollows, PTL

LEMMA TypedFollows == ShellInv => RunsWhatWasTyped
BY DEF ShellInv, ShellInvOf, Typed, Fits, InShell, RunsWhatWasTyped

(* Each command run is what the line typed last stands for, read as a      *)
(* whole: reset_shell forgets the one before, and `!!' keeps all of it     *)
(* (simple-shell.c:61-68, 213-274).                                        *)
THEOREM TypedIsRun == ShellSpec => []RunsWhatWasTyped
BY ShellInvariant, TypedFollows, PTL
==============================================================================
