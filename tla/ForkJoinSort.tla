----------------------------- MODULE ForkJoinSort -----------------------------
(***************************************************************************)
(* Project 3: the three parallel sorts, mergesort.c with a thread for each *)
(* half, Mergesort.java and Quicksort.java with a ForkJoinPool.            *)
(*                                                                         *)
(* A task sorts left .. right of the shared list.  It is named by its      *)
(* place in the tree of tasks: <<>> is the root, which main starts and     *)
(* joins, and t \o <<1>> and t \o <<2>> are the two tasks t starts.        *)
(*                                                                         *)
(* What a task does to the list between two forks or joins is one step;    *)
(* RangesAreExclusive is what makes this right.                            *)
(***************************************************************************)
EXTENDS Integers, Sequences, SequencesExt, FiniteSetsExt

CONSTANTS MaxSize,     \* MAX_NUM of mergesort.c, SIZE of the Java programs
          Values,      \* the numbers in the list
          THRESHOLD    \* of the Java programs

ASSUME ConstantsAssumption ==
    /\ MaxSize \in Nat \ {0}
    /\ Values \subseteq Int
    /\ THRESHOLD \in Nat \ {0}

Programs == {"mergesort", "Mergesort", "Quicksort"}

VARIABLES
    program,   \* which of the three runs
    input,     \* the list as it was read or drawn
    list,
    tasks      \* task -> its range, where it splits it, and its position

vars == <<program, input, list, tasks>>

-----------------------------------------------------------------------------
(* What a task does to the list *)

(* The two nested loops over a short range: loop[k] is the list after k    *)
(* pairs of i and j.                                                       *)
Exchanged(left, right) ==
    LET width == right - left + 1
        loop[k \in 0 .. width * width] ==
            IF k = 0 THEN list
            ELSE LET array == loop[k - 1]
                     i == left + ((k - 1) \div width)
                     j == left + ((k - 1) % width)
                 IN  IF i < j /\ array[i] > array[j]
                     THEN [array EXCEPT ![i] = array[j], ![j] = array[i]]
                     ELSE array
    IN  loop[width * width]

(* The two halves merged; merge[k] is where the loops are with k numbers   *)
(* in tmp.  Of two equal numbers the right one comes first.                *)
Merged(left, mid, right) ==
    LET merge[k \in 0 .. right - left + 1] ==
            IF k = 0 THEN [p_left |-> left, p_right |-> mid + 1, tmp |-> list]
            ELSE LET m == merge[k - 1]
                 IN  IF m.p_left <= mid /\ (m.p_right > right \/ list[m.p_left] < list[m.p_right])
                     THEN [m EXCEPT !.p_left = @ + 1, !.tmp[left + k - 1] = list[m.p_left]]
                     ELSE [m EXCEPT !.p_right = @ + 1, !.tmp[left + k - 1] = list[m.p_right]]
    IN  merge[right - left + 1].tmp

(* The hole at p_low is filled from the top, then that at p_high from the  *)
(* bottom; turn[k] is the state after k iterations.                        *)
Partitioned(left, right) ==
    LET pivot == list[left]
        FromTop(s) ==
            LET h == Max({s.p_low} \cup {i \in s.p_low .. s.p_high : s.array[i] < pivot})
            IN  IF h = s.p_low THEN [s EXCEPT !.p_high = h]
                ELSE [array |-> [s.array EXCEPT ![s.p_low] = s.array[h]],
                      p_low |-> s.p_low + 1, p_high |-> h]
        FromBottom(s) ==
            LET l == Min({s.p_high} \cup {i \in s.p_low .. s.p_high : s.array[i] > pivot})
            IN  IF l = s.p_high THEN [s EXCEPT !.p_low = l]
                ELSE [array |-> [s.array EXCEPT ![s.p_high] = s.array[l]],
                      p_low |-> l, p_high |-> s.p_high - 1]
        turn[k \in 0 .. right - left] ==
            IF k = 0 THEN [array |-> list, p_low |-> left, p_high |-> right]
            ELSE LET s == turn[k - 1]
                 IN  IF s.p_low = s.p_high THEN s ELSE FromBottom(FromTop(s))
        end == turn[right - left]
    IN  [array |-> [end.array EXCEPT ![end.p_low] = pivot], mid |-> end.p_low]

-----------------------------------------------------------------------------
(* Tasks *)

NewTask(left, right) == [left |-> left, right |-> right, mid |-> left, pc |-> "start"]

Goto(t, from, to) == /\ tasks[t].pc = from
                     /\ tasks' = [tasks EXCEPT ![t].pc = to]

IsShort(t) == IF program = "mergesort" THEN tasks[t].left >= tasks[t].right
              ELSE tasks[t].right - tasks[t].left < THRESHOLD

(* A range that is sorted without help. *)
SortShort(t) ==
    /\ IsShort(t)
    /\ Goto(t, "start", "done")
    /\ list' = IF program = "mergesort" THEN list ELSE Exchanged(tasks[t].left, tasks[t].right)
    /\ UNCHANGED <<program, input>>

(* The middle of a mergesort, or the place of the pivot of a quicksort. *)
Split(t) ==
    LET left  == tasks[t].left
        right == tasks[t].right
        split == IF program = "Quicksort" THEN Partitioned(left, right)
                 ELSE [array |-> list, mid |-> (left + right) \div 2]
    IN  /\ tasks[t].pc = "start" /\ ~IsShort(t)
        /\ list' = split.array
        /\ tasks' = [tasks EXCEPT ![t].mid = split.mid, ![t].pc = "fork"]
        /\ UNCHANGED <<program, input>>

(* The task with pc changed to `to' and a new one beside it. *)
Fork(t, from, to, child, left, right) ==
    /\ tasks[t].pc = from
    /\ tasks' = [u \in DOMAIN tasks \cup {child} |->
                    IF u = child THEN NewTask(left, right)
                    ELSE IF u = t THEN [tasks[t] EXCEPT !.pc = to] ELSE tasks[u]]
    /\ UNCHANGED <<program, input, list>>

ForkLeft(t) ==
    Fork(t, "fork", "forked", Append(t, 1), tasks[t].left,
         IF program = "Quicksort" THEN tasks[t].mid - 1 ELSE tasks[t].mid)

ForkRight(t) == Fork(t, "forked", "join", Append(t, 2), tasks[t].mid + 1, tasks[t].right)

Finished(t) == t \in DOMAIN tasks /\ tasks[t].pc = "done"

(* Mutant: the left task is waited for twice. *)
JoinLeftOnly(t) ==
    /\ Finished(Append(t, 1))
    /\ Goto(t, "join", IF program = "Quicksort" THEN "done" ELSE "merge")
    /\ UNCHANGED <<program, input, list>>

(* The joins of both tasks, in either order; a quicksort is done then. *)
Join(t) ==
    /\ Finished(Append(t, 1)) /\ Finished(Append(t, 2))
    /\ Goto(t, "join", IF program = "Quicksort" THEN "done" ELSE "merge")
    /\ UNCHANGED <<program, input, list>>

(* Mutant: the merged numbers are not copied back. *)
NotCopiedBack(t) ==
    /\ Goto(t, "merge", "done")
    /\ UNCHANGED <<program, input, list>>

Merge(t) ==
    /\ Goto(t, "merge", "done")
    /\ list' = Merged(tasks[t].left, tasks[t].mid, tasks[t].right)
    /\ UNCHANGED <<program, input>>

Step(t) == SortShort(t) \/ Split(t) \/ ForkLeft(t) \/ ForkRight(t) \/ Join(t) \/ Merge(t)

(* main has joined the root and printed the list; that every run gets     *)
(* here is checked as the absence of deadlock, since no task runs for ever. *)
Terminated == Finished(<<>>) /\ UNCHANGED vars

Init == /\ program \in Programs
        /\ \E n \in 1 .. MaxSize : input \in [0 .. n - 1 -> Values]
        /\ list = input
        /\ tasks = [t \in {<<>>} |-> NewTask(0, Cardinality(DOMAIN input) - 1)]

Next == Terminated \/ \E t \in DOMAIN tasks : Step(t)

Spec == Init /\ [][Next]_vars

-----------------------------------------------------------------------------
(* Properties *)

TypeOK ==
    /\ program \in Programs
    /\ DOMAIN list = DOMAIN input
    /\ \A i \in DOMAIN list : input[i] \in Values /\ list[i] \in Values
    /\ \A t \in DOMAIN tasks :
          /\ t = <<>> \/ Front(t) \in DOMAIN tasks
          /\ tasks[t].left .. tasks[t].right \subseteq DOMAIN list
          /\ tasks[t].pc \in {"start", "fork", "forked", "join", "merge", "done"}

(* A task that reads or writes its range, or is about to. *)
Working(t) == tasks[t].pc \in {"start", "merge"}

(* No two tasks ever work on one number: the ranges of the tasks that run  *)
(* are disjoint, and a task merges only when all that were started below   *)
(* it have finished (mergesort.c:52-66, Mergesort.java:35-41,              *)
(* Quicksort.java:50-55).  The list needs no lock.                         *)
RangesAreExclusive ==
    /\ TypeOK
    /\ \A t, u \in DOMAIN tasks :
          t # u /\ Working(t) /\ Working(u) =>
              tasks[t].right < tasks[u].left \/ tasks[u].right < tasks[t].left
    /\ \A t \in DOMAIN tasks :
          tasks[t].pc \in {"merge", "done"} =>
              \A u \in DOMAIN tasks : IsStrictPrefix(t, u) => Finished(u)

HowMany(a, v) == Cardinality({i \in DOMAIN a : a[i] = v})

(* At every moment each finished task has left its range sorted, whatever  *)
(* the tasks beside and above it do, and no number is lost or made up; in  *)
(* particular main prints the input in order (mergesort.c:66-92,           *)
(* Mergesort.java:21-63, Quicksort.java:21-49).                            *)
FinishedRangesAreSorted ==
    /\ \A t \in DOMAIN tasks : Finished(t) =>
          \A i, j \in tasks[t].left .. tasks[t].right : i < j => list[i] <= list[j]
    /\ \A v \in Values : HowMany(list, v) = HowMany(input, v)
=============================================================================
