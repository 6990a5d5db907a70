------------------------------ MODULE Scheduling ------------------------------
(***************************************************************************)
(* Project 4/scheduling: the driver, the task list of list.c and the five  *)
(* schedulers, one of which is linked with them.                           *)
(*                                                                         *)
(* driver.c adds the tasks of the file, which are numbered as they come,   *)
(* and calls schedule; nothing arrives after that.  The list holds         *)
(* pointers to tasks, that is numbers, with the head first; delete looks   *)
(* for a task by its name, so that two tasks of one name can be confused   *)
(* and a task that has been freed can stay in the list.                    *)
(***************************************************************************)
EXTENDS Integers, Sequences, SequencesExt

CONSTANTS MaxTasks,        \* bound: lines of the file
          Names, Priorities, Bursts,
          QUANTUM,
          DistinctNames    \* whether the file gives each task a name of its own

ASSUME ConstantsAssumption ==
    /\ MaxTasks \in Nat
    /\ Priorities \subseteq Int
    /\ Bursts \subseteq Nat
    /\ QUANTUM \in Nat \ {0}
    /\ DistinctNames \in BOOLEAN

Policies   == {"fcfs", "sjf", "priority", "rr", "priority_rr"}
RoundRobin == {"rr", "priority_rr"}
Tasks      == 1 .. MaxTasks

VARIABLES
    policy,      \* the scheduler the program is linked with
    file,        \* the lines read: name, priority and burst of each task
    tasks,       \* the list
    burst,       \* burst[t]: the field of task t, what is left of it
    freed,       \* the tasks passed to free
    main,
    slices,      \* slices[t]: how many times t has been passed to run
    ran,         \* ran[t]: for how many units in all
    finished     \* the tasks in the order their last run ended

vars == <<policy, file, tasks, burst, freed, main, slices, ran, finished>>

(* Whether the policy takes t before u whatever their order in the list. *)
better(t, u) == CASE policy = "sjf" -> burst[t] < burst[u]
                  [] policy \in {"priority", "priority_rr"} -> file[t].priority > file[u].priority
                  [] OTHER -> FALSE

(* Mutant: among equals the task added last is taken. *)
NewestFirst ==
    tasks[CHOOSE i \in DOMAIN tasks :
             \A j \in DOMAIN tasks \ {i} :
                 \/ better(tasks[i], tasks[j])
                 \/ ~better(tasks[j], tasks[i]) /\ i < j]

(* Mutant: the comparison of two tasks is the wrong way round. *)
WorstFirst ==
    tasks[CHOOSE i \in DOMAIN tasks :
             \A j \in DOMAIN tasks \ {i} :
                 \/ better(tasks[j], tasks[i])
                 \/ ~better(tasks[i], tasks[j]) /\ i > j]

(* The best task by the policy; the one deepest in the list among equals. *)
get_next ==
    tasks[CHOOSE i \in DOMAIN tasks :
             \A j \in DOMAIN tasks \ {i} :
                 \/ better(tasks[i], tasks[j])
                 \/ ~better(tasks[j], tasks[i]) /\ i > j]

(* The list without the first task that has the name of t. *)
delete(t) ==
    LET i == CHOOSE i \in DOMAIN tasks :
                /\ file[tasks[i]].name = file[t].name
                /\ \A j \in 1 .. i - 1 : file[tasks[j]].name # file[t].name
    IN  RemoveAt(tasks, i)

(* Mutant: an unfinished task goes back to where it was taken from. *)
InsertLast(list, t) == Append(list, t)

insert(list, t) == <<t>> \o list

(* Mutant: a burst of a whole quantum is cut off too. *)
AtLeastQuantum(t) == policy \in RoundRobin /\ burst[t] >= QUANTUM

(* Whether t gets a quantum and goes back to the list, or runs to its end. *)
preempted(t) == policy \in RoundRobin /\ burst[t] > QUANTUM

slice(t) == IF preempted(t) THEN QUANTUM ELSE burst[t]

-----------------------------------------------------------------------------
(* The driver *)

(* A line of the file: add. *)
Add(name, priority, length) ==
    LET t == Len(file) + 1
    IN  /\ main = "add" /\ t \in Tasks
        /\ DistinctNames => \A i \in DOMAIN file : file[i].name # name
        /\ file' = Append(file, [name |-> name, priority |-> priority, burst |-> length])
        /\ burst' = [burst EXCEPT ![t] = length]
        /\ tasks' = insert(tasks, t)
        /\ UNCHANGED <<policy, freed, main, slices, ran, finished>>

EndOfFile ==
    /\ main = "add"
    /\ main' = "schedule"
    /\ UNCHANGED <<policy, file, tasks, burst, freed, slices, ran, finished>>

(* An access through a pointer to a task that has been freed is undefined; *)
(* the model ends there.                                                   *)
Dangling == \E i \in DOMAIN tasks : tasks[i] \in freed

Run(t) == /\ slices' = [slices EXCEPT ![t] = @ + 1]
          /\ ran' = [ran EXCEPT ![t] = @ + slice(t)]

(* consume, when the burst is longer than a quantum. *)
Preempt(t) ==
    /\ Run(t)
    /\ tasks' = insert(delete(t), t)
    /\ burst' = [burst EXCEPT ![t] = @ - QUANTUM]
    /\ UNCHANGED <<freed, finished>>

(* The body of schedule otherwise: the task runs to its end. *)
Complete(t) ==
    /\ Run(t)
    /\ tasks' = delete(t)
    /\ freed' = freed \cup {t}
    /\ finished' = Append(finished, t)
    /\ UNCHANGED burst

Schedule ==
    /\ main = "schedule" /\ tasks # <<>> /\ ~Dangling
    /\ LET t == get_next
       IN  IF preempted(t) THEN Preempt(t) ELSE Complete(t)
    /\ UNCHANGED <<policy, file, main>>

Return ==
    /\ main = "schedule" /\ tasks = <<>>
    /\ main' = "return"
    /\ UNCHANGED <<policy, file, tasks, burst, freed, slices, ran, finished>>

Terminated == main = "return" /\ UNCHANGED vars

Init ==
    /\ policy \in Policies
    /\ file = <<>> /\ tasks = <<>> /\ finished = <<>>
    /\ burst = [t \in Tasks |-> 0]
    /\ freed = {}
    /\ main = "add"
    /\ slices = [t \in Tasks |-> 0]
    /\ ran = [t \in Tasks |-> 0]

Next == \/ \E name \in Names, priority \in Priorities, length \in Bursts :
               Add(name, priority, length)
        \/ EndOfFile
        \/ Schedule
        \/ Return
        \/ Terminated

Spec == Init /\ [][Next]_vars

-----------------------------------------------------------------------------
(* Properties *)

TypeOK ==
    /\ policy \in Policies
    /\ file \in Seq([name : Names, priority : Priorities, burst : Bursts]) /\ Len(file) <= MaxTasks
    /\ tasks \in Seq(1 .. Len(file))
    /\ burst \in [Tasks -> Nat]
    /\ freed \subseteq Tasks
    /\ main \in {"add", "schedule", "return"}
    /\ slices \in [Tasks -> Nat] /\ ran \in [Tasks -> Nat]
    /\ finished \in Seq(Tasks)

(* The slices of an unfinished task were whole quanta, and have left it    *)
(* something to run for.                                                   *)
WholeSlices(t) ==
    /\ ran[t] = slices[t] * QUANTUM
    /\ slices[t] > 0 => policy \in RoundRobin /\ burst[t] > 0

(* And a finished task had no more slices than its burst takes: none was   *)
(* empty unless it was the only one.                                       *)
FewestSlices(t) ==
    IF policy \in RoundRobin
    THEN /\ slices[t] > 0 /\ ran[t] <= slices[t] * QUANTUM
         /\ slices[t] > 1 => ran[t] > (slices[t] - 1) * QUANTUM
    ELSE slices[t] = 1

(* Each task gets exactly the units it asked for, in as few slices as the  *)
(* quantum allows: a task is in the list once, or has finished once and    *)
(* for its whole burst, and a burst that is a multiple of the quantum ends *)
(* with a full slice and not with an empty one more (schedule_rr.c:34-46,  *)
(* list.c:24-44).                                                          *)
WorkIsAccountedFor ==
    /\ TypeOK
    /\ IsInjective(tasks) /\ IsInjective(finished)
    /\ \A t \in 1 .. Len(file) :
          IF Contains(tasks, t)
          THEN ran[t] + burst[t] = file[t].burst /\ WholeSlices(t) /\ ~Contains(finished, t)
          ELSE ran[t] = file[t].burst /\ FewestSlices(t) /\ Contains(finished, t)

(* The order in which a scheduler that does not preempt finishes the       *)
(* tasks: as they came, the shorter first, or the higher priority first,   *)
(* and as they came among equals (schedule_fcfs.c:22, schedule_sjf.c:29,   *)
(* schedule_priority.c:29).                                                *)
FinishedInOrder ==
    \A i, j \in DOMAIN finished : i < j =>
        LET t == finished[i]
            u == finished[j]
        IN  CASE policy = "fcfs"     -> t < u
              [] policy = "sjf"      -> \/ file[t].burst < file[u].burst
                                        \/ file[t].burst = file[u].burst /\ t < u
              [] policy = "priority" -> \/ file[t].priority > file[u].priority
                                        \/ file[t].priority = file[u].priority /\ t < u
              [] OTHER -> TRUE

(* Tasks that take turns. *)
Rivals(t, u) == \/ policy = "rr"
                \/ policy = "priority_rr" /\ file[t].priority = file[u].priority

(* The turns are even: of two unfinished tasks of one class the one that   *)
(* came first is never behind, and never more than a turn ahead            *)
(* (schedule_rr.c:25-46, schedule_priority_rr.c:24-52).                    *)
TurnsAreEven ==
    \A t, u \in ToSet(tasks) :
        t < u /\ Rivals(t, u) => slices[t] - slices[u] \in {0, 1}

(* While a task of a higher priority is unfinished, none of a lower one    *)
(* has run (schedule_priority_rr.c:24-38).                                 *)
PriorityIsStrict ==
    policy \in {"priority", "priority_rr"} =>
        \A t \in ToSet(tasks), u \in 1 .. Len(file) :
            file[t].priority > file[u].priority => slices[u] = 0

(* "delete the selected task from the list" (list.c:23): the task that has *)
(* run to its end, and been freed, is not in the list any more.            *)
NoDanglingTask == ~Dangling
=============================================================================
