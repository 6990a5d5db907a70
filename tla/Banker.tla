-------------------------------- MODULE Banker --------------------------------
(***************************************************************************)
(* Project 6/banker: the banker's algorithm (banker.c) behind the command  *)
(* loop of main.c.                                                         *)
(*                                                                         *)
(* Vectors of resources are functions on Resources.  The resources named   *)
(* by a command are natural numbers and its customer is one of the bank's; *)
(* "*" prints and changes nothing.                                         *)
(***************************************************************************)
EXTENDS Integers, Sequences, SequencesExt, FiniteSetsExt

CONSTANTS NUMBER_OF_CUSTOMERS,
          NUMBER_OF_RESOURCES,
          Supplies,            \* the vectors argv may give
          Demands              \* the vectors a line of max.txt may give

Customers == 0 .. NUMBER_OF_CUSTOMERS - 1
Resources == 0 .. NUMBER_OF_RESOURCES - 1
Vectors   == [Resources -> Nat]

ASSUME ConstantsAssumption ==
    /\ NUMBER_OF_CUSTOMERS \in Nat \ {0}
    /\ NUMBER_OF_RESOURCES \in Nat \ {0}
    /\ Supplies \subseteq Vectors
    /\ Demands \subseteq Vectors

VARIABLES available, maximum, allocation, need,
          total,      \* argv: what available was at the start
          running     \* "exit" has not been entered

vars == <<available, maximum, allocation, need, total, running>>

plus(a, b)  == [j \in Resources |-> a[j] + b[j]]
minus(a, b) == [j \in Resources |-> a[j] - b[j]]

no_greater_than(a, b) == \A j \in Resources : a[j] <= b[j]

(* The three tables that a command works on, as they are within a step. *)
bank == [available |-> available, allocation |-> allocation, need |-> need]

BankBecomes(b) == /\ available' = b.available
                  /\ allocation' = b.allocation
                  /\ need' = b.need

allocate_resources(b, c, request) ==
    [available  |-> minus(b.available, request),
     allocation |-> [b.allocation EXCEPT ![c] = plus(@, request)],
     need       |-> [b.need EXCEPT ![c] = minus(@, request)]]

(* Mutant: the need of the customer is not restored. *)
NeedForgotten(b, c, release) ==
    [available  |-> plus(b.available, release),
     allocation |-> [b.allocation EXCEPT ![c] = minus(@, release)],
     need       |-> b.need]

deallocate_resources(b, c, release) ==
    [available  |-> plus(b.available, release),
     allocation |-> [b.allocation EXCEPT ![c] = minus(@, release)],
     need       |-> [b.need EXCEPT ![c] = plus(@, release)]]

(* One round of the loop over the customers: each whose need can be met    *)
(* from work finishes and gives back what it holds.                        *)
Round(state, need_, allocation_) ==
    LET Try(s, i) == IF i \notin s.finish /\ no_greater_than(need_[i], s.work)
                     THEN [work |-> plus(s.work, allocation_[i]), finish |-> s.finish \cup {i}]
                     ELSE s
    IN  FoldLeft(Try, state, [k \in 1 .. NUMBER_OF_CUSTOMERS |-> k - 1])

(* Mutant: the loop stops after its first round. *)
OneRound(b) == Round([work |-> b.available, finish |-> {}], b.need, b.allocation).finish = Customers

(* The loop ends after the first round that finishes nobody; as each round *)
(* before it finishes somebody, further rounds would change nothing.       *)
AllFinish(b) ==
    LET rounds[n \in 0 .. NUMBER_OF_CUSTOMERS] ==
            IF n = 0 THEN [work |-> b.available, finish |-> {}]
            ELSE Round(rounds[n - 1], b.need, b.allocation)
    IN  rounds[NUMBER_OF_CUSTOMERS].finish = Customers

(* Mutant: the request is tested against the tables before it. *)
NotAllocated(b, c, request) == [safe |-> AllFinish(b), bank |-> b]

(* Mutant: what was allocated for the test is taken back from available *)
(* and allocation only.                                                 *)
UndoForgetsNeed(b, c, request) ==
    LET granted == allocate_resources(b, c, request)
    IN  [safe |-> AllFinish(granted), bank |-> NeedForgotten(granted, c, request)]

(* The request is granted in the tables of the bank, these are tested, and *)
(* it is taken back: the value returned, and what the tables are then.     *)
is_safe(b, c, request) ==
    LET granted == allocate_resources(b, c, request)
    IN  [safe |-> AllFinish(granted), bank |-> deallocate_resources(granted, c, request)]

-----------------------------------------------------------------------------
(* The commands *)

(* "RQ".  A request above the need of its customer is refused before the   *)
(* test, another one after it; what is granted is allocated a second time. *)
request_resources(c, request) ==
    /\ running
    /\ no_greater_than(request, need[c])
    /\ LET test == is_safe(bank, c, request)
       IN  BankBecomes(IF test.safe THEN allocate_resources(test.bank, c, request) ELSE test.bank)
    /\ UNCHANGED <<maximum, total, running>>

(* "RL".  More than the customer holds is refused. *)
release_resources(c, release) ==
    /\ running
    /\ no_greater_than(release, allocation[c])
    /\ BankBecomes(deallocate_resources(bank, c, release))
    /\ UNCHANGED <<maximum, total, running>>

(* "exit" *)
Exit == /\ running
        /\ running' = FALSE
        /\ UNCHANGED <<available, maximum, allocation, need, total>>

Terminated == ~running /\ UNCHANGED vars

(* What may be asked for or given back: parts of some demand. *)
Parts == UNION {{r \in [Resources -> UNION {0 .. d[j] : j \in Resources}] :
                    no_greater_than(r, d)} : d \in Demands}

Init ==
    /\ total \in Supplies
    /\ available = total
    /\ maximum \in [Customers -> Demands]
    /\ allocation = [c \in Customers |-> [j \in Resources |-> 0]]
    /\ need = maximum
    /\ running = TRUE

Next == \/ \E c \in Customers, r \in Parts : request_resources(c, r) \/ release_resources(c, r)
        \/ Exit
        \/ Terminated

Spec == Init /\ [][Next]_vars

-----------------------------------------------------------------------------
(* Properties *)

TypeOK ==
    /\ available \in Vectors /\ total \in Vectors
    /\ maximum \in [Customers -> Vectors]
    /\ allocation \in [Customers -> Vectors]
    /\ need \in [Customers -> Vectors]
    /\ running \in BOOLEAN

(* What these customers hold of resource j. *)
Held(allocation_, S, j) == SumFunctionOnSet([c \in Customers |-> allocation_[c][j]], S)

(* Resources are neither made nor lost, and no customer ever holds more    *)
(* than its maximum.  A request that fails its test has been allocated by  *)
(* then, and available can be below zero: all three tables have to be as   *)
(* they were when it is refused (banker.c:69-83, 92-120, 124-133).         *)
ResourcesConserved ==
    /\ TypeOK
    /\ \A j \in Resources :
          available[j] + Held(allocation, Customers, j) = total[j]
    /\ \A c \in Customers : plus(need[c], allocation[c]) = maximum[c]

(* The customers can finish one after the other in some order, each from   *)
(* what is available and what those before it have given back.             *)
SafeState(available_, need_, allocation_) ==
    \E order \in [1 .. NUMBER_OF_CUSTOMERS -> Customers] :
        /\ \A k, l \in 1 .. NUMBER_OF_CUSTOMERS : order[k] = order[l] => k = l
        /\ \A k \in 1 .. NUMBER_OF_CUSTOMERS : \A j \in Resources :
              need_[order[k]][j] <=
                available_[j] + Held(allocation_, {order[l] : l \in 1 .. k - 1}, j)

(* The bank never leaves the safe states: not by a grant, and not by a     *)
(* release either, although deallocate_resources lets the customer ask for *)
(* the resources again.  A bank that starts unsafe, with a demand larger   *)
(* than its supply, grants nothing at all (banker.c:124-144).              *)
AlwaysSafe ==
    \/ SafeState(available, need, allocation)
    \/ \A c \in Customers, j \in Resources : allocation[c][j] = 0

(* The test of is_safe, which goes through the customers in their order    *)
(* and never takes a choice back, accepts exactly the requests that leave  *)
(* a safe state (banker.c:92-120).                                         *)
TestIsExact ==
    \A c \in Customers, r \in Parts :
        no_greater_than(r, need[c]) =>
            (is_safe(bank, c, r).safe
                <=> SafeState(minus(available, r), [need EXCEPT ![c] = minus(@, r)],
                              [allocation EXCEPT ![c] = plus(@, r)]))
=============================================================================
