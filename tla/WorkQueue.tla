------------------------------- MODULE WorkQueue -------------------------------
(***************************************************************************)
(* What threadpool.h promises its client: the work submitted by the k-th   *)
(* call is accepted while fewer than Capacity items are pending and        *)
(* refused otherwise; accepted items are started in the order of the       *)
(* calls, each by one worker and at most once.  Every operation is atomic. *)
(***************************************************************************)
EXTENDS Naturals, Sequences

CONSTANTS Capacity,    \* accepted items that can be pending at a time
          Workers,     \* the threads of the pool
          Calls,       \* how many times the client calls pool_submit
          NoTask       \* the worker is idle

VARIABLES submitted,   \* calls that have been decided
          pending,     \* accepted and not started, oldest first
          running,     \* running[w]: what worker w executes, or NoTask
          done         \* executed to the end

vars == <<submitted, pending, running, done>>

Init == /\ submitted = 0
        /\ pending = <<>>
        /\ running = [w \in Workers |-> NoTask]
        /\ done = {}

Accept == /\ submitted < Calls /\ Len(pending) < Capacity
          /\ submitted' = submitted + 1
          /\ pending' = Append(pending, submitted + 1)
          /\ UNCHANGED <<running, done>>

Refuse == /\ submitted < Calls /\ Len(pending) = Capacity
          /\ submitted' = submitted + 1
          /\ UNCHANGED <<pending, running, done>>

Start(w) == /\ running[w] = NoTask /\ pending # <<>>
            /\ running' = [running EXCEPT ![w] = Head(pending)]
            /\ pending' = Tail(pending)
            /\ UNCHANGED <<submitted, done>>

Finish(w) == /\ running[w] # NoTask
             /\ done' = done \cup {running[w]}
             /\ running' = [running EXCEPT ![w] = NoTask]
             /\ UNCHANGED <<submitted, pending>>

(* The worker is cancelled in the middle of its task. *)
Interrupt(w) == /\ running[w] # NoTask
                /\ running' = [running EXCEPT ![w] = NoTask]
                /\ UNCHANGED <<submitted, pending, done>>

Next == \/ Accept \/ Refuse
        \/ \E w \in Workers : Start(w) \/ Finish(w) \/ Interrupt(w)

Spec == Init /\ [][Next]_vars
=============================================================================
