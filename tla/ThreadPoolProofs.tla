---------------------------- MODULE ThreadPoolProofs ----------------------------
(***************************************************************************)
(* The safety properties of ThreadPool, and that it implements WorkQueue,  *)
(* for every size of the queue, every number of workers and of calls, and  *)
(* whether or not a task can be cancelled while it prints.                 *)
(***************************************************************************)
EXTENDS ThreadPool, Arithmetic, FiniteSetTheorems, SequenceTheorems, TLAPS

(* The workers are threads, the client is another one, and no thread is    *)
(* the owner of a free mutex (threadpool.c:101-119).                       *)
LEMMA ThreadSets ==
    /\ Workers \subseteq Threads /\ Client \in Threads /\ Client \notin Workers
    /\ Unlocked \notin Threads /\ NUMBER_OF_THREADS \in Workers /\ 1 \in Workers
BY ConstantsAssumption DEF Workers, Threads, Client, Unlocked

(* The next slot of a slot is a slot (threadpool.c:51, 62). *)
LEMMA NextSlotType == \A s \in Slots : NextSlot(s) \in Slots
BY ConstantsAssumption DEF Slots, NextSlot

(* Workers on their way to the queue can be counted (threadpool.c:72-73). *)
LEMMA WorkersAreFinite ==
    /\ IsFiniteSet(Arriving) /\ Cardinality(Arriving) \in Nat
    /\ \A w \in Arriving : Cardinality(Arriving) > 0
<1>1. IsFiniteSet(Workers)
  BY FS_Interval, ConstantsAssumption DEF Workers
<1>2. Arriving \in SUBSET Workers
  BY DEF Arriving
<1>3. IsFiniteSet(Arriving) /\ Cardinality(Arriving) \in Nat
  BY <1>1, <1>2, FS_Subset, FS_CardinalityType
<1> QED BY <1>3, FS_EmptySet

-----------------------------------------------------------------------------
(* The invariant of the threads *)

(* The loop variable of the client is in the range of its loop             *)
(* (threadpool.c:105-107, 114-119; client.c).                              *)
NextInRange ==
    /\ main \in {"init", "cancel", "join"} => next \in Workers
    /\ main = "submit" => next \in 1 .. Calls + 1
    /\ main \in {"enqueue", "count", "post"} => next \in Tasks

(* The mutex is owned by whoever is between the lock and the unlock        *)
(* (threadpool.c:44-53, 60-64).                                            *)
Exclusion ==
    /\ \A w \in Workers : pc[w] \in {"dequeue", "uncount"} => mutex = w
    /\ main \in {"enqueue", "count"} => mutex = Client

(* Workers that pool_init has not created yet have not started             *)
(* (threadpool.c:105-107).                                                 *)
NotCreatedYet == main = "init" => \A w \in Workers : w >= next => pc[w] = "new"

(* The copy of count that is about to be stored again is still up to date, *)
(* and enqueue counts only what fits (threadpool.c:45-52, 63).             *)
CopiesAreFresh ==
    /\ \A w \in Workers : pc[w] = "uncount" => reg[w] = count
    /\ main = "count" => reg[Client] = count /\ count < QUEUE_SIZE

ThreadInvariant ==
    /\ TypeOK /\ NextInRange /\ Exclusion /\ NotCreatedYet /\ CopiesAreFresh
    /\ PermitsMatchTasks

(* What a step of worker w leaves alone: the other workers and the client  *)
(* (threadpool.c:58-85).                                                   *)
LEMMA OthersStay ==
    ASSUME TypeOK, NEW w \in Workers, Step(w)
    PROVE  /\ \A v \in Workers \ {w} : pc'[v] = pc[v]
           /\ pc[w] # "new" /\ pc'[w] # "new"
           /\ main' = main /\ next' = next
BY DEF TypeOK, Step, WaitAvailable, Lock, Dequeue, Uncount, Execute, Cancelled, CancelledInTask,
       Goto

(* A worker that dequeues finds a task counted, since its own permit is    *)
(* one of those the invariant counts (threadpool.c:60-63, 72).             *)
LEMMA ArrivingIsCounted ==
    ASSUME ThreadInvariant, NEW w \in Workers, pc[w] \in {"lock", "dequeue", "uncount"}
    PROVE  count > 0
<1>1. w \in Arriving
  BY DEF Arriving
<1> QED BY <1>1, WorkersAreFinite DEF ThreadInvariant, TypeOK, PermitsMatchTasks

(* Every step keeps the types: count stays between 0 and QUEUE_SIZE        *)
(* although it is stored from a copy, and dequeue does not test it         *)
(* (threadpool.c:43-66).                                                   *)
LEMMA TypeStep == ThreadInvariant /\ [Next]_vars => TypeOK' /\ NextInRange'
<1> SUFFICES ASSUME ThreadInvariant, [Next]_vars PROVE TypeOK' /\ NextInRange'
  OBVIOUS
<1> USE ConstantsAssumption, ThreadSets
<1>t. TypeOK /\ NextInRange /\ CopiesAreFresh
  BY DEF ThreadInvariant
<1>1. CASE Create
  BY <1>1, <1>t DEF Create, TypeOK, NextInRange, ring, Workers, Tasks
<1>2. CASE SubmitLock \/ EnqueueFull \/ Post \/ Sleep \/ Cancel
  <2>1. CASE SubmitLock
    BY <2>1, <1>t DEF SubmitLock, TypeOK, NextInRange, ring
  <2>2. CASE EnqueueFull
    BY <2>2, <1>t DEF EnqueueFull, TypeOK, NextInRange, ring, Tasks
  <2>3. CASE Post
    BY <2>3, <1>t DEF Post, TypeOK, NextInRange, ring, Tasks
  <2>4. CASE Sleep
    BY <2>4, <1>t DEF Sleep, TypeOK, NextInRange, ring
  <2>5. CASE Cancel
    BY <2>5, <1>t DEF Cancel, TypeOK, NextInRange, ring
  <2> QED BY <1>2, <2>1, <2>2, <2>3, <2>4, <2>5
<1>3. CASE Enqueue
  BY <1>3, <1>t, NextSlotType DEF Enqueue, TypeOK, NextInRange
<1>4. CASE Count
  BY <1>4, <1>t DEF Count, TypeOK, NextInRange, CopiesAreFresh, ring
<1>5. CASE Join
  BY <1>5, <1>t DEF Join, TypeOK, NextInRange, ring, Workers
<1>6. CASE UNCHANGED vars
  BY <1>6, <1>t DEF vars, ring, TypeOK, NextInRange
<1>7. ASSUME NEW w \in Workers, Step(w) PROVE TypeOK' /\ NextInRange'
  <2>1. NextInRange'
    BY <1>7, <1>t, OthersStay DEF NextInRange
  <2>2. CASE WaitAvailable(w) \/ Lock(w) \/ Execute(w) \/ Cancelled(w) \/ CancelledInTask(w)
    <3>1. CASE WaitAvailable(w)
      BY <2>1, <3>1, <1>t DEF WaitAvailable, Goto, TypeOK, ring
    <3>2. CASE Lock(w)
      BY <2>1, <3>2, <1>t DEF Lock, Goto, TypeOK, ring
    <3>3. CASE Execute(w)
      BY <2>1, <3>3, <1>t DEF Execute, Goto, TypeOK, ring
    <3>4. CASE Cancelled(w) \/ CancelledInTask(w)
      BY <2>1, <3>4, <1>t DEF Cancelled, CancelledInTask, Goto, TypeOK, ring
    <3> QED BY <2>2, <3>1, <3>2, <3>3, <3>4
  <2>3. CASE Dequeue(w)
    BY <2>1, <2>3, <1>t, NextSlotType DEF Dequeue, Goto, TypeOK
  <2>4. CASE Uncount(w)
    <3>1. pc[w] = "uncount" /\ reg[w] = count /\ count > 0
      BY <2>4, <1>t, ArrivingIsCounted DEF Uncount, Goto, CopiesAreFresh
    <3> QED BY <2>1, <2>4, <3>1, <1>t DEF Uncount, Goto, TypeOK, ring
  <2> QED BY <1>7, <2>2, <2>3, <2>4 DEF Step
<1> QED BY <1>1, <1>2, <1>3, <1>4, <1>5, <1>6, <1>7 DEF Next, ClientStep, Terminated

(* Every step keeps the mutex with at most one thread inside, and what it  *)
(* has loaded up to date (threadpool.c:44-53, 60-64).                      *)
LEMMA ExclusionStep ==
    ThreadInvariant /\ [Next]_vars => Exclusion' /\ NotCreatedYet' /\ CopiesAreFresh'
<1> SUFFICES ASSUME ThreadInvariant, [Next]_vars
             PROVE  Exclusion' /\ NotCreatedYet' /\ CopiesAreFresh'
  OBVIOUS
<1> USE ConstantsAssumption, ThreadSets
<1>t. TypeOK /\ NextInRange /\ Exclusion /\ NotCreatedYet /\ CopiesAreFresh
  BY DEF ThreadInvariant
<1>1. CASE Create
  <2>1. /\ main = "init" /\ next \in Workers /\ pc[next] = "new"
        /\ pc' = [pc EXCEPT ![next] = "wait"] /\ UNCHANGED <<mutex, reg, count>>
        /\ main' \in {"init", "submit"} /\ (main' = "init" => next' = next + 1)
    BY <1>1, <1>t DEF Create, NextInRange, NotCreatedYet, Workers
  <2> QED BY <2>1, <1>t DEF TypeOK, Exclusion, NotCreatedYet, CopiesAreFresh, Workers
<1>2. CASE SubmitLock \/ EnqueueFull \/ Enqueue \/ Count
  BY <1>2, <1>t
     DEF SubmitLock, EnqueueFull, Enqueue, Count, full, TypeOK, Exclusion, NotCreatedYet,
         CopiesAreFresh
<1>3. CASE Post \/ Sleep \/ Cancel \/ Join \/ UNCHANGED vars
  BY <1>3, <1>t
     DEF Post, Sleep, Cancel, Join, vars, TypeOK, Exclusion, NotCreatedYet, CopiesAreFresh
<1>4. ASSUME NEW w \in Workers, Step(w) PROVE Exclusion' /\ NotCreatedYet' /\ CopiesAreFresh'
  <2>1. NotCreatedYet'
    BY <1>4, <1>t, OthersStay DEF NotCreatedYet
  <2>2. CASE WaitAvailable(w) \/ Execute(w) \/ Cancelled(w) \/ CancelledInTask(w)
    BY <2>1, <2>2, <1>t
       DEF WaitAvailable, Execute, Cancelled, CancelledInTask, Goto, TypeOK, Exclusion,
           CopiesAreFresh
  <2>3. CASE Lock(w) \/ Dequeue(w)
    BY <2>1, <2>3, <1>t DEF Lock, Dequeue, Goto, TypeOK, Exclusion, CopiesAreFresh
  <2>4. CASE Uncount(w)
    BY <2>1, <2>4, <1>t DEF Uncount, Goto, TypeOK, Exclusion, CopiesAreFresh
  <2> QED BY <1>4, <2>2, <2>3, <2>4 DEF Step
<1> QED BY <1>1, <1>2, <1>3, <1>4 DEF Next, ClientStep, Terminated

-----------------------------------------------------------------------------
(* The permits *)

(* Every step keeps the permits in agreement with the tasks: sem_wait      *)
(* takes the permit to the queue, the store of count gives it up with the  *)
(* task, and the client posts one for each task it has counted             *)
(* (threadpool.c:52, 63, 72, 98).                                          *)
LEMMA PermitStep == ThreadInvariant /\ [Next]_vars => PermitsMatchTasks'
<1> SUFFICES ASSUME ThreadInvariant, [Next]_vars PROVE PermitsMatchTasks'
  OBVIOUS
<1> USE ThreadSets
<1>t. /\ PermitsMatchTasks /\ CopiesAreFresh
      /\ pc \in [Workers -> {"new", "wait", "lock", "dequeue", "uncount", "execute", "exited"}]
      /\ count \in Nat /\ available \in Nat
      /\ IsFiniteSet(Arriving) /\ Cardinality(Arriving) \in Nat
  BY WorkersAreFinite DEF ThreadInvariant, TypeOK
<1>1. CASE Create
  <2>1. next \in Workers /\ pc[next] = "new" /\ pc' = [pc EXCEPT ![next] = "wait"]
    BY <1>1 DEF Create, ThreadInvariant, NextInRange, NotCreatedYet, Workers
  <2>2. Arriving' = Arriving
    BY <2>1, <1>t DEF Arriving
  <2> QED BY <1>1, <2>2, <1>t DEF Create, PermitsMatchTasks
<1>2. CASE (ClientStep /\ ~Create) \/ Sleep \/ UNCHANGED vars
  <2>1. Arriving' = Arriving
    BY <1>2 DEF ClientStep, SubmitLock, EnqueueFull, Enqueue, Count, Post, Cancel, Join, Sleep,
                vars, Arriving
  <2>2. CASE Count
    BY <2>1, <2>2, <1>t DEF Count, CopiesAreFresh, PermitsMatchTasks
  <2>3. CASE Post
    BY <2>1, <2>3, <1>t DEF Post, PermitsMatchTasks
  <2>4. CASE SubmitLock \/ EnqueueFull \/ Enqueue \/ Cancel \/ Join \/ Sleep \/ UNCHANGED vars
    BY <2>1, <2>4, <1>t
       DEF SubmitLock, EnqueueFull, Enqueue, Cancel, Join, Sleep, vars, PermitsMatchTasks
  <2> QED BY <1>2, <2>2, <2>3, <2>4 DEF ClientStep
<1>3. ASSUME NEW w \in Workers, Step(w) PROVE PermitsMatchTasks'
  <2>1. CASE WaitAvailable(w)
    <3>1. Arriving' = Arriving \cup {w} /\ w \notin Arriving
      BY <2>1, <1>t DEF WaitAvailable, Goto, Arriving
    <3>2. Cardinality(Arriving') = Cardinality(Arriving) + 1
      BY <3>1, <1>t, FS_AddElement
    <3> QED BY <2>1, <3>2, <1>t DEF WaitAvailable, PermitsMatchTasks
  <2>2. CASE Uncount(w)
    <3>1. Arriving' = Arriving \ {w} /\ w \in Arriving
      BY <2>2, <1>t DEF Uncount, Goto, Arriving
    <3>2. Cardinality(Arriving') = Cardinality(Arriving) - 1
      BY <3>1, <1>t, FS_RemoveElement
    <3>3. count' = count - 1
      BY <2>2, <1>t DEF Uncount, Goto, CopiesAreFresh
    <3> QED BY <2>2, <3>2, <3>3, <1>t DEF Uncount, PermitsMatchTasks
  <2>3. CASE Lock(w) \/ Dequeue(w) \/ Execute(w) \/ Cancelled(w) \/ CancelledInTask(w)
    <3>1. Arriving' = Arriving
      BY <2>3, <1>t DEF Lock, Dequeue, Execute, Cancelled, CancelledInTask, Goto, Arriving
    <3> QED BY <2>3, <3>1, <1>t
            DEF Lock, Dequeue, Execute, Cancelled, CancelledInTask, PermitsMatchTasks
  <2> QED BY <1>3, <2>1, <2>2, <2>3 DEF Step
<1> QED BY <1>1, <1>2, <1>3 DEF Next, ClientStep, Terminated

(* The pool starts with an empty queue and no permits (threadpool.c:27-31, *)
(* 101-107).                                                               *)
LEMMA ThreadInit == Init => ThreadInvariant
<1> SUFFICES ASSUME Init PROVE ThreadInvariant
  OBVIOUS
<1> USE ConstantsAssumption, ThreadSets
<1>1. Arriving = {}
  BY DEF Init, Arriving
<1>2. PermitsMatchTasks
  BY <1>1, FS_EmptySet DEF Init, PermitsMatchTasks
<1>3. TypeOK
  BY DEF Init, TypeOK, Slots
<1>4. NextInRange /\ Exclusion /\ NotCreatedYet /\ CopiesAreFresh
  BY DEF Init, NextInRange, Exclusion, NotCreatedYet, CopiesAreFresh
<1> QED BY <1>2, <1>3, <1>4 DEF ThreadInvariant

(* Every step keeps the invariant of the threads (threadpool.c:43-98).     *)
LEMMA ThreadStep == ThreadInvariant /\ [Next]_vars => ThreadInvariant'
BY TypeStep, ExclusionStep, PermitStep DEF ThreadInvariant

(* Every queued task has exactly one permit: no wake-up is lost and none   *)
(* is made up (threadpool.c:52, 63, 72, 98).                               *)
THEOREM PermitsCorrect == Spec => []PermitsMatchTasks
<1>1. ThreadInvariant => PermitsMatchTasks
  BY DEF ThreadInvariant
<1> QED BY <1>1, ThreadInit, ThreadStep, PTL DEF Spec

(* queue, front, rear and count are touched by one thread at a time, the   *)
(* owner of the mutex (threadpool.c:44-53, 60-64).                         *)
THEOREM ExclusionCorrect == Spec => []Exclusion
<1>1. ThreadInvariant => Exclusion
  BY DEF ThreadInvariant
<1> QED BY <1>1, ThreadInit, ThreadStep, PTL DEF Spec

-----------------------------------------------------------------------------
(* The ring *)

(* Tasks in the queue whose dequeue has not begun; the next one is in the  *)
(* slot at front (threadpool.c:60-63).                                     *)
Waiting == IF \E w \in Workers : pc[w] = "uncount" THEN count - 1 ELSE count

(* rear is behind the waiting tasks and the one that enqueue has stored    *)
(* and not counted yet (threadpool.c:50-52).                               *)
RingInvariant ==
    /\ rear = (front + Waiting + (IF main = "count" THEN 1 ELSE 0)) % QUEUE_SIZE
    /\ main = "count" => queue[(front + count) % QUEUE_SIZE] = next

(* How many tasks wait: all that are counted when the client owns the      *)
(* mutex, and one less while a worker is about to uncount one              *)
(* (threadpool.c:44-53, 60-64).                                            *)
LEMMA WaitingIs ==
    ASSUME ThreadInvariant
    PROVE  /\ Waiting \in 0 .. QUEUE_SIZE
           /\ count - Cardinality(Uncounting) = Waiting
           /\ mutex \notin Workers => Waiting = count
           /\ \A w \in Workers : mutex = w => Waiting = IF pc[w] = "uncount" THEN count - 1
                                                         ELSE count
<1>1. /\ count \in 0 .. QUEUE_SIZE /\ QUEUE_SIZE \in Nat
      /\ \A w \in Workers : pc[w] = "uncount" => mutex = w /\ count > 0
  BY ArrivingIsCounted, ConstantsAssumption DEF ThreadInvariant, TypeOK, Exclusion
<1>2. count - Cardinality(Uncounting) = Waiting
  <2>1. CASE \E w \in Workers : pc[w] = "uncount"
    <3>1. PICK w \in Workers : pc[w] = "uncount"
      BY <2>1
    <3>2. Uncounting = {w}
      BY <1>1, <3>1 DEF Uncounting
    <3>3. Cardinality(Uncounting) = 1
      BY <3>2, FS_Singleton
    <3> QED BY <2>1, <3>3 DEF Waiting
  <2>2. CASE ~\E w \in Workers : pc[w] = "uncount"
    <3>1. Uncounting = {}
      BY <2>2 DEF Uncounting
    <3> QED BY <1>1, <2>2, <3>1, FS_EmptySet DEF Waiting
  <2> QED BY <2>1, <2>2
<1> QED BY <1>1, <1>2 DEF Waiting

(* Pending is the sequence of the waiting tasks (threadpool.c:60-63). *)
PendingIsTheRing ==
    /\ Pending \in Seq(Tasks \cup {NoTask}) /\ Len(Pending) = Waiting
    /\ Waiting \in 0 .. QUEUE_SIZE
    /\ \A i \in 1 .. Waiting : Pending[i] = queue[(front + i - 1) % QUEUE_SIZE]

(* It always is: each of its slots is one of the ring (threadpool.c:27).   *)
LEMMA PendingType == ThreadInvariant => PendingIsTheRing
<1> SUFFICES ASSUME ThreadInvariant PROVE PendingIsTheRing
  OBVIOUS
<1>1. /\ queue \in [Slots -> Tasks \cup {NoTask}] /\ front \in Nat /\ QUEUE_SIZE \in Nat \ {0}
      /\ Waiting \in 0 .. QUEUE_SIZE
  BY ConstantsAssumption, WaitingIs DEF ThreadInvariant, TypeOK, Slots
<1>2. \A i \in 1 .. Waiting : (front + i - 1) % QUEUE_SIZE \in Slots
  BY <1>1 DEF Slots
<1>3. Pending = [i \in 1 .. Waiting |-> queue[(front + i - 1) % QUEUE_SIZE]]
  BY WaitingIs DEF Pending
<1>4. Pending \in [1 .. Waiting -> Tasks \cup {NoTask}]
  BY <1>1, <1>2, <1>3
<1>5. Pending \in Seq(Tasks \cup {NoTask}) /\ Len(Pending) = Waiting
  BY <1>1, <1>4
<1> QED BY <1>1, <1>3, <1>5 DEF PendingIsTheRing

(* The states before and after a step, as the following lemmas need them.  *)
PoolStep == /\ ThreadInvariant /\ ThreadInvariant' /\ RingInvariant /\ [Next]_vars
            /\ PendingIsTheRing /\ PendingIsTheRing'

(* A step that is no dequeue and counts no new task leaves the waiting     *)
(* tasks as they are; the slot that enqueue writes is none of theirs       *)
(* (threadpool.c:50, 63).                                                  *)
LEMMA PendingKept ==
    ASSUME PoolStep, ~Count, \A w \in Workers : ~Dequeue(w)
    PROVE  Pending' = Pending /\ Waiting' = Waiting /\ front' = front
<1> USE ThreadSets
<1>t. /\ TypeOK /\ Exclusion /\ NextInRange /\ NotCreatedYet /\ CopiesAreFresh
      /\ pc \in [Workers -> {"new", "wait", "lock", "dequeue", "uncount", "execute", "exited"}]
      /\ QUEUE_SIZE \in Nat \ {0} /\ front \in 0 .. QUEUE_SIZE - 1 /\ count \in 0 .. QUEUE_SIZE
      /\ rear \in Slots /\ queue \in [Slots -> Tasks \cup {NoTask}]
  BY ConstantsAssumption DEF PoolStep, ThreadInvariant, TypeOK, Slots
<1>1. ASSUME Waiting' = Waiting, front' = front,
             \A i \in 1 .. Waiting : queue'[(front + i - 1) % QUEUE_SIZE]
                                       = queue[(front + i - 1) % QUEUE_SIZE]
      PROVE  Pending' = Pending
  <2>1. /\ Pending \in Seq(Tasks \cup {NoTask}) /\ Len(Pending) = Waiting
        /\ Pending' \in Seq(Tasks \cup {NoTask}) /\ Len(Pending') = Waiting
        /\ \A i \in 1 .. Waiting : Pending'[i] = Pending[i]
    BY <1>1 DEF PoolStep, PendingIsTheRing
  <2> QED BY <2>1, SeqEqual
<1>2. CASE Enqueue
  <2>1. /\ main = "enqueue" /\ mutex = Client /\ count < QUEUE_SIZE
        /\ queue' = [queue EXCEPT ![rear] = next]
        /\ UNCHANGED <<front, count, pc>>
    BY <1>2, <1>t DEF Enqueue, full, Exclusion
  <2>2. Waiting' = Waiting /\ Waiting = count
    BY <2>1, WaitingIs DEF Waiting, PoolStep
  <2>3. rear = (front + count) % QUEUE_SIZE
    BY <2>1, <2>2, <1>t DEF PoolStep, RingInvariant
  <2>4. ASSUME NEW i \in 1 .. Waiting
        PROVE  queue'[(front + i - 1) % QUEUE_SIZE] = queue[(front + i - 1) % QUEUE_SIZE]
    <3>1. /\ i - 1 \in 0 .. QUEUE_SIZE - 1 /\ count \in 0 .. QUEUE_SIZE - 1 /\ i - 1 < count
          /\ front + (i - 1) = front + i - 1
      BY <1>t, <2>1, <2>2
    <3>2. (front + (i - 1)) % QUEUE_SIZE # (front + count) % QUEUE_SIZE
      BY <3>1, <1>t, SlotsDiffer
    <3> QED BY <2>1, <2>3, <3>1, <3>2, <1>t
  <2> QED BY <1>1, <2>1, <2>2, <2>4
<1>3. ASSUME NEW w \in Workers, Uncount(w) PROVE Pending' = Pending /\ Waiting' = Waiting /\ front' = front
  <2>1. /\ mutex = w /\ pc[w] = "uncount" /\ reg[w] = count
        /\ pc' = [pc EXCEPT ![w] = "execute"]
        /\ count' = count - 1 /\ UNCHANGED <<queue, front>>
    BY <1>3, <1>t DEF Uncount, Goto, Exclusion, CopiesAreFresh, ring
  <2>2. Waiting = count - 1
    BY <2>1, WaitingIs DEF PoolStep
  <2>3. Waiting' = count - 1
    BY <2>1, <1>t DEF Waiting, Exclusion
  <2> QED BY <1>1, <2>1, <2>2, <2>3
<1>4. CASE ~Enqueue /\ \A w \in Workers : ~Uncount(w)
  <2>1. UNCHANGED <<queue, front, count>>
    BY <1>4 DEF PoolStep, Next, ClientStep, Create, SubmitLock, EnqueueFull, Post, Cancel, Join,
                Sleep, Terminated, Step, WaitAvailable, Lock, Execute, Cancelled,
                CancelledInTask, vars, ring
  <2>2. \A w \in Workers : pc'[w] = "uncount" <=> pc[w] = "uncount"
    <3>1. CASE Create
      BY <3>1, <1>t DEF Create, NextInRange, NotCreatedYet, Workers
    <3>2. ASSUME NEW w \in Workers, Step(w)
          PROVE  \A v \in Workers : pc'[v] = "uncount" <=> pc[v] = "uncount"
      BY <3>2, <1>4, <1>t, OthersStay
         DEF Step, WaitAvailable, Lock, Execute, Cancelled, CancelledInTask, Goto
    <3>3. CASE UNCHANGED pc
      BY <3>3
    <3> QED BY <1>4, <3>1, <3>2, <3>3
            DEF PoolStep, Next, ClientStep, SubmitLock, EnqueueFull, Post, Cancel, Join, Sleep,
                Terminated, vars
  <2>3. Waiting' = Waiting
    BY <2>1, <2>2 DEF Waiting
  <2> QED BY <1>1, <2>1, <2>3
<1> QED BY <1>2, <1>3, <1>4

(* dequeue takes the task that waits longest (threadpool.c:61-62).         *)
LEMMA DequeueTakesTheHead ==
    ASSUME PoolStep, NEW w \in Workers, Dequeue(w)
    PROVE  /\ Pending # <<>> /\ Head(Pending) = queue[front] /\ Pending' = Tail(Pending)
           /\ count > 0 /\ Waiting = count /\ Waiting' = count - 1
<1> USE ThreadSets
<1>t. /\ TypeOK /\ Exclusion
      /\ pc \in [Workers -> {"new", "wait", "lock", "dequeue", "uncount", "execute", "exited"}]
      /\ QUEUE_SIZE \in Nat \ {0} /\ front \in 0 .. QUEUE_SIZE - 1 /\ count \in 0 .. QUEUE_SIZE
  BY ConstantsAssumption DEF PoolStep, ThreadInvariant, TypeOK, Slots
<1>1. /\ mutex = w /\ pc[w] = "dequeue" /\ pc' = [pc EXCEPT ![w] = "uncount"] /\ count > 0
      /\ front' = NextSlot(front) /\ UNCHANGED <<queue, count>>
  BY <1>t, ArrivingIsCounted DEF Dequeue, Goto, Exclusion, PoolStep
<1>2. Waiting = count /\ Waiting' = count - 1
  BY <1>1, <1>t, WaitingIs DEF PoolStep, Waiting
<1>3. /\ Pending \in Seq(Tasks \cup {NoTask}) /\ Len(Pending) = count
      /\ \A i \in 1 .. count : Pending[i] = queue[(front + i - 1) % QUEUE_SIZE]
      /\ Pending' \in Seq(Tasks \cup {NoTask}) /\ Len(Pending') = count - 1
      /\ \A i \in 1 .. count - 1 : Pending'[i] = queue[(NextSlot(front) + i - 1) % QUEUE_SIZE]
  BY <1>1, <1>2 DEF PoolStep, PendingIsTheRing
<1>4. Pending # <<>> /\ Head(Pending) = queue[front]
  <2>1. front + 1 - 1 = front /\ front % QUEUE_SIZE = front /\ 1 \in 1 .. count
    BY <1>1, <1>t
  <2> QED BY <2>1, <1>3
<1>5. \A i \in 1 .. count - 1 : Pending'[i] = Pending[i + 1]
  <2>1. SUFFICES ASSUME NEW i \in 1 .. count - 1 PROVE Pending'[i] = Pending[i + 1]
    OBVIOUS
  <2>2. i - 1 \in 0 .. QUEUE_SIZE - 1 /\ i + 1 \in 1 .. count
    BY <1>t
  <2>3. (((front + 1) % QUEUE_SIZE) + (i - 1)) % QUEUE_SIZE
          = (front + ((i - 1) + 1)) % QUEUE_SIZE
    BY <2>2, <1>t, FrontAdvances
  <2>4. (front + 1) % QUEUE_SIZE \in Nat
    BY <1>t
  <2>5. /\ front + ((i - 1) + 1) = front + (i + 1) - 1
        /\ ((front + 1) % QUEUE_SIZE) + (i - 1) = ((front + 1) % QUEUE_SIZE) + i - 1
    BY <2>4, <1>t
  <2> QED BY <2>2, <2>3, <2>5, <1>3 DEF NextSlot
<1>6. /\ Tail(Pending) \in Seq(Tasks \cup {NoTask}) /\ Len(Tail(Pending)) = count - 1
      /\ \A i \in 1 .. count - 1 : Tail(Pending)[i] = Pending[i + 1]
  BY <1>3, <1>4
<1>7. Pending' = Tail(Pending)
  BY <1>3, <1>5, <1>6, SeqEqual
<1> QED BY <1>1, <1>2, <1>4, <1>7

(* The store of count makes the task that enqueue has stored the last one  *)
(* that waits (threadpool.c:50-52).                                        *)
LEMMA CountAppends ==
    ASSUME PoolStep, Count
    PROVE  /\ Pending' = Append(Pending, next) /\ Len(Pending) < QUEUE_SIZE
           /\ Waiting = count /\ Waiting' = count + 1
<1> USE ThreadSets
<1>t. /\ TypeOK /\ Exclusion /\ CopiesAreFresh /\ NextInRange
      /\ QUEUE_SIZE \in Nat \ {0} /\ front \in 0 .. QUEUE_SIZE - 1 /\ count \in 0 .. QUEUE_SIZE
  BY ConstantsAssumption DEF PoolStep, ThreadInvariant, TypeOK, Slots
<1>1. /\ main = "count" /\ mutex = Client /\ count < QUEUE_SIZE /\ count' = count + 1
      /\ UNCHANGED <<queue, front, pc>> /\ next \in Tasks
  BY <1>t DEF Count, Exclusion, CopiesAreFresh, NextInRange, ring
<1>2. Waiting = count /\ Waiting' = count + 1
  <2>1. ~\E w \in Workers : pc[w] = "uncount"
    BY <1>1, <1>t DEF Exclusion
  <2> QED BY <2>1, <1>1 DEF Waiting
<1>3. /\ Pending \in Seq(Tasks \cup {NoTask}) /\ Len(Pending) = count
      /\ \A i \in 1 .. count : Pending[i] = queue[(front + i - 1) % QUEUE_SIZE]
      /\ Pending' \in Seq(Tasks \cup {NoTask}) /\ Len(Pending') = count + 1
      /\ \A i \in 1 .. count + 1 : Pending'[i] = queue[(front + i - 1) % QUEUE_SIZE]
  BY <1>1, <1>2 DEF PoolStep, PendingIsTheRing
<1>4. Pending'[count + 1] = next
  <2>1. front + (count + 1) - 1 = front + count
    BY <1>t
  <2> QED BY <2>1, <1>1, <1>3, <1>t DEF PoolStep, RingInvariant
<1>5. ASSUME NEW i \in 1 .. count PROVE Pending'[i] = Pending[i]
  <2>1. i \in 1 .. count + 1
    BY <1>t
  <2> QED BY <2>1, <1>3
<1>6. Pending' = Append(Pending, next)
  BY <1>1, <1>3, <1>4, <1>5, <1>t
<1> QED BY <1>1, <1>2, <1>3, <1>6

(* Every step keeps rear behind the tasks of the queue (threadpool.c:50-52, *)
(* 61-63).                                                                  *)
LEMMA RingStep == PoolStep => RingInvariant'
<1> SUFFICES ASSUME PoolStep PROVE RingInvariant'
  OBVIOUS
<1> USE ThreadSets
<1>t. /\ TypeOK /\ Exclusion /\ NextInRange /\ RingInvariant /\ [Next]_vars
      /\ QUEUE_SIZE \in Nat \ {0} /\ front \in 0 .. QUEUE_SIZE - 1 /\ count \in 0 .. QUEUE_SIZE
      /\ rear \in Slots /\ queue \in [Slots -> Tasks \cup {NoTask}]
      /\ Waiting \in 0 .. QUEUE_SIZE
  BY ConstantsAssumption, WaitingIs DEF PoolStep, ThreadInvariant, TypeOK, Slots
<1>1. CASE Count
  <2>1. main = "count" /\ main' = "post" /\ UNCHANGED <<front, rear>>
    BY <1>1 DEF Count, ring
  <2>2. Waiting = count /\ Waiting' = count + 1
    BY <1>1, CountAppends
  <2> QED BY <2>1, <2>2, <1>t DEF RingInvariant
<1>2. CASE \E w \in Workers : Dequeue(w)
  <2>1. PICK w \in Workers : Dequeue(w)
    BY <1>2
  <2>2. /\ main # "count" /\ main' = main /\ rear' = rear
        /\ front' = (front + 1) % QUEUE_SIZE
    BY <2>1, <1>t DEF Dequeue, Goto, Exclusion, NextSlot
  <2>3. count > 0 /\ Waiting = count /\ Waiting' = count - 1
    BY <2>1, DequeueTakesTheHead
  <2>4. (((front + 1) % QUEUE_SIZE) + (count - 1)) % QUEUE_SIZE
          = (front + ((count - 1) + 1)) % QUEUE_SIZE
    <3>1. count - 1 \in 0 .. QUEUE_SIZE - 1
      BY <2>3, <1>t
    <3> QED BY <3>1, <1>t, FrontAdvances
  <2>5. /\ front + ((count - 1) + 1) = front + count + 0
        /\ ((front + 1) % QUEUE_SIZE) + (count - 1)
             = ((front + 1) % QUEUE_SIZE) + (count - 1) + 0
    BY <1>t
  <2> QED BY <2>2, <2>3, <2>4, <2>5, <1>t DEF RingInvariant
<1>3. CASE ~Count /\ \A w \in Workers : ~Dequeue(w)
  <2>1. Waiting' = Waiting /\ front' = front
    BY <1>3, PendingKept
  <2>2. CASE Enqueue
    <3>1. /\ main = "enqueue" /\ main' = "count" /\ mutex = Client /\ count < QUEUE_SIZE
          /\ queue' = [queue EXCEPT ![rear] = next] /\ rear' = (rear + 1) % QUEUE_SIZE
          /\ UNCHANGED <<count, next>>
      BY <2>2, <1>t DEF Enqueue, full, Exclusion, NextSlot
    <3>2. Waiting = count
      BY <3>1, WaitingIs DEF PoolStep
    <3>3. rear = (front + count) % QUEUE_SIZE /\ front + count \in 0 .. 2 * QUEUE_SIZE - 2
      BY <3>1, <3>2, <1>t DEF RingInvariant
    <3>4. rear' = (front + count + 1) % QUEUE_SIZE
      BY <3>1, <3>3, <1>t, RearAdvances
    <3> QED BY <2>1, <3>1, <3>2, <3>3, <3>4, <1>t DEF RingInvariant
  <2>3. CASE ~Enqueue
    <3>1. \/ UNCHANGED <<queue, rear>> /\ main' # "count"
          \/ UNCHANGED <<queue, rear, count, main, next>>
      <4>1. CASE \E w \in Workers : Uncount(w)
        BY <4>1, <1>t DEF Uncount, Goto, Exclusion, ring
      <4>2. CASE \A w \in Workers : ~Uncount(w)
        BY <1>3, <2>3, <4>2, <1>t
           DEF Next, ClientStep, Create, SubmitLock, EnqueueFull, Post, Cancel, Join,
               Sleep, Terminated, Step, WaitAvailable, Lock, Execute, Cancelled,
               CancelledInTask, vars, ring
      <4> QED BY <4>1, <4>2
    <3>2. main' # "count" => main # "count"
      BY <1>3, <2>3, <1>t
         DEF Next, ClientStep, Create, SubmitLock, EnqueueFull, Post, Cancel, Join,
             Sleep, Terminated, Step, WaitAvailable, Lock, Dequeue, Uncount, Execute, Cancelled,
             CancelledInTask, vars
    <3> QED BY <2>1, <3>1, <3>2, <1>t DEF RingInvariant
  <2> QED BY <2>2, <2>3
<1> QED BY <1>1, <1>2, <1>3

-----------------------------------------------------------------------------
(* The order of the tasks *)

(* What has been handed to a worker (threadpool.c:74-75). *)
Started == {worktodo[w] : w \in Workers} \cup done

(* The waiting tasks are in the order of their calls and behind everything *)
(* that has been started; whoever executes has a task (threadpool.c:43-75). *)
TasksInOrder ==
    /\ \A i \in 1 .. Waiting : Pending[i] \in 1 .. Decided
    /\ \A i, j \in 1 .. Waiting : i < j => Pending[i] < Pending[j]
    /\ \A x \in Started \cap Tasks : x <= Decided /\ \A i \in 1 .. Waiting : x < Pending[i]
    /\ done \subseteq Tasks
    /\ \A w \in Workers : pc[w] \in {"uncount", "execute"} => worktodo[w] \in Tasks

PoolInvariant == ThreadInvariant /\ RingInvariant /\ TasksInOrder

(* The number of calls that have been decided grows by one when a task is  *)
(* counted or refused, and by nothing else (threadpool.c:45-53, 90-99).    *)
LEMMA DecidedStep ==
    ASSUME ThreadInvariant, [Next]_vars
    PROVE  /\ Decided \in 0 .. Calls
           /\ Count \/ EnqueueFull => Decided = next - 1 /\ Decided' = next /\ next \in Tasks
           /\ ~Count /\ ~EnqueueFull => Decided' = Decided
<1>t. TypeOK /\ NextInRange /\ Calls \in Nat
  BY ConstantsAssumption DEF ThreadInvariant
<1>1. Decided \in 0 .. Calls
  BY <1>t DEF Decided, TypeOK, NextInRange, Tasks
<1>2. CASE Count \/ EnqueueFull
  BY <1>1, <1>2, <1>t DEF Count, EnqueueFull, Decided, NextInRange, Tasks
<1>3. CASE ClientStep /\ ~Count /\ ~EnqueueFull
  BY <1>1, <1>3, <1>t
     DEF ClientStep, Create, SubmitLock, Enqueue, Post, Cancel, Join, Decided, NextInRange, Tasks
<1>4. CASE Sleep
  BY <1>1, <1>4, <1>t DEF Sleep, Decided, NextInRange, Tasks, Count, EnqueueFull
<1>5. CASE UNCHANGED vars
  BY <1>1, <1>5, <1>t DEF vars, Decided, Count, EnqueueFull
<1>6. ASSUME NEW w \in Workers, Step(w) PROVE Decided' = Decided /\ ~Count /\ ~EnqueueFull
  BY <1>6, <1>t, OthersStay DEF Decided, Count, EnqueueFull
<1> QED BY <1>1, <1>2, <1>3, <1>4, <1>5, <1>6 DEF Next, Terminated

(* Every step keeps the tasks in order: enqueue stores the number of the   *)
(* present call behind all earlier ones, and dequeue hands over the first  *)
(* (threadpool.c:43-66, 74-75).                                            *)
LEMMA OrderStep ==
    ASSUME PoolStep, TasksInOrder
    PROVE  TasksInOrder'
<1>t. /\ TypeOK /\ NextInRange /\ ThreadInvariant /\ [Next]_vars
      /\ Waiting \in 0 .. QUEUE_SIZE /\ Decided \in 0 .. Calls /\ Calls \in Nat
      /\ Pending \in Seq(Tasks \cup {NoTask}) /\ Len(Pending) = Waiting
  BY ConstantsAssumption, DecidedStep DEF PoolStep, ThreadInvariant, PendingIsTheRing
<1>w. /\ worktodo \in [Workers -> Tasks \cup {NoTask}] /\ count \in Nat
      /\ pc \in [Workers -> {"new", "wait", "lock", "dequeue", "uncount", "execute", "exited"}]
  BY <1>t DEF TypeOK
<1>1. CASE Count
  <2>1. /\ Pending' = Append(Pending, next) /\ Waiting' = Waiting + 1
        /\ Decided = next - 1 /\ Decided' = next /\ next \in Tasks
    BY <1>1, <1>t, CountAppends, DecidedStep
  <2>2. /\ \A i \in 1 .. Waiting : Pending'[i] = Pending[i]
        /\ Pending'[Waiting + 1] = next
    BY <2>1, <1>t
  <2>3. Started' = Started /\ UNCHANGED <<worktodo, done, pc>>
    BY <1>1 DEF Count, Started
  <2>4. \A i \in 1 .. Waiting : Pending[i] \in 1 .. next - 1
    BY <2>1 DEF TasksInOrder
  <2>5. \A i \in 1 .. Waiting' : i \in 1 .. Waiting \/ i = Waiting + 1
    BY <2>1, <1>t
  <2>6. \A i \in 1 .. Waiting' : Pending'[i] \in 1 .. Decided'
    BY <2>1, <2>2, <2>4, <2>5 DEF Tasks
  <2>7. \A i, j \in 1 .. Waiting' : i < j => Pending'[i] < Pending'[j]
    <3>1. SUFFICES ASSUME NEW i \in 1 .. Waiting', NEW j \in 1 .. Waiting', i < j
                   PROVE  Pending'[i] < Pending'[j]
      OBVIOUS
    <3>2. i \in 1 .. Waiting
      BY <3>1, <2>5, <2>1, <1>t
    <3>3. CASE j \in 1 .. Waiting
      BY <3>1, <3>2, <3>3, <2>2 DEF TasksInOrder
    <3>4. CASE j = Waiting + 1
      <4>1. Pending'[i] \in 1 .. next - 1 /\ Pending'[j] = next
        BY <3>2, <3>4, <2>2, <2>4
      <4> QED BY <4>1, <2>1, <1>t DEF Tasks
    <3> QED BY <3>3, <3>4, <2>5
  <2>8. ASSUME NEW x \in Started \cap Tasks
        PROVE  x <= Decided' /\ \A i \in 1 .. Waiting' : x < Pending'[i]
    <3>1. x <= next - 1 /\ x \in Nat /\ \A i \in 1 .. Waiting : x < Pending[i]
      BY <2>1 DEF TasksInOrder, Tasks
    <3>2. \A i \in 1 .. Waiting' : x < Pending'[i]
      <4>1. \A i \in 1 .. Waiting : x < Pending'[i]
        BY <3>1, <2>2
      <4>2. x < next
        BY <3>1, <2>1 DEF Tasks
      <4> QED BY <4>1, <4>2, <2>2, <2>5
    <3> QED BY <3>1, <3>2, <2>1, <1>t DEF Tasks
  <2> QED BY <2>3, <2>6, <2>7, <2>8 DEF TasksInOrder
<1>2. CASE \E w \in Workers : Dequeue(w)
  <2>1. PICK w \in Workers : Dequeue(w)
    BY <1>2
  <2>2. /\ Pending # <<>> /\ Pending' = Tail(Pending) /\ Head(Pending) = queue[front]
        /\ Waiting > 0 /\ Waiting' = Waiting - 1
    BY <2>1, <1>w, DequeueTakesTheHead
  <2>3. Decided' = Decided
    <3>1. ~Count /\ ~EnqueueFull
      BY <2>1, <1>w DEF Dequeue, Goto, Count, EnqueueFull
    <3> QED BY <3>1, <1>t, DecidedStep
  <2>4. /\ Head(Pending) = Pending[1] /\ 1 \in 1 .. Waiting
        /\ \A i \in 1 .. Waiting' : Pending'[i] = Pending[i + 1] /\ i + 1 \in 1 .. Waiting
    BY <2>2, <1>t
  <2>5. /\ worktodo' = [worktodo EXCEPT ![w] = Pending[1]] /\ done' = done
        /\ pc' = [pc EXCEPT ![w] = "uncount"]
    BY <2>1, <2>2, <2>4 DEF Dequeue, Goto
  <2>6. Pending[1] \in Tasks /\ Pending[1] <= Decided
    BY <2>4, <1>t DEF TasksInOrder, Tasks
  <2>7. Started' \subseteq Started \cup {Pending[1]}
    BY <2>5, <1>w DEF Started
  <2>8. ASSUME NEW x \in Started' \cap Tasks
        PROVE  x <= Decided' /\ \A i \in 1 .. Waiting' : x < Pending'[i]
    <3>1. CASE x \in Started
      BY <3>1, <2>3, <2>4 DEF TasksInOrder
    <3>2. CASE x = Pending[1]
      <4>1. \A i \in 1 .. Waiting' : 1 < i + 1
        OBVIOUS
      <4> QED BY <3>2, <4>1, <2>3, <2>4, <2>6 DEF TasksInOrder
    <3> QED BY <2>7, <3>1, <3>2
  <2>9. \A i, j \in 1 .. Waiting' : i < j => Pending'[i] < Pending'[j]
    <3>1. \A i, j \in 1 .. Waiting' : i < j => i + 1 < j + 1
      BY <2>2, <1>t
    <3> QED BY <3>1, <2>4 DEF TasksInOrder
  <2>10. \A i \in 1 .. Waiting' : Pending'[i] \in 1 .. Decided'
    BY <2>3, <2>4 DEF TasksInOrder
  <2>11. \A v \in Workers : pc'[v] \in {"uncount", "execute"} => worktodo'[v] \in Tasks
    BY <2>5, <2>6, <1>w DEF TasksInOrder
  <2> QED BY <2>5, <2>8, <2>9, <2>10, <2>11 DEF TasksInOrder
<1>3. CASE ~Count /\ \A w \in Workers : ~Dequeue(w)
  <2>1. Pending' = Pending /\ Waiting' = Waiting
    BY <1>3, PendingKept
  <2>2. Decided <= Decided' /\ Decided' \in 0 .. Calls
    BY <1>3, <1>t, DecidedStep DEF Tasks
  <2>3. /\ worktodo' = worktodo
        /\ \/ done' = done
           \/ \E w \in Workers : pc[w] = "execute" /\ done' = done \cup {worktodo[w]}
        /\ \A w \in Workers : pc'[w] \in {"uncount", "execute"} => pc[w] \in {"uncount", "execute"}
    <3>1. CASE Create
      BY <3>1, <1>w, <1>t DEF Create, NextInRange
    <3>2. CASE (ClientStep /\ ~Create) \/ Sleep \/ UNCHANGED vars
      BY <3>2 DEF ClientStep, SubmitLock, EnqueueFull, Enqueue, Count, Post, Cancel, Join, Sleep,
                  vars
    <3>3. ASSUME NEW w \in Workers, Step(w), ~Dequeue(w)
          PROVE  /\ worktodo' = worktodo
                 /\ \/ done' = done
                    \/ pc[w] = "execute" /\ done' = done \cup {worktodo[w]}
                 /\ pc'[w] \in {"uncount", "execute"} => pc[w] \in {"uncount", "execute"}
      BY <3>3, <1>w
         DEF Step, WaitAvailable, Lock, Uncount, Execute, Cancelled, CancelledInTask, Goto
    <3>4. CASE \E w \in Workers : Step(w)
      BY <1>3, <3>3, <3>4, <1>t, OthersStay
    <3> QED BY <1>t, <3>1, <3>2, <3>4 DEF Next, Terminated
  <2>4. Started' = Started /\ done' \subseteq Tasks
    BY <2>3, <1>w DEF Started, TasksInOrder
  <2>5. ASSUME NEW x \in Started \cap Tasks
        PROVE  x <= Decided' /\ \A i \in 1 .. Waiting' : x < Pending'[i]
    BY <2>1, <2>2, <1>t DEF TasksInOrder, Tasks
  <2>6. \A i \in 1 .. Waiting' : Pending'[i] \in 1 .. Decided'
    BY <2>1, <2>2, <1>t DEF TasksInOrder
  <2>7. \A i, j \in 1 .. Waiting' : i < j => Pending'[i] < Pending'[j]
    BY <2>1 DEF TasksInOrder
  <2>8. \A w \in Workers : pc'[w] \in {"uncount", "execute"} => worktodo'[w] \in Tasks
    BY <2>3 DEF TasksInOrder
  <2> QED BY <2>4, <2>5, <2>6, <2>7, <2>8 DEF TasksInOrder
<1> QED BY <1>1, <1>2, <1>3

(* Every step keeps all parts of the invariant (threadpool.c:43-119). *)
LEMMA PoolInvariantStep == PoolInvariant /\ [Next]_vars => PoolInvariant'
<1> SUFFICES ASSUME PoolInvariant, [Next]_vars PROVE PoolInvariant'
  OBVIOUS
<1>1. ThreadInvariant'
  BY ThreadStep DEF PoolInvariant
<1>2. PendingIsTheRing
  BY PendingType DEF PoolInvariant
<1>3. PendingIsTheRing'
  BY <1>1, PendingType, PTL
<1>4. PoolStep /\ TasksInOrder
  BY <1>1, <1>2, <1>3 DEF PoolStep, PoolInvariant
<1> QED BY <1>1, <1>4, RingStep, OrderStep DEF PoolInvariant

(* At the start nothing waits and nothing has been started                 *)
(* (threadpool.c:27-31).                                                   *)
LEMMA PoolInit == Init => PoolInvariant
<1> SUFFICES ASSUME Init PROVE PoolInvariant
  OBVIOUS
<1>1. ThreadInvariant
  BY ThreadInit
<1>2. Waiting = 0
  BY DEF Init, Waiting
<1>3. 0 % QUEUE_SIZE = 0
  BY ConstantsAssumption, SmallMod
<1>4. RingInvariant
  BY <1>2, <1>3 DEF Init, RingInvariant
<1>5. Started \cap Tasks = {}
  BY ConstantsAssumption DEF Init, Started, Tasks
<1>6. TasksInOrder
  BY <1>2, <1>5 DEF Init, TasksInOrder
<1> QED BY <1>1, <1>4, <1>6 DEF PoolInvariant

(* Whoever enters dequeue finds a task that was enqueued, has not been     *)
(* executed and has been handed to nobody else, although dequeue does not  *)
(* test count (threadpool.c:58-66).                                        *)
THEOREM DequeueCorrect == Spec => []DequeueFindsTask
<1>1. PoolInvariant => DequeueFindsTask
  <2> SUFFICES ASSUME PoolInvariant PROVE DequeueFindsTask
    OBVIOUS
  <2>1. TypeOK
    BY DEF PoolInvariant, ThreadInvariant
  <2>2. ASSUME NEW w \in Workers, pc[w] = "dequeue"
        PROVE  /\ count > 0
               /\ queue[front] \in Tasks \ done
               /\ \A v \in Workers : worktodo[v] # queue[front]
    <3>1. count > 0 /\ Waiting = count /\ QUEUE_SIZE \in Nat \ {0}
          /\ front \in 0 .. QUEUE_SIZE - 1 /\ count \in 0 .. QUEUE_SIZE
      BY <2>2, ArrivingIsCounted, WaitingIs, ConstantsAssumption
         DEF PoolInvariant, ThreadInvariant, TypeOK, Exclusion, Slots
    <3>2. front + 1 - 1 = front /\ front % QUEUE_SIZE = front /\ 1 \in 1 .. Waiting
      BY <3>1
    <3>3. Pending[1] = queue[front]
      BY <3>2, PendingType DEF PoolInvariant, PendingIsTheRing
    <3>4. Decided \in 0 .. Calls /\ Calls \in Nat
      BY ConstantsAssumption DEF PoolInvariant, ThreadInvariant, TypeOK, NextInRange, Decided, Tasks
    <3>5. queue[front] \in Tasks
      BY <3>2, <3>3, <3>4 DEF PoolInvariant, TasksInOrder, Tasks
    <3>6. \A x \in Started \cap Tasks : x < queue[front]
      BY <3>2, <3>3 DEF PoolInvariant, TasksInOrder
    <3>7. queue[front] \notin Started
      BY <3>4, <3>5, <3>6 DEF Tasks
    <3> QED BY <3>1, <3>5, <3>7 DEF Started
  <2> QED BY <2>1, <2>2 DEF DequeueFindsTask
<1> QED BY <1>1, PoolInit, PoolInvariantStep, PTL DEF Spec

-----------------------------------------------------------------------------
(* The work queue *)

(* What the abstract queue sees of the workers (threadpool.c:74-75). *)
Running == [w \in Workers |-> IF pc[w] \in {"uncount", "execute"} THEN worktodo[w] ELSE NoTask]

(* Every step of the pool is a step of the abstract queue, or none: the    *)
(* store of count accepts a task, a full queue refuses one, dequeue starts *)
(* one, and its end or a cancellation frees the worker                     *)
(* (threadpool.c:43-85, 90-99).                                            *)
LEMMA AbstractStep ==
    PoolInvariant /\ PoolInvariant' /\ [Next]_vars => [Abstract!Next]_(Abstract!vars)
<1> SUFFICES ASSUME PoolInvariant, PoolInvariant', [Next]_vars
             PROVE  [Abstract!Next]_(Abstract!vars)
  OBVIOUS
<1>1. PoolStep
  <2>1. PendingIsTheRing
    BY PendingType DEF PoolInvariant
  <2>2. PendingIsTheRing'
    BY PendingType, PTL DEF PoolInvariant
  <2> QED BY <2>1, <2>2 DEF PoolStep, PoolInvariant
<1>t. /\ TypeOK /\ NextInRange /\ Exclusion /\ NotCreatedYet /\ ThreadInvariant /\ TasksInOrder
      /\ worktodo \in [Workers -> Tasks \cup {NoTask}] /\ QUEUE_SIZE \in Nat /\ Calls \in Nat
      /\ pc \in [Workers -> {"new", "wait", "lock", "dequeue", "uncount", "execute", "exited"}]
      /\ NoTask \notin Tasks /\ Len(Pending) = Waiting /\ Client \notin Workers
  BY <1>1, ConstantsAssumption, ThreadSets
     DEF PoolInvariant, ThreadInvariant, TypeOK, PoolStep, PendingIsTheRing, Tasks
<1>2. CASE Count
  <2>1. /\ Pending' = Append(Pending, next) /\ Len(Pending) < QUEUE_SIZE
        /\ Decided = next - 1 /\ Decided' = next /\ next \in Tasks
    BY <1>1, <1>2, <1>t, CountAppends, DecidedStep DEF PoolStep
  <2>2. UNCHANGED <<Running, done>>
    BY <1>2 DEF Count, Running
  <2>3. Abstract!Accept
    BY <2>1, <2>2, <1>t DEF Abstract!Accept, Running, Tasks
  <2> QED BY <2>3 DEF Abstract!Next
<1>3. CASE EnqueueFull
  <2>1. mutex = Client /\ count = QUEUE_SIZE /\ UNCHANGED <<Running, done>>
    BY <1>3, <1>t DEF EnqueueFull, full, Exclusion, Running
  <2>2. Len(Pending) = QUEUE_SIZE
    BY <2>1, <1>t, WaitingIs
  <2>3. Decided = next - 1 /\ Decided' = next /\ next \in Tasks
    BY <1>1, <1>3, <1>t, DecidedStep DEF PoolStep
  <2>4. Pending' = Pending
    <3>1. ~Count /\ \A w \in Workers : ~Dequeue(w)
      BY <1>3 DEF EnqueueFull, Count, Dequeue
    <3> QED BY <3>1, <1>1, PendingKept
  <2>5. Abstract!Refuse
    BY <2>1, <2>2, <2>3, <2>4, <1>t DEF Abstract!Refuse, Running, Tasks
  <2> QED BY <2>5 DEF Abstract!Next
<1>4. ASSUME NEW w \in Workers, Dequeue(w) PROVE [Abstract!Next]_(Abstract!vars)
  <2>1. /\ Pending # <<>> /\ Head(Pending) = queue[front] /\ Pending' = Tail(Pending)
    BY <1>1, <1>4, DequeueTakesTheHead
  <2>2. /\ Running[w] = NoTask
        /\ Running' = [Running EXCEPT ![w] = Head(Pending)] /\ done' = done
    BY <1>4, <2>1, <1>t DEF Dequeue, Goto, Running
  <2>3. Decided' = Decided
    <3>1. ~Count /\ ~EnqueueFull
      BY <1>4, <1>t DEF Dequeue, Goto, Count, EnqueueFull
    <3> QED BY <3>1, <1>1, <1>t, DecidedStep DEF PoolStep
  <2>4. Abstract!Start(w)
    BY <2>1, <2>2, <2>3 DEF Abstract!Start, Running
  <2> QED BY <2>4 DEF Abstract!Next
<1>5. CASE ~Count /\ ~EnqueueFull /\ \A w \in Workers : ~Dequeue(w)
  <2>1. Pending' = Pending /\ Decided' = Decided
    BY <1>1, <1>5, <1>t, PendingKept, DecidedStep DEF PoolStep
  <2>2. CASE Create
    <3>1. Running' = Running /\ done' = done
      BY <2>2, <1>t DEF Create, Running, NextInRange, NotCreatedYet, Workers
    <3> QED BY <2>1, <3>1 DEF Abstract!vars, Running
  <2>3. CASE \/ SubmitLock \/ Enqueue \/ Post \/ Cancel \/ Join \/ Sleep \/ UNCHANGED vars
    <3>1. Running' = Running /\ done' = done
      BY <2>3 DEF SubmitLock, Enqueue, Post, Cancel, Join, Sleep, vars, Running
    <3> QED BY <2>1, <3>1 DEF Abstract!vars, Running
  <2>4. ASSUME NEW w \in Workers, Step(w) PROVE [Abstract!Next]_(Abstract!vars)
    <3>1. CASE Execute(w)
      <4>1. /\ Running[w] = worktodo[w] /\ Running[w] # NoTask
            /\ done' = done \cup {Running[w]}
            /\ Running' = [Running EXCEPT ![w] = NoTask]
        BY <3>1, <1>t DEF Execute, Goto, Running, TasksInOrder
      <4>2. Abstract!Finish(w)
        BY <2>1, <4>1 DEF Abstract!Finish, Running
      <4> QED BY <4>2 DEF Abstract!Next
    <3>2. CASE CancelledInTask(w)
      <4>1. /\ Running[w] # NoTask /\ done' = done
            /\ Running' = [Running EXCEPT ![w] = NoTask]
        BY <3>2, <1>t DEF CancelledInTask, Goto, Running, TasksInOrder
      <4>2. Abstract!Interrupt(w)
        BY <2>1, <4>1 DEF Abstract!Interrupt, Running
      <4> QED BY <4>2 DEF Abstract!Next
    <3>3. CASE WaitAvailable(w) \/ Lock(w) \/ Uncount(w) \/ Cancelled(w)
      <4>1. Running' = Running /\ done' = done
        BY <3>3, <1>t DEF WaitAvailable, Lock, Uncount, Cancelled, Goto, Running
      <4> QED BY <2>1, <4>1 DEF Abstract!vars, Running
    <3> QED BY <1>5, <2>4, <3>1, <3>2, <3>3 DEF Step
  <2> QED BY <1>5, <2>2, <2>3, <2>4 DEF Next, ClientStep, Terminated
<1> QED BY <1>2, <1>3, <1>4, <1>5

(* At the start the abstract queue is empty (threadpool.c:27-31). *)
LEMMA AbstractInit == Init => Abstract!Init
<1> SUFFICES ASSUME Init PROVE Abstract!Init
  OBVIOUS
<1>1. Waiting = 0 /\ PendingIsTheRing
  BY PoolInit, PendingType DEF Init, Waiting, PoolInvariant
<1>2. Pending = <<>>
  BY <1>1 DEF PendingIsTheRing
<1>3. Running = [w \in Workers |-> NoTask] /\ Decided = 0 /\ done = {}
  BY DEF Init, Running, Decided
<1> QED BY <1>2, <1>3 DEF Abstract!Init, Running

(* The pool accepts work while the queue has room, starts it in the order  *)
(* it was submitted, each piece at most once (threadpool.c:43-119).        *)
THEOREM PoolImplemented == Spec => ImplementsWorkQueue
<1>1. Spec => []PoolInvariant
  BY PoolInit, PoolInvariantStep, PTL DEF Spec
<1> QED BY <1>1, AbstractInit, AbstractStep, PTL DEF Spec, ImplementsWorkQueue, Abstract!Spec
=============================================================================
