------------------------------ MODULE ThreadPool ------------------------------
(***************************************************************************)
(* Project 5/thread_pool: the pool of threadpool.c and its client.c.       *)
(*                                                                         *)
(* The client starts the pool, calls pool_submit Calls times (the calls    *)
(* are numbered and stand for the work they hand over), sleeps and shuts   *)
(* the pool down by cancelling and joining the workers one by one.  The    *)
(* statement `count += 1' is a load and a store: reg[t] is the value       *)
(* thread t has loaded and not yet stored, 0 when it has none.             *)
(*                                                                         *)
(* sem_wait is a cancellation point, the mutex operations are not; the     *)
(* tasks of client.c print, and printf may be one (PrintfCancels).         *)
(***************************************************************************)
EXTENDS Integers, Sequences, FiniteSets

CONSTANTS QUEUE_SIZE,
          NUMBER_OF_THREADS,
          Calls,             \* pool_submit calls the client makes
          NoTask,            \* an empty task variable
          PrintfCancels      \* whether a task may act on a pending cancellation

ASSUME ConstantsAssumption ==
    /\ QUEUE_SIZE \in Nat \ {0}
    /\ NUMBER_OF_THREADS \in Nat \ {0}
    /\ Calls \in Nat
    /\ NoTask \notin 1 .. Calls
    /\ PrintfCancels \in BOOLEAN

Slots    == 0 .. QUEUE_SIZE - 1
Workers  == 1 .. NUMBER_OF_THREADS
Tasks    == 1 .. Calls
Unlocked == 0                      \* the owner of a free mutex
Client   == NUMBER_OF_THREADS + 1  \* the client as owner of the mutex
Threads  == Workers \cup {Client}

VARIABLES
    queue, front, rear, count,   \* the ring (threadpool.c:27-31)
    mutex,                       \* its owner, or Unlocked
    available,                   \* the value of the semaphore
    reg,                         \* reg[t]: t's loaded copy of count
    pc, worktodo,                \* the workers' positions and local variables
    main, next,                  \* the client's position and loop variable
    cancelled,                   \* bees pthread_cancel was called for
    done                         \* the work executed to the end

ring == <<queue, front, rear>>
vars == <<ring, count, mutex, available, reg, pc, worktodo, main, next, cancelled, done>>

NextSlot(i) == (i + 1) % QUEUE_SIZE

full == count = QUEUE_SIZE

-----------------------------------------------------------------------------
(* Workers *)

Goto(w, from, to) == /\ pc[w] = from
                     /\ pc' = [pc EXCEPT ![w] = to]

(* Mutant: dequeue without waiting for a permit. *)
WaitAvailableSkipped(w) ==
    /\ w \notin cancelled
    /\ Goto(w, "wait", "lock")
    /\ UNCHANGED <<ring, count, mutex, available, reg, worktodo, main, next, cancelled, done>>

(* sem_wait(&available) in worker. *)
WaitAvailable(w) ==
    /\ w \notin cancelled
    /\ Goto(w, "wait", "lock")
    /\ available > 0
    /\ available' = available - 1
    /\ UNCHANGED <<ring, count, mutex, reg, worktodo, main, next, cancelled, done>>

(* Mutant: dequeue without the mutex. *)
LockSkipped(w) ==
    /\ Goto(w, "lock", "dequeue")
    /\ mutex' = w
    /\ UNCHANGED <<ring, count, available, reg, worktodo, main, next, cancelled, done>>

Lock(w) ==
    /\ Goto(w, "lock", "dequeue")
    /\ mutex = Unlocked
    /\ mutex' = w
    /\ UNCHANGED <<ring, count, available, reg, worktodo, main, next, cancelled, done>>

(* dequeue does not test for an empty queue. *)
Dequeue(w) ==
    /\ Goto(w, "dequeue", "uncount")
    /\ worktodo' = [worktodo EXCEPT ![w] = queue[front]]
    /\ front' = NextSlot(front)
    /\ reg' = [reg EXCEPT ![w] = count]
    /\ UNCHANGED <<queue, rear, count, mutex, available, main, next, cancelled, done>>

(* count -= 1, the unlock and the return of dequeue. *)
Uncount(w) ==
    /\ Goto(w, "uncount", "execute")
    /\ count' = reg[w] - 1
    /\ reg' = [reg EXCEPT ![w] = 0]
    /\ mutex' = Unlocked
    /\ UNCHANGED <<ring, available, worktodo, main, next, cancelled, done>>

(* execute: the client's function runs and returns. *)
Execute(w) ==
    /\ Goto(w, "execute", "wait")
    /\ done' = done \cup {worktodo[w]}
    /\ UNCHANGED <<ring, count, mutex, available, reg, worktodo, main, next, cancelled>>

(* A cancellation acted upon in sem_wait. *)
Cancelled(w) ==
    /\ w \in cancelled
    /\ Goto(w, "wait", "exited")
    /\ UNCHANGED <<ring, count, mutex, available, reg, worktodo, main, next, cancelled, done>>

(* A cancellation acted upon in a printf of the task. *)
CancelledInTask(w) ==
    /\ PrintfCancels
    /\ w \in cancelled
    /\ Goto(w, "execute", "exited")
    /\ UNCHANGED <<ring, count, mutex, available, reg, worktodo, main, next, cancelled, done>>

Step(w) == \/ WaitAvailable(w) \/ Lock(w) \/ Dequeue(w) \/ Uncount(w)
           \/ Execute(w) \/ Cancelled(w) \/ CancelledInTask(w)

-----------------------------------------------------------------------------
(* The client: pool_init, pool_submit, sleep, pool_shutdown *)

(* The loop of pool_init. *)
Create ==
    /\ main = "init"
    /\ pc' = [pc EXCEPT ![next] = "wait"]
    /\ IF next = NUMBER_OF_THREADS
       THEN main' = "submit" /\ next' = 1
       ELSE next' = next + 1 /\ UNCHANGED main
    /\ UNCHANGED <<ring, count, mutex, available, reg, worktodo, cancelled, done>>

(* pool_submit up to the lock of enqueue. *)
SubmitLock ==
    /\ main = "submit" /\ next \in Tasks
    /\ mutex = Unlocked
    /\ mutex' = Client
    /\ main' = "enqueue"
    /\ UNCHANGED <<ring, count, available, reg, pc, worktodo, next, cancelled, done>>

(* enqueue fails: unlock, return 1, and pool_submit reports the failure. *)
EnqueueFull ==
    /\ main = "enqueue" /\ full
    /\ mutex' = Unlocked
    /\ main' = "submit" /\ next' = next + 1
    /\ UNCHANGED <<ring, count, available, reg, pc, worktodo, cancelled, done>>

Enqueue ==
    /\ main = "enqueue" /\ ~full
    /\ queue' = [queue EXCEPT ![rear] = next]
    /\ rear' = NextSlot(rear)
    /\ reg' = [reg EXCEPT ![Client] = count]
    /\ main' = "count"
    /\ UNCHANGED <<front, count, mutex, available, pc, worktodo, next, cancelled, done>>

(* count += 1, the unlock and the return of enqueue. *)
Count ==
    /\ main = "count"
    /\ count' = reg[Client] + 1
    /\ reg' = [reg EXCEPT ![Client] = 0]
    /\ mutex' = Unlocked
    /\ main' = "post"
    /\ UNCHANGED <<ring, available, pc, worktodo, next, cancelled, done>>

(* Mutant: pool_submit returns without sem_post. *)
PostForgotten ==
    /\ main = "post"
    /\ main' = "submit" /\ next' = next + 1
    /\ UNCHANGED <<ring, count, mutex, available, reg, pc, worktodo, cancelled, done>>

(* sem_post(&available) and the return of pool_submit. *)
Post ==
    /\ main = "post"
    /\ available' = available + 1
    /\ main' = "submit" /\ next' = next + 1
    /\ UNCHANGED <<ring, count, mutex, reg, pc, worktodo, cancelled, done>>

(* The client's sleep returns and pool_shutdown is called. *)
Sleep ==
    /\ main = "submit" /\ next \notin Tasks
    /\ main' = "cancel" /\ next' = 1
    /\ UNCHANGED <<ring, count, mutex, available, reg, pc, worktodo, cancelled, done>>

(* Mutant: the loop of pool_shutdown without pthread_cancel. *)
CancelForgotten ==
    /\ main = "cancel"
    /\ main' = "join"
    /\ UNCHANGED <<ring, count, mutex, available, reg, pc, worktodo, next, cancelled, done>>

Cancel ==
    /\ main = "cancel"
    /\ cancelled' = cancelled \cup {next}
    /\ main' = "join"
    /\ UNCHANGED <<ring, count, mutex, available, reg, pc, worktodo, next, done>>

Join ==
    /\ main = "join" /\ pc[next] = "exited"
    /\ IF next = NUMBER_OF_THREADS
       THEN main' = "return" /\ UNCHANGED next
       ELSE main' = "cancel" /\ next' = next + 1
    /\ UNCHANGED <<ring, count, mutex, available, reg, pc, worktodo, cancelled, done>>

ClientStep == \/ Create \/ SubmitLock \/ EnqueueFull \/ Enqueue \/ Count \/ Post
              \/ Cancel \/ Join

(* The process has ended; any other state without a step is a deadlock. *)
Terminated == main = "return" /\ UNCHANGED vars

Init ==
    /\ queue = [s \in Slots |-> NoTask]
    /\ front = 0 /\ rear = 0 /\ count = 0
    /\ mutex = Unlocked /\ available = 0
    /\ reg = [t \in Threads |-> 0]
    /\ pc = [w \in Workers |-> "new"]
    /\ worktodo = [w \in Workers |-> NoTask]
    /\ main = "init" /\ next = 1
    /\ cancelled = {} /\ done = {}

Next == ClientStep \/ Sleep \/ Terminated \/ \E w \in Workers : Step(w)

(* Every thread that can take a step takes one in the end.  Contention for *)
(* the mutex ends with the work, so that weak fairness is enough.  Sleep   *)
(* has no fairness: what has been submitted is executed while main sleeps, *)
(* however long that is.                                                   *)
Fairness == /\ WF_vars(ClientStep)
            /\ \A w \in Workers : WF_vars(Step(w))

Spec == Init /\ [][Next]_vars
FairSpec == Spec /\ Fairness

-----------------------------------------------------------------------------
(* Properties *)

TypeOK ==
    /\ queue \in [Slots -> Tasks \cup {NoTask}]
    /\ front \in Slots /\ rear \in Slots
    /\ count \in 0 .. QUEUE_SIZE
    /\ mutex \in Threads \cup {Unlocked}
    /\ available \in Nat
    /\ reg \in [Threads -> 0 .. QUEUE_SIZE]
    /\ pc \in [Workers -> {"new", "wait", "lock", "dequeue", "uncount", "execute", "exited"}]
    /\ worktodo \in [Workers -> Tasks \cup {NoTask}]
    /\ main \in {"init", "submit", "enqueue", "count", "post", "cancel", "join", "return"}
    /\ next \in Nat \ {0}
    /\ cancelled \in SUBSET Workers
    /\ done \in SUBSET (Tasks \cup {NoTask})

(* Workers that have taken a permit and not yet uncounted a task. *)
Arriving == {w \in Workers : pc[w] \in {"lock", "dequeue", "uncount"}}

(* Every queued task has exactly one permit: posted, held by a worker on   *)
(* its way to the queue, or about to be posted by pool_submit.  No wake-up *)
(* is lost and none is made up (threadpool.c:52, 63, 72, 98).              *)
PermitsMatchTasks ==
    count = available + Cardinality(Arriving) + (IF main = "post" THEN 1 ELSE 0)

(* dequeue does not test count, and never needs to: whoever enters it      *)
(* finds a task that was enqueued and not dequeued before                  *)
(* (threadpool.c:58-66).                                                   *)
DequeueFindsTask ==
    /\ TypeOK
    /\ \A w \in Workers : pc[w] = "dequeue" =>
          /\ count > 0
          /\ queue[front] \in Tasks \ done
          /\ \A v \in Workers : worktodo[v] # queue[front]

(* The worker whose dequeue has advanced front and not stored count. *)
Uncounting == {w \in Workers : pc[w] = "uncount"}

Pending == [i \in 1 .. count - Cardinality(Uncounting) |-> queue[(front + i - 1) % QUEUE_SIZE]]

Decided == CASE main = "init" -> 0
             [] main \in {"submit", "enqueue", "count"} -> next - 1
             [] main = "post" -> next
             [] OTHER -> Calls

Abstract == INSTANCE WorkQueue WITH
              Capacity <- QUEUE_SIZE, submitted <- Decided, pending <- Pending,
              running <- [w \in Workers |-> IF pc[w] \in {"uncount", "execute"}
                                            THEN worktodo[w] ELSE NoTask]

(* The pool accepts work while the queue has room, starts it in the order  *)
(* it was submitted, each piece once, and loses none of it but by a        *)
(* cancellation.                                                           *)
ImplementsWorkQueue == Abstract!Spec

(* As long as the pool is not shut down, work that was accepted is started *)
(* (threadpool.c:41-66, 72-75).                                            *)
AcceptedWorkStarts ==
    \A t \in Tasks :
        (\E i \in DOMAIN Pending : Pending[i] = t)
            ~> (cancelled # {} \/ \E w \in Workers : worktodo[w] = t)

(* pool_shutdown returns: a worker that waits, or has finished its task,   *)
(* is cancelled and can be joined (threadpool.c:114-119).                  *)
ShutdownReturns == (main = "cancel") ~> (main = "return")
=============================================================================
