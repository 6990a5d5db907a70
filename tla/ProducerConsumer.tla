--------------------------- MODULE ProducerConsumer ---------------------------
(***************************************************************************)
(* Project 5/producer_consumer: the bounded buffer of buffer.c and the     *)
(* threads of main.c that use it.                                          *)
(*                                                                         *)
(* main creates PRODUCER_NUM producers, then CONSUMER_NUM consumers,       *)
(* sleeps, and cancels and joins them one after the other.  A producer     *)
(* loops on insert_item, a consumer on remove_item; both take a permit     *)
(* from a semaphore, lock the mutex, update the ring, unlock the mutex     *)
(* and post the other semaphore.                                           *)
(*                                                                         *)
(* Cancellation is the deferred cancellation of POSIX threads: a thread    *)
(* with a pending request dies at its next cancellation point.  sleep and  *)
(* sem_wait always are such points; pthread_mutex_lock and sem_post never  *)
(* are; printf is one when it writes its buffer out.  The printf calls of  *)
(* buffer.c (lines 36 and 58) are made while the mutex is held, and no     *)
(* cleanup handler unlocks it.                                             *)
(***************************************************************************)
EXTENDS Integers, Sequences, FiniteSets

CONSTANTS BUFFER_SIZE,     \* slots of the ring
          PRODUCER_NUM,    \* argv[2]
          CONSUMER_NUM,    \* argv[3]
          Items,           \* the values rand() can return
          NoItem,          \* an uninitialised local variable `item'
          PrintfCancels    \* whether printf may act on a pending cancellation

ASSUME ConstantsAssumption ==
    /\ BUFFER_SIZE \in Nat \ {0}
    /\ PRODUCER_NUM \in Nat
    /\ CONSUMER_NUM \in Nat
    /\ NoItem \notin Items
    /\ PrintfCancels \in BOOLEAN

Slots     == 0 .. BUFFER_SIZE - 1
ThreadNum == PRODUCER_NUM + CONSUMER_NUM
Producers == 1 .. PRODUCER_NUM
Consumers == PRODUCER_NUM + 1 .. ThreadNum
Threads   == 1 .. ThreadNum      \* in the order main creates and joins them
Unlocked  == 0                   \* the owner of a free mutex

VARIABLES
    buffer, count, front, rear,  \* the ring (buffer.c:8-10)
    mutex,                       \* its owner, or Unlocked
    empty, full,                 \* the values of the semaphores
    pc,                          \* pc[t]: where thread t is
    item,                        \* item[t]: t's local variable `item'
    rv,                          \* rv[t]: t's local variable `rv'
    reported,                    \* "report error condition" has been printed
    main, next,                  \* where main is, and its loop variable
    cancelled                    \* threads main has called pthread_cancel for

ring == <<buffer, count, front, rear>>
sems == <<empty, full>>
vars == <<ring, mutex, sems, pc, item, rv, reported, main, next, cancelled>>

-----------------------------------------------------------------------------
(* Threads *)

Goto(t, from, to) == /\ pc[t] = from
                     /\ pc' = [pc EXCEPT ![t] = to]

(* The sleep of a producer (0.1 is truncated to 0) and item = rand(). *)
Produce(t) ==
    /\ t \in Producers \ cancelled
    /\ Goto(t, "sleep", "wait")
    /\ \E x \in Items : item' = [item EXCEPT ![t] = x]
    /\ UNCHANGED <<ring, mutex, sems, rv, reported, main, next, cancelled>>

(* The sleep of a consumer. *)
Awake(t) ==
    /\ t \in Consumers \ cancelled
    /\ Goto(t, "sleep", "wait")
    /\ UNCHANGED <<ring, mutex, sems, item, rv, reported, main, next, cancelled>>

(* sem_wait(&full) in remove_item. *)
WaitFull(t) ==
    /\ t \in Consumers \ cancelled
    /\ Goto(t, "wait", "lock")
    /\ full > 0
    /\ full' = full - 1
    /\ rv' = [rv EXCEPT ![t] = 1]
    /\ UNCHANGED <<ring, mutex, empty, item, reported, main, next, cancelled>>

(* Mutant: an insertion that takes no permit. *)
WaitEmptySkipped(t) ==
    /\ t \in Producers \ cancelled
    /\ Goto(t, "wait", "lock")
    /\ rv' = [rv EXCEPT ![t] = 1]
    /\ UNCHANGED <<ring, mutex, sems, item, reported, main, next, cancelled>>

(* sem_wait(&empty) in insert_item. *)
WaitEmpty(t) ==
    /\ t \in Producers \ cancelled
    /\ Goto(t, "wait", "lock")
    /\ empty > 0
    /\ empty' = empty - 1
    /\ rv' = [rv EXCEPT ![t] = 1]
    /\ UNCHANGED <<ring, mutex, full, item, reported, main, next, cancelled>>

(* Mutant: a critical section entered without the mutex. *)
LockSkipped(t) ==
    /\ Goto(t, "lock", "access")
    /\ mutex' = t
    /\ UNCHANGED <<ring, sems, item, rv, reported, main, next, cancelled>>

(* pthread_mutex_lock; a pending cancellation does not interrupt it. *)
Lock(t) ==
    /\ Goto(t, "lock", "access")
    /\ mutex = Unlocked
    /\ mutex' = t
    /\ UNCHANGED <<ring, sems, item, rv, reported, main, next, cancelled>>

NextSlot(i) == (i + 1) % BUFFER_SIZE

is_full  == count = BUFFER_SIZE
is_empty == count = 0

(* insert_item up to its printf: the item is stored and counted. *)
Store(t) ==
    /\ t \in Producers
    /\ Goto(t, "access", IF is_full THEN "unlock" ELSE "print")
    /\ buffer' = IF is_full THEN buffer ELSE [buffer EXCEPT ![rear] = item[t]]
    /\ count' = IF is_full THEN count ELSE count + 1
    /\ UNCHANGED <<front, rear, mutex, sems, item, rv, reported, main, next, cancelled>>

(* insert_item after its printf has returned. *)
AdvanceRear(t) ==
    /\ t \in Producers
    /\ Goto(t, "print", "unlock")
    /\ rear' = NextSlot(rear)
    /\ rv' = [rv EXCEPT ![t] = 0]
    /\ UNCHANGED <<buffer, count, front, mutex, sems, item, reported, main, next, cancelled>>

(* remove_item up to its printf: the item is read and no longer counted. *)
Fetch(t) ==
    /\ t \in Consumers
    /\ Goto(t, "access", IF is_empty THEN "unlock" ELSE "print")
    /\ item' = IF is_empty THEN item ELSE [item EXCEPT ![t] = buffer[front]]
    /\ count' = IF is_empty THEN count ELSE count - 1
    /\ UNCHANGED <<buffer, front, rear, mutex, sems, rv, reported, main, next, cancelled>>

(* remove_item after its printf has returned. *)
AdvanceFront(t) ==
    /\ t \in Consumers
    /\ Goto(t, "print", "unlock")
    /\ front' = NextSlot(front)
    /\ rv' = [rv EXCEPT ![t] = 0]
    /\ UNCHANGED <<buffer, count, rear, mutex, sems, item, reported, main, next, cancelled>>

(* Mutant: a return without pthread_mutex_unlock. *)
UnlockForgotten(t) ==
    /\ Goto(t, "unlock", "post")
    /\ UNCHANGED <<ring, mutex, sems, item, rv, reported, main, next, cancelled>>

Unlock(t) ==
    /\ Goto(t, "unlock", "post")
    /\ mutex' = Unlocked
    /\ UNCHANGED <<ring, sems, item, rv, reported, main, next, cancelled>>

(* Mutant: insert_item returns without sem_post(&full). *)
PostFullForgotten(t) ==
    /\ t \in Producers
    /\ Goto(t, "post", "sleep")
    /\ reported' = (reported \/ rv[t] # 0)
    /\ UNCHANGED <<ring, mutex, sems, item, rv, main, next, cancelled>>

(* sem_post(&full) in insert_item, the return, and the caller's test of    *)
(* the result; its fprintf is followed by the cancellation point `sleep'.  *)
PostFull(t) ==
    /\ t \in Producers
    /\ Goto(t, "post", "sleep")
    /\ full' = full + 1
    /\ reported' = (reported \/ rv[t] # 0)
    /\ UNCHANGED <<ring, mutex, empty, item, rv, main, next, cancelled>>

(* sem_post(&empty) in remove_item, the return, and the caller's test. *)
PostEmpty(t) ==
    /\ t \in Consumers
    /\ Goto(t, "post", "sleep")
    /\ empty' = empty + 1
    /\ reported' = (reported \/ rv[t] # 0)
    /\ UNCHANGED <<ring, mutex, full, item, rv, main, next, cancelled>>

(* A cancellation acted upon in sleep or sem_wait. *)
Cancelled(t) ==
    /\ t \in cancelled
    /\ pc[t] \in {"sleep", "wait"}
    /\ pc' = [pc EXCEPT ![t] = "exited"]
    /\ UNCHANGED <<ring, mutex, sems, item, rv, reported, main, next, cancelled>>

(* A cancellation acted upon in printf: the thread dies owning the mutex. *)
CancelledInPrintf(t) ==
    /\ PrintfCancels
    /\ t \in cancelled
    /\ Goto(t, "print", "exited")
    /\ UNCHANGED <<ring, mutex, sems, item, rv, reported, main, next, cancelled>>

Step(t) == \/ Produce(t) \/ WaitEmpty(t) \/ Store(t) \/ AdvanceRear(t) \/ PostFull(t)
           \/ Awake(t) \/ WaitFull(t) \/ Fetch(t) \/ AdvanceFront(t) \/ PostEmpty(t)
           \/ Lock(t) \/ Unlock(t)
           \/ Cancelled(t) \/ CancelledInPrintf(t)

-----------------------------------------------------------------------------
(* main *)

(* pthread_create in the two creation loops. *)
MainCreate ==
    /\ main = "create" /\ next \in Threads
    /\ pc' = [pc EXCEPT ![next] = "sleep"]
    /\ next' = next + 1
    /\ UNCHANGED <<ring, mutex, sems, item, rv, reported, main, cancelled>>

(* sleep(sleep_time) returns. *)
MainSleep ==
    /\ main = "create" /\ next \notin Threads
    /\ main' = "cancel"
    /\ next' = 1
    /\ UNCHANGED <<ring, mutex, sems, pc, item, rv, reported, cancelled>>

MainCancel ==
    /\ main = "cancel" /\ next \in Threads
    /\ cancelled' = cancelled \cup {next}
    /\ main' = "join"
    /\ UNCHANGED <<ring, mutex, sems, pc, item, rv, reported, next>>

MainJoin ==
    /\ main = "join"
    /\ pc[next] = "exited"
    /\ main' = "cancel"
    /\ next' = next + 1
    /\ UNCHANGED <<ring, mutex, sems, pc, item, rv, reported, cancelled>>

MainReturn ==
    /\ main = "cancel" /\ next \notin Threads
    /\ main' = "exit"
    /\ UNCHANGED <<ring, mutex, sems, pc, item, rv, reported, next, cancelled>>

(* The process has ended; any other state without a step is a deadlock. *)
Terminated == main = "exit" /\ UNCHANGED vars

MainStep == MainCreate \/ MainCancel \/ MainJoin \/ MainReturn

Init ==
    /\ buffer = [s \in Slots |-> NoItem]
    /\ count = 0 /\ front = 0 /\ rear = 0
    /\ mutex = Unlocked
    /\ empty = BUFFER_SIZE /\ full = 0
    /\ pc = [t \in Threads |-> "new"]
    /\ item = [t \in Threads |-> NoItem]
    /\ rv = [t \in Threads |-> 1]
    /\ reported = FALSE
    /\ main = "create" /\ next = 1
    /\ cancelled = {}

Next == MainStep \/ MainSleep \/ Terminated \/ \E t \in Threads : Step(t)

(* Every thread that can take a step takes one in the end.  Strong         *)
(* fairness of Lock: whoever waits for a mutex that is released again and  *)
(* again obtains it.  MainSleep has no fairness: sleep_time is any number. *)
Fairness == /\ WF_vars(MainStep)
            /\ \A t \in Threads : WF_vars(Step(t)) /\ SF_vars(Lock(t))

Spec == Init /\ [][Next]_vars
FairSpec == Spec /\ Fairness

-----------------------------------------------------------------------------
(* Properties *)

Labels == {"new", "sleep", "wait", "lock", "access", "print", "unlock", "post", "exited"}

TypeOK ==
    /\ buffer \in [Slots -> Items \cup {NoItem}]
    /\ count \in 0 .. BUFFER_SIZE /\ front \in Slots /\ rear \in Slots
    /\ mutex \in Threads \cup {Unlocked}
    /\ empty \in Nat /\ full \in Nat
    /\ pc \in [Threads -> Labels]
    /\ item \in [Threads -> Items \cup {NoItem}]
    /\ rv \in [Threads -> {0, 1}]
    /\ reported \in BOOLEAN
    /\ main \in {"create", "cancel", "join", "exit"}
    /\ next \in 1 .. ThreadNum + 1
    /\ cancelled \in SUBSET Threads

(* Inside the region the mutex protects. *)
Critical(t) == pc[t] \in {"access", "print", "unlock"}

(* The mutex does its work: buffer, count, front and rear are only ever    *)
(* touched by the owner of the mutex, one thread at a time (buffer.c:29-40 *)
(* and 51-62).                                                             *)
MutualExclusion == \A t \in Threads : Critical(t) => mutex = t

(* Took a permit, has not touched the ring yet. *)
Arriving(S) == {t \in S : pc[t] \in {"lock", "access"}}

(* Changed the ring, has not posted the other semaphore; a thread that was *)
(* cancelled in printf stays here for ever, as the owner of the mutex.     *)
Leaving(S) == {t \in S : \/ pc[t] \in {"print", "unlock", "post"}
                         \/ pc[t] = "exited" /\ mutex = t}

(* No permit is lost or made up: `empty' counts the free slots and `full'  *)
(* the filled ones, up to the threads between sem_wait and sem_post, also  *)
(* when threads are cancelled (buffer.c:28, 41, 50, 63).                   *)
PermitsMatchSlots ==
    /\ empty + Cardinality(Arriving(Producers))
             + Cardinality(Leaving(Consumers)) = BUFFER_SIZE - count
    /\ full + Cardinality(Arriving(Consumers))
            + Cardinality(Leaving(Producers)) = count

(* The tests is_full and is_empty never fire, so that no call of           *)
(* insert_item or remove_item fails and "report error condition" is never  *)
(* printed (buffer.c:30, 52; main.c:14, 27).                               *)
NoErrorReported ==
    /\ \A t \in Threads : pc[t] = "access" => IF t \in Producers THEN ~is_full ELSE ~is_empty
    /\ ~reported

(* Outside the critical sections the three indices agree: the filled slots *)
(* are the count slots from front on (buffer.c:10).                        *)
RingConsistent == mutex = Unlocked => rear = (front + count) % BUFFER_SIZE

(* Stopped, or dead, between its update of count and that of its index. *)
InPrintf(t) == mutex = t /\ pc[t] \in {"print", "exited"}

(* The distance from front to rear, while an index waits to be advanced. *)
Distance == IF \E t \in Producers : InPrintf(t) THEN count - 1
            ELSE IF \E t \in Consumers : InPrintf(t) THEN count + 1
            ELSE count

(* The invariant behind the proofs: the parts that make the properties     *)
(* above inductive.  Only a thread inside, or dead, owns the mutex; main's *)
(* loops visit each thread once; a call that reaches its end has           *)
(* succeeded; the indices agree up to the update under way; what is about  *)
(* to be inserted has been drawn (buffer.c:23-65, main.c:9-29, 57-72).     *)
InductiveInvariant ==
    /\ TypeOK
    /\ MutualExclusion
    /\ \A t \in Threads : mutex = t => Critical(t) \/ pc[t] = "exited"
    /\ main = "join" => next \in Threads
    /\ main = "create" => \A t \in Threads : t >= next => pc[t] = "new"
    /\ PermitsMatchSlots
    /\ ~reported /\ \A t \in Threads : pc[t] \in {"unlock", "post"} => rv[t] = 0
    /\ rear = (front + Distance) % BUFFER_SIZE
    /\ \A p \in Producers : pc[p] \in {"wait", "lock", "access"} => item[p] \in Items

(* A consumer that has read its item but not advanced front. *)
FrontIsStale == /\ mutex \in Consumers
                /\ pc[mutex] \in {"print", "exited"}

(* The contents of the ring, oldest first. *)
Contents ==
    LET first == IF FrontIsStale THEN NextSlot(front) ELSE front
    IN  [i \in 1 .. count |-> buffer[(first + i - 1) % BUFFER_SIZE]]

(* The item a producer has drawn and not inserted. *)
Offered == [p \in Producers |->
              IF pc[p] \in {"wait", "lock", "access"} THEN item[p] ELSE NoItem]

Abstract == INSTANCE BoundedBuffer WITH
              Capacity <- BUFFER_SIZE, queue <- Contents, offered <- Offered,
              taken <- [c \in Consumers |-> item[c]]

(* The ring, its semaphores and its mutex implement a bounded first-in     *)
(* first-out buffer: each item is inserted once, removed once, in order,   *)
(* whatever the interleaving and whenever threads are cancelled.           *)
ImplementsBoundedBuffer == Abstract!Spec

(* "5. Sleep / 6. Exit" (main.c:41-42): once main has slept, it cancels    *)
(* and joins every thread and returns.                                     *)
ExitsAfterSleep == (main = "cancel") ~> (main = "exit")

(* The same, but for the one thing that can go wrong: a thread that dies   *)
(* in printf takes the mutex with it, and those that wait for the mutex    *)
(* are never joined (buffer.c:36, main.c:66-72).                           *)
ExitsUnlessDiedInPrintf ==
    (main = "cancel") ~> \/ main = "exit"
                         \/ \E t \in Threads : mutex = t /\ pc[t] = "exited"

(* Producers and consumers keep each other going: while nobody has been    *)
(* cancelled, a full buffer is drained and an empty one filled again.      *)
BufferTurnsOver ==
    /\ (is_full /\ CONSUMER_NUM > 0) ~> (~is_full \/ cancelled # {})
    /\ (is_empty /\ PRODUCER_NUM > 0) ~> (~is_empty \/ cancelled # {})
=============================================================================
