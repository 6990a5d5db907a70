------------------------ MODULE ProducerConsumerProofs ------------------------
(***************************************************************************)
(* The safety properties of ProducerConsumer, and that it implements       *)
(* BoundedBuffer, for every buffer size, every number of producers and     *)
(* consumers and every set of items, and whether or not printf is a        *)
(* cancellation point.                                                     *)
(***************************************************************************)
EXTENDS ProducerConsumer, Arithmetic, FiniteSetTheorems, SequenceTheorems, TLAPS

(* The producers and the consumers are two disjoint sets of threads, and   *)
(* no thread is the owner of a free mutex (main.c:57-62).                  *)
LEMMA ThreadSets ==
    /\ ThreadNum \in Nat
    /\ Threads = Producers \cup Consumers
    /\ Producers \cap Consumers = {}
    /\ Unlocked \notin Threads
BY ConstantsAssumption DEF ThreadNum, Threads, Producers, Consumers, Unlocked

(* The next slot of a slot is a slot (buffer.c:38, 60). *)
LEMMA NextSlotType == \A s \in Slots : NextSlot(s) \in Slots
BY ConstantsAssumption DEF Slots, NextSlot

(* Any set of threads selected from the producers or from the consumers is *)
(* finite, so that its size is a number (buffer.c:28, 50).                 *)
LEMMA ThreadSetsAreFinite ==
    ASSUME NEW S, S = Producers \/ S = Consumers
    PROVE  /\ IsFiniteSet(Arriving(S)) /\ Cardinality(Arriving(S)) \in Nat
           /\ IsFiniteSet(Leaving(S)) /\ Cardinality(Leaving(S)) \in Nat
<1>1. IsFiniteSet(S)
  BY FS_Interval, ConstantsAssumption DEF Producers, Consumers, ThreadNum
<1>2. Arriving(S) \in SUBSET S /\ Leaving(S) \in SUBSET S
  BY DEF Arriving, Leaving
<1> QED BY <1>1, <1>2, FS_Subset, FS_CardinalityType

-----------------------------------------------------------------------------
(* Type correctness *)

(* main's loop variable is the number of a thread whenever main joins one  *)
(* (main.c:65-72); what TypeOK needs to be inductive.                      *)
TypeInvariant == TypeOK /\ (main = "join" => next \in Threads)

(* Every step keeps the types: in particular count stays between 0 and     *)
(* BUFFER_SIZE and the indices stay within the buffer (buffer.c:23-65).    *)
LEMMA TypeStep == TypeInvariant /\ [Next]_vars => TypeInvariant'
<1> SUFFICES ASSUME TypeInvariant, [Next]_vars PROVE TypeInvariant'
  OBVIOUS
<1> USE ConstantsAssumption, ThreadSets DEF TypeInvariant, TypeOK, Labels
<1>1. CASE MainStep
  <2>1. CASE MainCreate
    BY <2>1 DEF MainCreate, ring, sems, Threads
  <2>2. CASE MainCancel
    BY <2>2 DEF MainCancel, ring, sems
  <2>3. CASE MainJoin
    BY <2>3 DEF MainJoin, ring, sems, Threads
  <2>4. CASE MainReturn
    BY <2>4 DEF MainReturn, ring, sems
  <2> QED BY <1>1, <2>1, <2>2, <2>3, <2>4 DEF MainStep
<1>2. CASE MainSleep
  BY <1>2 DEF MainSleep, ring, sems
<1>3. CASE UNCHANGED vars
  BY <1>3 DEF vars, ring, sems
<1>4. ASSUME NEW t \in Threads, Step(t) PROVE TypeInvariant'
  <2>1. CASE Produce(t)
    BY <2>1 DEF Produce, Goto, ring, sems
  <2>2. CASE WaitEmpty(t)
    BY <2>2 DEF WaitEmpty, Goto, ring
  <2>3. CASE Store(t)
    BY <2>3 DEF Store, Goto, is_full, sems
  <2>4. CASE AdvanceRear(t)
    BY <2>4, NextSlotType DEF AdvanceRear, Goto, sems
  <2>5. CASE PostFull(t)
    BY <2>5 DEF PostFull, Goto, ring
  <2>6. CASE Awake(t)
    BY <2>6 DEF Awake, Goto, ring, sems
  <2>7. CASE WaitFull(t)
    BY <2>7 DEF WaitFull, Goto, ring
  <2>8. CASE Fetch(t)
    BY <2>8 DEF Fetch, Goto, is_empty, sems, Slots
  <2>9. CASE AdvanceFront(t)
    BY <2>9, NextSlotType DEF AdvanceFront, Goto, sems
  <2>10. CASE PostEmpty(t)
    BY <2>10 DEF PostEmpty, Goto, ring
  <2>11. CASE Lock(t)
    BY <2>11 DEF Lock, Goto, ring, sems
  <2>12. CASE Unlock(t)
    BY <2>12 DEF Unlock, Goto, ring, sems
  <2>13. CASE Cancelled(t)
    BY <2>13 DEF Cancelled, ring, sems
  <2>14. CASE CancelledInPrintf(t)
    BY <2>14 DEF CancelledInPrintf, Goto, ring, sems
  <2> QED BY <1>4, <2>1, <2>2, <2>3, <2>4, <2>5, <2>6, <2>7, <2>8, <2>9, <2>10,
             <2>11, <2>12, <2>13, <2>14 DEF Step
<1> QED BY <1>1, <1>2, <1>3, <1>4 DEF Next, Terminated

(* The initial state has the types (buffer.c:67-71, main.c:48-62). *)
LEMMA TypeInit == Init => TypeInvariant
<1> SUFFICES ASSUME Init PROVE TypeInvariant
  OBVIOUS
<1>1. 0 \in Slots
  BY ConstantsAssumption DEF Slots
<1>2. buffer \in [Slots -> Items \cup {NoItem}]
  BY DEF Init
<1>3. /\ pc \in [Threads -> Labels]
      /\ item \in [Threads -> Items \cup {NoItem}]
      /\ rv \in [Threads -> {0, 1}]
  BY DEF Init, Labels
<1>4. next \in 1 .. ThreadNum + 1 /\ count \in 0 .. BUFFER_SIZE /\ empty \in Nat /\ full \in Nat
  BY ConstantsAssumption, ThreadSets DEF Init
<1>5. /\ reported \in BOOLEAN /\ cancelled \in SUBSET Threads /\ mutex \in Threads \cup {Unlocked}
      /\ main \in {"create", "cancel", "join", "exit"} /\ (main = "join" => next \in Threads)
  BY DEF Init
<1>6. front \in Slots /\ rear \in Slots
  BY <1>1 DEF Init
<1> QED BY <1>2, <1>3, <1>4, <1>5, <1>6 DEF TypeInvariant, TypeOK

(* All reachable states are well typed; that count stays in 0 .. BUFFER_SIZE *)
(* and front and rear in the buffer is part of it (buffer.c:10-65).          *)
THEOREM TypeCorrect == Spec => []TypeOK
<1>1. TypeInvariant => TypeOK
  BY DEF TypeInvariant
<1> QED BY <1>1, TypeInit, TypeStep, PTL DEF Spec

-----------------------------------------------------------------------------
(* Mutual exclusion *)

(* Only a thread inside the critical section, or one that died there, owns *)
(* the mutex (buffer.c:29, 40, 51, 62).                                    *)
OwnerIsInside == \A t \in Threads : mutex = t => Critical(t) \/ pc[t] = "exited"

(* Threads that main has not created yet have not started (main.c:57-62). *)
NotCreatedYet == main = "create" => \A t \in Threads : t >= next => pc[t] = "new"

MutexInvariant == TypeInvariant /\ MutualExclusion /\ OwnerIsInside /\ NotCreatedYet

(* What a step of thread t does to the program counters of the others:     *)
(* nothing (buffer.c:23-65).                                               *)
LEMMA OthersStay ==
    ASSUME TypeInvariant, NEW t \in Threads, Step(t)
    PROVE  /\ \A u \in Threads \ {t} : pc'[u] = pc[u]
           /\ pc[t] # "new" /\ pc'[t] # "new"
           /\ main' = main /\ next' = next
BY DEF TypeInvariant, TypeOK, Step, Produce, Awake, WaitEmpty, WaitFull, Lock, Store, AdvanceRear,
       Fetch, AdvanceFront, Unlock, PostFull, PostEmpty, Cancelled, CancelledInPrintf, Goto

(* Every step keeps the mutex with at most one thread inside               *)
(* (buffer.c:29-40, 51-62).                                                *)
LEMMA MutexStep == MutexInvariant /\ [Next]_vars => MutexInvariant'
<1> SUFFICES ASSUME MutexInvariant, [Next]_vars PROVE MutexInvariant'
  OBVIOUS
<1>1. TypeInvariant'
  BY TypeStep DEF MutexInvariant
<1> USE ThreadSets DEF MutexInvariant, TypeInvariant, TypeOK, MutualExclusion, OwnerIsInside,
        NotCreatedYet, Critical
<1>2. CASE MainStep
  <2>1. CASE MainCreate
    <3>1. next \in Threads /\ pc[next] = "new" /\ pc' = [pc EXCEPT ![next] = "sleep"]
      BY <2>1 DEF MainCreate, Threads
    <3>2. mutex' = mutex /\ main' = main /\ next' = next + 1
      BY <2>1 DEF MainCreate
    <3>3. NotCreatedYet'
      BY <2>1, <3>1, <3>2 DEF MainCreate, Threads
    <3>4. MutualExclusion' /\ OwnerIsInside'
      BY <3>1, <3>2
    <3> QED BY <1>1, <3>3, <3>4
  <2>2. CASE MainCancel \/ MainJoin \/ MainReturn
    BY <1>1, <2>2 DEF MainCancel, MainJoin, MainReturn
  <2> QED BY <1>2, <2>1, <2>2 DEF MainStep
<1>3. CASE MainSleep
  BY <1>1, <1>3 DEF MainSleep
<1>4. CASE UNCHANGED vars
  BY <1>1, <1>4 DEF vars
<1>5. ASSUME NEW t \in Threads, Step(t) PROVE MutexInvariant'
  <2>1. NotCreatedYet'
    BY <1>5, OthersStay
  <2>2. CASE Lock(t)
    BY <1>1, <2>1, <2>2 DEF Lock, Goto
  <2>3. CASE Unlock(t)
    BY <1>1, <2>1, <2>3 DEF Unlock, Goto
  <2>4. CASE Store(t) \/ Fetch(t) \/ AdvanceRear(t) \/ AdvanceFront(t) \/ CancelledInPrintf(t)
    BY <1>1, <2>1, <2>4 DEF Store, Fetch, AdvanceRear, AdvanceFront, CancelledInPrintf, Goto
  <2>5. CASE Produce(t) \/ Awake(t) \/ WaitEmpty(t) \/ WaitFull(t) \/ PostFull(t) \/ PostEmpty(t)
    BY <1>1, <2>1, <2>5 DEF Produce, Awake, WaitEmpty, WaitFull, PostFull, PostEmpty, Goto
  <2>6. CASE Cancelled(t)
    BY <1>1, <2>1, <2>6 DEF Cancelled
  <2> QED BY <1>5, <2>2, <2>3, <2>4, <2>5, <2>6 DEF Step
<1> QED BY <1>2, <1>3, <1>4, <1>5 DEF Next, Terminated

(* At the start nobody is inside and the mutex is free (main.c:48-62). *)
LEMMA MutexInit == Init => MutexInvariant
BY TypeInit, ThreadSets
   DEF Init, MutexInvariant, MutualExclusion, OwnerIsInside, NotCreatedYet, Critical

(* Buffer, count, front and rear are only touched by the owner of the      *)
(* mutex, one thread at a time (buffer.c:29-40, 51-62).                    *)
THEOREM MutexCorrect == Spec => []MutualExclusion
<1>1. MutexInvariant => MutualExclusion
  BY DEF MutexInvariant
<1> QED BY <1>1, MutexInit, MutexStep, PTL DEF Spec

-----------------------------------------------------------------------------
(* The permits *)

PermitInvariant == MutexInvariant /\ PermitsMatchSlots

(* A producer about to insert finds room and a consumer about to remove    *)
(* finds an item: its permit is one of those the invariant counts          *)
(* (buffer.c:30, 52).                                                      *)
LEMMA TestsNeverFire ==
    ASSUME PermitInvariant, NEW t \in Threads, pc[t] = "access"
    PROVE  IF t \in Producers THEN ~is_full ELSE ~is_empty
<1> USE ConstantsAssumption, ThreadSets
<1>1. ASSUME NEW S, S = Producers \/ S = Consumers, t \in S
      PROVE  Cardinality(Arriving(S)) > 0
  <2>1. t \in Arriving(S)
    BY <1>1 DEF Arriving
  <2> QED BY <1>1, <2>1, ThreadSetsAreFinite, FS_EmptySet
<1>2. CASE t \in Producers
  BY <1>1, <1>2, ThreadSetsAreFinite
     DEF PermitInvariant, PermitsMatchSlots, MutexInvariant, TypeInvariant, TypeOK, is_full
<1>3. CASE t \in Consumers
  BY <1>1, <1>3, ThreadSetsAreFinite
     DEF PermitInvariant, PermitsMatchSlots, MutexInvariant, TypeInvariant, TypeOK, is_empty
<1> QED BY <1>2, <1>3

(* Steps that move no thread across a sem_wait, a sem_post or the update   *)
(* of count leave the permits as they are (buffer.c:28-41, 50-63).         *)
LEMMA PermitsKept ==
    ASSUME PermitsMatchSlots, UNCHANGED <<count, empty, full>>,
           Arriving(Producers)' = Arriving(Producers), Leaving(Producers)' = Leaving(Producers),
           Arriving(Consumers)' = Arriving(Consumers), Leaving(Consumers)' = Leaving(Consumers)
    PROVE  PermitsMatchSlots'
BY DEF PermitsMatchSlots

(* Every step keeps the permits in agreement with the slots: sem_wait and  *)
(* sem_post move a permit to and from the thread, the update of count      *)
(* turns a claim to a slot into a slot (buffer.c:28, 32-35, 41).           *)
LEMMA PermitStep == PermitInvariant /\ [Next]_vars => PermitInvariant'
<1> SUFFICES ASSUME PermitInvariant, [Next]_vars PROVE PermitInvariant'
  OBVIOUS
<1>1. MutexInvariant'
  BY MutexStep DEF PermitInvariant
<1> SUFFICES PermitsMatchSlots'
  BY <1>1 DEF PermitInvariant
<1> USE ThreadSets
<1>t. /\ count \in Nat /\ empty \in Nat /\ full \in Nat /\ BUFFER_SIZE \in Nat
      /\ pc \in [Threads -> Labels] /\ mutex \in Threads \cup {Unlocked}
  BY ConstantsAssumption DEF PermitInvariant, MutexInvariant, TypeInvariant, TypeOK
<1>m. MutualExclusion /\ OwnerIsInside /\ NotCreatedYet /\ PermitsMatchSlots
  BY DEF PermitInvariant, MutexInvariant
<1>f. \A S \in {Producers, Consumers} :
        /\ IsFiniteSet(Arriving(S)) /\ Cardinality(Arriving(S)) \in Nat
        /\ IsFiniteSet(Leaving(S)) /\ Cardinality(Leaving(S)) \in Nat
  BY ThreadSetsAreFinite
<1>2. CASE MainStep
  <2>1. CASE MainCreate
    <3>1. /\ next \in Threads /\ pc[next] = "new" /\ pc' = [pc EXCEPT ![next] = "sleep"]
          /\ mutex' = mutex /\ mutex # next
      BY <2>1, <1>t, <1>m
         DEF MainCreate, Threads, NotCreatedYet, OwnerIsInside, Critical,
             PermitInvariant, MutexInvariant, TypeInvariant, TypeOK
    <3> QED BY <2>1, <3>1, <1>t, <1>m, PermitsKept DEF MainCreate, ring, sems, Arriving, Leaving
  <2>2. CASE MainCancel \/ MainJoin \/ MainReturn
    BY <2>2, <1>m, PermitsKept DEF MainCancel, MainJoin, MainReturn, ring, sems, Arriving, Leaving
  <2> QED BY <1>2, <2>1, <2>2 DEF MainStep
<1>3. CASE MainSleep
  BY <1>3, <1>m, PermitsKept DEF MainSleep, ring, sems, Arriving, Leaving
<1>4. CASE UNCHANGED vars
  BY <1>4, <1>m, PermitsKept DEF vars, ring, sems, Arriving, Leaving
<1>5. ASSUME NEW t \in Threads, Step(t) PROVE PermitsMatchSlots'
  <2>1. CASE \/ Produce(t) \/ Awake(t) \/ AdvanceRear(t) \/ AdvanceFront(t) \/ Unlock(t)
             \/ CancelledInPrintf(t)
    BY <2>1, <1>t, <1>m, PermitsKept
       DEF Produce, Awake, AdvanceRear, AdvanceFront, Unlock, CancelledInPrintf, Goto, ring, sems,
           Arriving, Leaving, MutualExclusion, Critical
  <2>2. CASE Lock(t)
    BY <2>2, <1>t, <1>m, PermitsKept DEF Lock, Goto, ring, sems, Arriving, Leaving
  <2>3. CASE Cancelled(t)
    BY <2>3, <1>t, <1>m, PermitsKept
       DEF Cancelled, ring, sems, Arriving, Leaving, OwnerIsInside, Critical
  <2>4. CASE WaitEmpty(t)
    <3>1. /\ Arriving(Producers)' = Arriving(Producers) \cup {t} /\ t \notin Arriving(Producers)
          /\ Arriving(Consumers)' = Arriving(Consumers)
          /\ Leaving(Producers)' = Leaving(Producers) /\ Leaving(Consumers)' = Leaving(Consumers)
      BY <2>4, <1>t, <1>m DEF WaitEmpty, Goto, ring, Arriving, Leaving, MutualExclusion, Critical
    <3>2. Cardinality(Arriving(Producers)') = Cardinality(Arriving(Producers)) + 1
      BY <3>1, <1>f, FS_AddElement
    <3>3. count' = count /\ empty > 0 /\ empty' = empty - 1 /\ full' = full
      BY <2>4 DEF WaitEmpty, ring
    <3> QED BY <3>1, <3>2, <3>3, <1>t, <1>m, <1>f DEF PermitsMatchSlots
  <2>5. CASE WaitFull(t)
    <3>1. /\ Arriving(Consumers)' = Arriving(Consumers) \cup {t} /\ t \notin Arriving(Consumers)
          /\ Arriving(Producers)' = Arriving(Producers)
          /\ Leaving(Producers)' = Leaving(Producers) /\ Leaving(Consumers)' = Leaving(Consumers)
      BY <2>5, <1>t, <1>m DEF WaitFull, Goto, ring, Arriving, Leaving, MutualExclusion, Critical
    <3>2. Cardinality(Arriving(Consumers)') = Cardinality(Arriving(Consumers)) + 1
      BY <3>1, <1>f, FS_AddElement
    <3>3. count' = count /\ full > 0 /\ full' = full - 1 /\ empty' = empty
      BY <2>5 DEF WaitFull, ring
    <3> QED BY <3>1, <3>2, <3>3, <1>t, <1>m, <1>f DEF PermitsMatchSlots
  <2>6. CASE Store(t)
    <3>1. ~is_full
      BY <2>6, TestsNeverFire DEF Store, Goto
    <3>2. /\ Arriving(Producers)' = Arriving(Producers) \ {t} /\ t \in Arriving(Producers)
          /\ Leaving(Producers)' = Leaving(Producers) \cup {t} /\ t \notin Leaving(Producers)
          /\ Arriving(Consumers)' = Arriving(Consumers) /\ Leaving(Consumers)' = Leaving(Consumers)
      BY <2>6, <3>1, <1>t, <1>m DEF Store, Goto, Arriving, Leaving, MutualExclusion, Critical
    <3>3. Cardinality(Arriving(Producers)') = Cardinality(Arriving(Producers)) - 1
      BY <3>2, <1>f, FS_RemoveElement
    <3>4. Cardinality(Leaving(Producers)') = Cardinality(Leaving(Producers)) + 1
      BY <3>2, <1>f, FS_AddElement
    <3>5. count' = count + 1 /\ empty' = empty /\ full' = full
      BY <2>6, <3>1 DEF Store, sems
    <3> QED BY <3>2, <3>3, <3>4, <3>5, <1>t, <1>m, <1>f DEF PermitsMatchSlots
  <2>7. CASE Fetch(t)
    <3>1. ~is_empty
      BY <2>7, TestsNeverFire DEF Fetch, Goto
    <3>2. /\ Arriving(Consumers)' = Arriving(Consumers) \ {t} /\ t \in Arriving(Consumers)
          /\ Leaving(Consumers)' = Leaving(Consumers) \cup {t} /\ t \notin Leaving(Consumers)
          /\ Arriving(Producers)' = Arriving(Producers) /\ Leaving(Producers)' = Leaving(Producers)
      BY <2>7, <3>1, <1>t, <1>m DEF Fetch, Goto, Arriving, Leaving, MutualExclusion, Critical
    <3>3. Cardinality(Arriving(Consumers)') = Cardinality(Arriving(Consumers)) - 1
      BY <3>2, <1>f, FS_RemoveElement
    <3>4. Cardinality(Leaving(Consumers)') = Cardinality(Leaving(Consumers)) + 1
      BY <3>2, <1>f, FS_AddElement
    <3>5. count' = count - 1 /\ empty' = empty /\ full' = full
      BY <2>7, <3>1 DEF Fetch, sems
    <3> QED BY <3>2, <3>3, <3>4, <3>5, <1>t, <1>m, <1>f DEF PermitsMatchSlots
  <2>8. CASE PostFull(t)
    <3>1. /\ Leaving(Producers)' = Leaving(Producers) \ {t} /\ t \in Leaving(Producers)
          /\ Arriving(Producers)' = Arriving(Producers)
          /\ Arriving(Consumers)' = Arriving(Consumers) /\ Leaving(Consumers)' = Leaving(Consumers)
      BY <2>8, <1>t, <1>m DEF PostFull, Goto, ring, Arriving, Leaving, MutualExclusion, Critical
    <3>2. Cardinality(Leaving(Producers)') = Cardinality(Leaving(Producers)) - 1
      BY <3>1, <1>f, FS_RemoveElement
    <3>3. count' = count /\ full' = full + 1 /\ empty' = empty
      BY <2>8 DEF PostFull, ring
    <3> QED BY <3>1, <3>2, <3>3, <1>t, <1>m, <1>f DEF PermitsMatchSlots
  <2>9. CASE PostEmpty(t)
    <3>1. /\ Leaving(Consumers)' = Leaving(Consumers) \ {t} /\ t \in Leaving(Consumers)
          /\ Arriving(Consumers)' = Arriving(Consumers)
          /\ Arriving(Producers)' = Arriving(Producers) /\ Leaving(Producers)' = Leaving(Producers)
      BY <2>9, <1>t, <1>m DEF PostEmpty, Goto, ring, Arriving, Leaving, MutualExclusion, Critical
    <3>2. Cardinality(Leaving(Consumers)') = Cardinality(Leaving(Consumers)) - 1
      BY <3>1, <1>f, FS_RemoveElement
    <3>3. count' = count /\ empty' = empty + 1 /\ full' = full
      BY <2>9 DEF PostEmpty, ring
    <3> QED BY <3>1, <3>2, <3>3, <1>t, <1>m, <1>f DEF PermitsMatchSlots
  <2> QED BY <1>5, <2>1, <2>2, <2>3, <2>4, <2>5, <2>6, <2>7, <2>8, <2>9 DEF Step
<1> QED BY <1>2, <1>3, <1>4, <1>5 DEF Next, Terminated

(* init_buffer gives `empty' a permit for each slot (buffer.c:67-71). *)
LEMMA PermitInit == Init => PermitInvariant
<1> SUFFICES ASSUME Init PROVE PermitInvariant
  OBVIOUS
<1>1. \A S : S = Producers \/ S = Consumers => Arriving(S) = {} /\ Leaving(S) = {}
  BY ThreadSets DEF Init, Arriving, Leaving
<1>2. PermitsMatchSlots
  BY <1>1, FS_EmptySet, ConstantsAssumption DEF Init, PermitsMatchSlots
<1> QED BY <1>2, MutexInit DEF PermitInvariant

(* No permit is ever lost or made up, also when threads are cancelled: the *)
(* semaphores and the threads between their sem_wait and sem_post account  *)
(* for every slot (buffer.c:28, 41, 50, 63).                               *)
THEOREM PermitsCorrect == Spec => []PermitsMatchSlots
<1>1. PermitInvariant => PermitsMatchSlots
  BY DEF PermitInvariant
<1> QED BY <1>1, PermitInit, PermitStep, PTL DEF Spec

-----------------------------------------------------------------------------
(* No call fails *)

(* A call of insert_item or remove_item that has passed its critical       *)
(* section has set rv to 0 (buffer.c:39, 61).                              *)
CallsSucceed == ~reported /\ \A t \in Threads : pc[t] \in {"unlock", "post"} => rv[t] = 0

CallInvariant == PermitInvariant /\ CallsSucceed

(* Every step keeps the calls successful, because the tests of count never *)
(* fire (buffer.c:30, 52; main.c:14, 27).                                  *)
LEMMA CallStep == CallInvariant /\ [Next]_vars => CallInvariant'
<1> SUFFICES ASSUME CallInvariant, [Next]_vars PROVE CallInvariant'
  OBVIOUS
<1>1. PermitInvariant'
  BY PermitStep DEF CallInvariant
<1> SUFFICES CallsSucceed'
  BY <1>1 DEF CallInvariant
<1>t. pc \in [Threads -> Labels] /\ rv \in [Threads -> {0, 1}] /\ TypeInvariant /\ CallsSucceed
  BY DEF CallInvariant, PermitInvariant, MutexInvariant, TypeInvariant, TypeOK
<1>2. CASE MainStep \/ MainSleep \/ UNCHANGED vars
  BY <1>2, <1>t
     DEF MainStep, MainCreate, MainCancel, MainJoin, MainReturn, MainSleep, vars, CallsSucceed
<1>3. ASSUME NEW t \in Threads, Step(t) PROVE CallsSucceed'
  <2>1. CASE Store(t) \/ Fetch(t)
    <3>1. Producers \cap Consumers = {}
      BY ThreadSets
    <3>2. pc' = [pc EXCEPT ![t] = "print"]
      BY <2>1, <3>1, TestsNeverFire DEF Store, Fetch, Goto, CallInvariant
    <3> QED BY <2>1, <3>2, <1>t DEF Store, Fetch, CallsSucceed
  <2>2. CASE AdvanceRear(t) \/ AdvanceFront(t)
    BY <2>2, <1>t DEF AdvanceRear, AdvanceFront, Goto, CallsSucceed
  <2>3. CASE PostFull(t) \/ PostEmpty(t)
    BY <2>3, <1>t DEF PostFull, PostEmpty, Goto, CallsSucceed
  <2>4. CASE Produce(t) \/ Awake(t) \/ WaitEmpty(t) \/ WaitFull(t) \/ Lock(t) \/ Unlock(t)
    BY <2>4, <1>t DEF Produce, Awake, WaitEmpty, WaitFull, Lock, Unlock, Goto, CallsSucceed
  <2>5. CASE Cancelled(t) \/ CancelledInPrintf(t)
    BY <2>5, <1>t DEF Cancelled, CancelledInPrintf, Goto, CallsSucceed
  <2> QED BY <1>3, <2>1, <2>2, <2>3, <2>4, <2>5 DEF Step
<1> QED BY <1>2, <1>3 DEF Next, Terminated

(* Nothing has been reported at the start (main.c:48-62). *)
LEMMA CallInit == Init => CallInvariant
<1> SUFFICES ASSUME Init PROVE CallInvariant
  OBVIOUS
<1>1. CallsSucceed
  BY DEF Init, CallsSucceed
<1> QED BY <1>1, PermitInit DEF CallInvariant

(* "report error condition" is never printed, and the tests of count that  *)
(* would lead to it never fire (buffer.c:30, 52; main.c:14, 27).           *)
THEOREM NoErrorCorrect == Spec => []NoErrorReported
<1>1. CallInvariant => NoErrorReported
  BY TestsNeverFire DEF CallInvariant, CallsSucceed, NoErrorReported
<1> QED BY <1>1, CallInit, CallStep, PTL DEF Spec

-----------------------------------------------------------------------------
(* The ring *)

RingInvariant == CallInvariant /\ rear = (front + Distance) % BUFFER_SIZE

(* Steps that move no thread into or out of the part between the update of *)
(* count and that of an index keep the distance (buffer.c:32-38, 54-60).   *)
LEMMA DistanceKept ==
    ASSUME RingInvariant, UNCHANGED <<count, front, rear>>,
           \A u \in Threads : InPrintf(u)' <=> InPrintf(u)
    PROVE  rear' = (front' + Distance') % BUFFER_SIZE
<1>1. (\E u \in Producers : InPrintf(u)') <=> (\E u \in Producers : InPrintf(u))
  BY ThreadSets
<1>2. (\E u \in Consumers : InPrintf(u)') <=> (\E u \in Consumers : InPrintf(u))
  BY ThreadSets
<1> QED BY <1>1, <1>2 DEF RingInvariant, Distance

(* The distance between the indices when the owner of the mutex is known   *)
(* (buffer.c:32-38, 54-60).                                                *)
LEMMA DistanceOf ==
    ASSUME NEW t \in Threads, mutex = t
    PROVE  Distance = IF pc[t] \notin {"print", "exited"} THEN count
                      ELSE IF t \in Producers THEN count - 1 ELSE count + 1
BY ThreadSets DEF Distance, InPrintf

(* Every step keeps the two indices and the count in agreement             *)
(* (buffer.c:32-38, 54-60).                                                *)
LEMMA RingStep == RingInvariant /\ [Next]_vars => RingInvariant'
<1> SUFFICES ASSUME RingInvariant, [Next]_vars PROVE RingInvariant'
  OBVIOUS
<1>1. CallInvariant'
  BY CallStep DEF RingInvariant
<1> SUFFICES rear' = (front' + Distance') % BUFFER_SIZE
  BY <1>1 DEF RingInvariant
<1> USE ThreadSets
<1>t. /\ TypeInvariant /\ MutualExclusion /\ OwnerIsInside /\ NotCreatedYet /\ PermitsMatchSlots
      /\ TypeInvariant' /\ MutualExclusion'
      /\ pc \in [Threads -> Labels] /\ mutex \in Threads \cup {Unlocked}
      /\ count \in 0 .. BUFFER_SIZE /\ BUFFER_SIZE \in Nat \ {0} /\ empty \in Nat /\ full \in Nat
      /\ front \in 0 .. BUFFER_SIZE - 1
  BY <1>1, ConstantsAssumption
     DEF RingInvariant, CallInvariant, PermitInvariant, MutexInvariant, TypeInvariant, TypeOK, Slots
<1>2. CASE MainStep
  <2>1. CASE MainCreate
    <3>1. /\ next \in Threads /\ pc[next] = "new" /\ pc' = [pc EXCEPT ![next] = "sleep"]
          /\ mutex' = mutex /\ mutex # next
      BY <2>1, <1>t
         DEF MainCreate, Threads, NotCreatedYet, OwnerIsInside, Critical, TypeInvariant, TypeOK
    <3>2. \A u \in Threads : InPrintf(u)' <=> InPrintf(u)
      BY <3>1, <1>t DEF InPrintf
    <3> QED BY <2>1, <3>2, DistanceKept DEF MainCreate, ring
  <2>2. CASE MainCancel \/ MainJoin \/ MainReturn
    BY <2>2, DistanceKept DEF MainCancel, MainJoin, MainReturn, ring, InPrintf
  <2> QED BY <1>2, <2>1, <2>2 DEF MainStep
<1>3. CASE MainSleep \/ UNCHANGED vars
  BY <1>3, DistanceKept DEF MainSleep, vars, ring, InPrintf
<1>4. ASSUME NEW t \in Threads, Step(t) PROVE rear' = (front' + Distance') % BUFFER_SIZE
  <2>1. CASE \/ Produce(t) \/ Awake(t) \/ WaitEmpty(t) \/ WaitFull(t)
             \/ PostFull(t) \/ PostEmpty(t) \/ Cancelled(t)
    <3>1. mutex # t /\ mutex' = mutex
      BY <2>1, <1>t DEF Produce, Awake, WaitEmpty, WaitFull, PostFull, PostEmpty, Cancelled, Goto,
                        OwnerIsInside, Critical
    <3>2. \A u \in Threads : InPrintf(u)' <=> InPrintf(u)
      BY <3>1, <1>4, <1>t, OthersStay DEF InPrintf
    <3>3. UNCHANGED <<count, front, rear>>
      BY <2>1 DEF Produce, Awake, WaitEmpty, WaitFull, PostFull, PostEmpty, Cancelled, ring
    <3> QED BY <3>2, <3>3, DistanceKept
  <2>2. CASE Lock(t) \/ Unlock(t)
    <3>1. \A u \in Threads : ~InPrintf(u) /\ ~InPrintf(u)'
      BY <2>2, <1>t DEF Lock, Unlock, Goto, InPrintf, MutualExclusion, Critical
    <3>2. UNCHANGED <<count, front, rear>>
      BY <2>2 DEF Lock, Unlock, ring
    <3> QED BY <3>1, <3>2, DistanceKept
  <2>3. CASE CancelledInPrintf(t)
    <3>1. \A u \in Threads : InPrintf(u)' <=> InPrintf(u)
      BY <2>3, <1>t DEF CancelledInPrintf, Goto, InPrintf
    <3> QED BY <2>3, <3>1, DistanceKept DEF CancelledInPrintf, ring
  <2>4. CASE Store(t)
    <3>1. t \in Producers /\ pc[t] = "access" /\ ~is_full
      BY <2>4, TestsNeverFire DEF Store, Goto, RingInvariant, CallInvariant
    <3>2. /\ mutex = t /\ mutex' = t /\ pc'[t] = "print"
          /\ count' = count + 1 /\ front' = front /\ rear' = rear
      BY <2>4, <3>1, <1>t DEF Store, Goto, MutualExclusion, Critical
    <3>3. Distance = count /\ Distance' = count' - 1
      BY <3>1, <3>2, DistanceOf DEF Distance, InPrintf
    <3> QED BY <3>2, <3>3, <1>t DEF RingInvariant
  <2>5. CASE Fetch(t)
    <3>1. t \in Consumers /\ t \notin Producers /\ pc[t] = "access" /\ ~is_empty
      BY <2>5, TestsNeverFire DEF Fetch, Goto, RingInvariant, CallInvariant
    <3>2. /\ mutex = t /\ mutex' = t /\ pc'[t] = "print"
          /\ count' = count - 1 /\ front' = front /\ rear' = rear
      BY <2>5, <3>1, <1>t DEF Fetch, Goto, MutualExclusion, Critical
    <3>3. Distance = count /\ Distance' = count' + 1
      BY <3>1, <3>2, DistanceOf DEF Distance, InPrintf
    <3> QED BY <3>2, <3>3, <1>t DEF RingInvariant
  <2>6. CASE AdvanceRear(t)
    <3>1. t \in Producers /\ pc[t] = "print" /\ pc'[t] = "unlock"
      BY <2>6, <1>t DEF AdvanceRear, Goto
    <3>2. /\ mutex = t /\ mutex' = t /\ count' = count /\ front' = front
          /\ rear' = (rear + 1) % BUFFER_SIZE
      BY <2>6, <3>1, <1>t DEF AdvanceRear, MutualExclusion, Critical, NextSlot
    <3>3. Distance = count - 1 /\ Distance' = count
      BY <3>1, <3>2, DistanceOf DEF Distance, InPrintf
    <3>4. count >= 1
      <4>1. t \in Leaving(Producers)
        BY <3>1 DEF Leaving
      <4>2. Cardinality(Leaving(Producers)) > 0
        BY <4>1, ThreadSetsAreFinite, FS_EmptySet
      <4> QED BY <4>2, <1>t, ThreadSetsAreFinite DEF PermitsMatchSlots
    <3>5. front + (count - 1) \in 0 .. 2 * BUFFER_SIZE - 2
      BY <3>4, <1>t
    <3>6. (((front + (count - 1)) % BUFFER_SIZE) + 1) % BUFFER_SIZE
            = (front + (count - 1) + 1) % BUFFER_SIZE
      BY <3>5, <1>t, RearAdvances
    <3>7. front + (count - 1) + 1 = front + count
      BY <1>t
    <3> QED BY <3>2, <3>3, <3>6, <3>7 DEF RingInvariant
  <2>7. CASE AdvanceFront(t)
    <3>1. t \in Consumers /\ t \notin Producers /\ pc[t] = "print" /\ pc'[t] = "unlock"
      BY <2>7, <1>t DEF AdvanceFront, Goto
    <3>2. /\ mutex = t /\ mutex' = t /\ count' = count /\ rear' = rear
          /\ front' = (front + 1) % BUFFER_SIZE
      BY <2>7, <3>1, <1>t DEF AdvanceFront, MutualExclusion, Critical, NextSlot
    <3>3. Distance = count + 1 /\ Distance' = count
      BY <3>1, <3>2, DistanceOf DEF Distance, InPrintf
    <3>4. count \in 0 .. BUFFER_SIZE - 1
      <4>1. t \in Leaving(Consumers)
        BY <3>1 DEF Leaving
      <4>2. Cardinality(Leaving(Consumers)) > 0
        BY <4>1, ThreadSetsAreFinite, FS_EmptySet
      <4> QED BY <4>2, <1>t, ThreadSetsAreFinite DEF PermitsMatchSlots
    <3>5. (((front + 1) % BUFFER_SIZE) + count) % BUFFER_SIZE = (front + (count + 1)) % BUFFER_SIZE
      BY <3>4, <1>t, FrontAdvances
    <3> QED BY <3>2, <3>3, <3>5 DEF RingInvariant
  <2> QED BY <1>4, <2>1, <2>2, <2>3, <2>4, <2>5, <2>6, <2>7 DEF Step
<1> QED BY <1>2, <1>3, <1>4 DEF Next, Terminated

(* The ring is empty at the start and both indices are 0 (buffer.c:10). *)
LEMMA RingInit == Init => RingInvariant
<1> SUFFICES ASSUME Init PROVE RingInvariant
  OBVIOUS
<1>1. Distance = 0
  BY ThreadSets DEF Init, Distance, InPrintf
<1>2. 0 % BUFFER_SIZE = 0
  BY ConstantsAssumption, SmallMod
<1> QED BY <1>1, <1>2, CallInit DEF Init, RingInvariant

(* Outside the critical sections the count filled slots are those from     *)
(* front up to rear (buffer.c:10).                                         *)
THEOREM RingCorrect == Spec => []RingConsistent
<1>1. RingInvariant => RingConsistent
  BY ThreadSets DEF RingInvariant, RingConsistent, Distance, InPrintf
<1> QED BY <1>1, RingInit, RingStep, PTL DEF Spec

-----------------------------------------------------------------------------
(* The bounded buffer *)

(* What a producer is about to insert it has drawn before (main.c:10-13).  *)
ItemsAreDrawn == \A p \in Producers : pc[p] \in {"wait", "lock", "access"} => item[p] \in Items

BufferInvariant == RingInvariant /\ ItemsAreDrawn

(* Every step keeps it: rand() is called after each return to the sleep,   *)
(* and nothing else changes the variable `item' of a producer              *)
(* (main.c:10-13).                                                         *)
LEMMA BufferStep == BufferInvariant /\ [Next]_vars => BufferInvariant'
<1> SUFFICES ASSUME BufferInvariant, [Next]_vars PROVE BufferInvariant'
  OBVIOUS
<1>1. RingInvariant'
  BY RingStep DEF BufferInvariant
<1> SUFFICES ItemsAreDrawn'
  BY <1>1 DEF BufferInvariant
<1> USE ThreadSets
<1>t. /\ pc \in [Threads -> Labels] /\ item \in [Threads -> Items \cup {NoItem}]
      /\ ItemsAreDrawn /\ TypeInvariant
  BY DEF BufferInvariant, RingInvariant, CallInvariant, PermitInvariant, MutexInvariant,
         TypeInvariant, TypeOK
<1>2. CASE MainStep \/ MainSleep \/ UNCHANGED vars
  BY <1>2, <1>t
     DEF MainStep, MainCreate, MainCancel, MainJoin, MainReturn, MainSleep, vars, ItemsAreDrawn
<1>3. ASSUME NEW t \in Threads, Step(t) PROVE ItemsAreDrawn'
  <2>1. CASE Produce(t)
    BY <2>1, <1>t DEF Produce, Goto, ItemsAreDrawn
  <2>2. CASE Fetch(t)
    BY <2>2, <1>t DEF Fetch, Goto, ItemsAreDrawn
  <2>3. CASE /\ ~Produce(t) /\ ~Fetch(t)
    <3>1. item' = item /\ (t \in Producers => (pc'[t] \in {"wait", "lock", "access"} =>
                                                 pc[t] \in {"wait", "lock", "access"}))
      BY <1>3, <2>3, <1>t
         DEF Step, Awake, WaitEmpty, WaitFull, Lock, Store, AdvanceRear, AdvanceFront, Unlock,
             PostFull, PostEmpty, Cancelled, CancelledInPrintf, Goto
    <3> QED BY <3>1, <1>3, <1>t, OthersStay DEF ItemsAreDrawn
  <2> QED BY <2>1, <2>2, <2>3
<1> QED BY <1>2, <1>3 DEF Next, Terminated

(* No thread has started at the start (main.c:48-62). *)
LEMMA BufferInit == Init => BufferInvariant
BY RingInit, ThreadSets DEF Init, BufferInvariant, ItemsAreDrawn

(* The conjunction of all the parts is an inductive invariant, as the runs *)
(* check it on a small instance (buffer.c:23-65, main.c:57-72).            *)
THEOREM InductiveInvariantCorrect == Spec => []InductiveInvariant
<1>1. BufferInvariant <=> InductiveInvariant
  BY DEF BufferInvariant, ItemsAreDrawn, RingInvariant, CallInvariant, CallsSucceed,
         PermitInvariant, MutexInvariant, TypeInvariant, OwnerIsInside, NotCreatedYet, InductiveInvariant
<1> QED BY <1>1, BufferInit, BufferStep, PTL DEF Spec

(* The slot of the oldest item, also while the index front is about to be  *)
(* advanced past the item fetched last (buffer.c:54-60).                   *)
First == IF FrontIsStale THEN NextSlot(front) ELSE front

(* The contents are the items of the count slots from the oldest on,       *)
(* before a step and after it (buffer.c:32-38, 54-60).                     *)
LEMMA ContentsFromFirst ==
    /\ Contents = [i \in 1 .. count |-> buffer[(First + i - 1) % BUFFER_SIZE]]
    /\ Contents' = [i \in 1 .. count' |-> buffer'[(First' + i - 1) % BUFFER_SIZE]]
BY DEF Contents, First

(* What the abstract buffer sees does not change when neither the ring nor *)
(* any of the items does (buffer.c:32-38, 54-60; main.c:10-13, 22-26).     *)
LEMMA AbstractKept ==
    ASSUME UNCHANGED <<buffer, count, item>>, First' = First, Offered' = Offered
    PROVE  UNCHANGED Abstract!vars
<1>1. Contents' = Contents
  BY ContentsFromFirst
<1> QED BY <1>1 DEF Abstract!vars

(* The contents are a sequence of count items of which each is in the slot *)
(* that many places from the oldest (buffer.c:32-38, 54-60).               *)
ContentsAreTheSlots ==
    /\ Contents \in Seq(Items \cup {NoItem}) /\ Len(Contents) = count
    /\ \A i \in 1 .. count : Contents[i] = buffer[(First + i - 1) % BUFFER_SIZE]

LEMMA ContentsType == BufferInvariant => ContentsAreTheSlots
<1> SUFFICES ASSUME BufferInvariant PROVE ContentsAreTheSlots
  OBVIOUS
<1>1. /\ buffer \in [Slots -> Items \cup {NoItem}] /\ count \in Nat /\ First \in Nat
      /\ BUFFER_SIZE \in Nat \ {0}
  BY ConstantsAssumption, NextSlotType
     DEF BufferInvariant, RingInvariant, CallInvariant, PermitInvariant, MutexInvariant,
         TypeInvariant, TypeOK, First, Slots
<1>2. \A i \in 1 .. count : (First + i - 1) % BUFFER_SIZE \in Slots
  BY <1>1 DEF Slots
<1>3. Contents \in [1 .. count -> Items \cup {NoItem}]
  BY <1>1, <1>2, ContentsFromFirst
<1>4. Contents \in Seq(Items \cup {NoItem}) /\ Len(Contents) = count
  BY <1>1, <1>3
<1> QED BY <1>4, ContentsFromFirst DEF ContentsAreTheSlots

(* The store of an item in the ring is the insertion of that item at the   *)
(* end of the queue: the slot at rear is none of those in use              *)
(* (buffer.c:30-35).                                                       *)
LEMMA StoreInserts ==
    ASSUME BufferInvariant, BufferInvariant', NEW t \in Threads, Store(t)
    PROVE  Abstract!Insert(t)
<1> USE ThreadSets
<1>t. /\ TypeInvariant /\ MutualExclusion /\ OwnerIsInside /\ ItemsAreDrawn
      /\ pc \in [Threads -> Labels] /\ mutex \in Threads \cup {Unlocked}
      /\ buffer \in [Slots -> Items \cup {NoItem}]
      /\ count \in 0 .. BUFFER_SIZE /\ BUFFER_SIZE \in Nat \ {0}
      /\ front \in 0 .. BUFFER_SIZE - 1 /\ rear \in Slots
  BY ConstantsAssumption
     DEF BufferInvariant, RingInvariant, CallInvariant, PermitInvariant, MutexInvariant,
         TypeInvariant, TypeOK, Slots
<1>1. t \in Producers /\ t \notin Consumers /\ pc[t] = "access" /\ ~is_full
  BY TestsNeverFire DEF Store, Goto, BufferInvariant, RingInvariant, CallInvariant
<1>2. /\ mutex = t /\ mutex' = t /\ pc' = [pc EXCEPT ![t] = "print"]
      /\ buffer' = [buffer EXCEPT ![rear] = item[t]]
      /\ count' = count + 1 /\ count < BUFFER_SIZE /\ front' = front /\ item' = item
  BY <1>1, <1>t DEF Store, Goto, MutualExclusion, Critical, is_full
<1>3. First = front /\ First' = front
  BY <1>1, <1>2 DEF First, FrontIsStale
<1>4. rear = (front + count) % BUFFER_SIZE
  BY <1>1, <1>2, DistanceOf DEF BufferInvariant, RingInvariant
<1>5. item[t] \in Items /\ item[t] # NoItem
  BY <1>1, <1>t, ConstantsAssumption DEF ItemsAreDrawn
<1>6. Offered[t] = item[t] /\ Offered' = [Offered EXCEPT ![t] = NoItem]
  BY <1>1, <1>2, <1>t DEF Offered
<1>7. Contents' = Append(Contents, item[t])
  <2>1. /\ Contents' \in Seq(Items \cup {NoItem}) /\ Len(Contents') = count + 1
        /\ \A i \in 1 .. count + 1 : Contents'[i] = buffer'[(front + i - 1) % BUFFER_SIZE]
    <3>1. ContentsAreTheSlots'
      BY ContentsType, PTL
    <3> QED BY <3>1, <1>2, <1>3 DEF ContentsAreTheSlots
  <2>2. /\ Contents \in Seq(Items \cup {NoItem}) /\ Len(Contents) = count
        /\ \A i \in 1 .. count : Contents[i] = buffer[(front + i - 1) % BUFFER_SIZE]
    BY <1>3, ContentsType DEF ContentsAreTheSlots
  <2>3. \A i \in 1 .. count : Contents'[i] = Contents[i]
    <3>1. SUFFICES ASSUME NEW i \in 1 .. count PROVE Contents'[i] = Contents[i]
      OBVIOUS
    <3>2. i - 1 \in 0 .. BUFFER_SIZE - 1 /\ count \in 0 .. BUFFER_SIZE - 1 /\ i - 1 < count
      BY <1>t, <1>2
    <3>3. (front + (i - 1)) % BUFFER_SIZE # (front + count) % BUFFER_SIZE
      BY <3>2, <1>t, SlotsDiffer
    <3>4. front + i - 1 = front + (i - 1)
      BY <1>t
    <3> QED BY <3>3, <3>4, <2>1, <2>2, <1>2, <1>4, <1>t
  <2>4. Contents'[count + 1] = item[t]
    <3>1. front + (count + 1) - 1 = front + count
      BY <1>t
    <3> QED BY <3>1, <2>1, <1>2, <1>4, <1>t
  <2> QED BY <2>1, <2>2, <2>3, <2>4, <1>5, <1>t
<1> QED BY <1>1, <1>2, <1>5, <1>6, <1>7, <1>t, ContentsType DEF Abstract!Insert, ContentsAreTheSlots

(* The read of an item from the ring is the removal of the oldest item     *)
(* (buffer.c:52-57).                                                       *)
LEMMA FetchRemoves ==
    ASSUME BufferInvariant, BufferInvariant', NEW t \in Threads, Fetch(t)
    PROVE  Abstract!Remove(t)
<1> USE ThreadSets
<1>t. /\ TypeInvariant /\ MutualExclusion
      /\ pc \in [Threads -> Labels] /\ mutex \in Threads \cup {Unlocked}
      /\ item \in [Threads -> Items \cup {NoItem}]
      /\ count \in 0 .. BUFFER_SIZE /\ BUFFER_SIZE \in Nat \ {0}
      /\ front \in 0 .. BUFFER_SIZE - 1
  BY ConstantsAssumption
     DEF BufferInvariant, RingInvariant, CallInvariant, PermitInvariant, MutexInvariant,
         TypeInvariant, TypeOK, Slots
<1>1. t \in Consumers /\ t \notin Producers /\ pc[t] = "access" /\ ~is_empty
  BY TestsNeverFire DEF Fetch, Goto, BufferInvariant, RingInvariant, CallInvariant
<1>2. /\ mutex = t /\ mutex' = t /\ pc' = [pc EXCEPT ![t] = "print"]
      /\ item' = [item EXCEPT ![t] = buffer[front]]
      /\ count' = count - 1 /\ count > 0 /\ front' = front /\ buffer' = buffer
  BY <1>1, <1>t DEF Fetch, Goto, MutualExclusion, Critical, is_empty
<1>3. First = front /\ First' = NextSlot(front)
  BY <1>1, <1>2, <1>t DEF First, FrontIsStale, NextSlot
<1>4. Offered' = Offered
  BY <1>1, <1>2, <1>t DEF Offered
<1>5. /\ Contents \in Seq(Items \cup {NoItem}) /\ Len(Contents) = count
      /\ \A i \in 1 .. count : Contents[i] = buffer[(front + i - 1) % BUFFER_SIZE]
  BY <1>3, ContentsType DEF ContentsAreTheSlots
<1>6. Contents # <<>> /\ Head(Contents) = buffer[front]
  <2>1. front + 1 - 1 = front /\ front % BUFFER_SIZE = front /\ 1 \in 1 .. count
    BY <1>2, <1>t
  <2> QED BY <2>1, <1>5
<1>7. Contents' = Tail(Contents)
  <2>1. /\ Contents' \in Seq(Items \cup {NoItem}) /\ Len(Contents') = count - 1
        /\ \A i \in 1 .. count - 1 :
             Contents'[i] = buffer[(NextSlot(front) + i - 1) % BUFFER_SIZE]
    <3>1. ContentsAreTheSlots'
      BY ContentsType, PTL
    <3> QED BY <3>1, <1>2, <1>3 DEF ContentsAreTheSlots
  <2>2. \A i \in 1 .. count - 1 : Contents'[i] = Contents[i + 1]
    <3>1. SUFFICES ASSUME NEW i \in 1 .. count - 1 PROVE Contents'[i] = Contents[i + 1]
      OBVIOUS
    <3>2. i - 1 \in 0 .. BUFFER_SIZE - 1 /\ i + 1 \in 1 .. count
      BY <1>t
    <3>3. (((front + 1) % BUFFER_SIZE) + (i - 1)) % BUFFER_SIZE
            = (front + ((i - 1) + 1)) % BUFFER_SIZE
      BY <3>2, <1>t, FrontAdvances
    <3>4. (front + 1) % BUFFER_SIZE \in Nat
      BY <1>t
    <3>5. /\ front + ((i - 1) + 1) = front + (i + 1) - 1
          /\ ((front + 1) % BUFFER_SIZE) + (i - 1) = ((front + 1) % BUFFER_SIZE) + i - 1
      BY <3>4, <1>t
    <3> QED BY <3>2, <3>3, <3>5, <2>1, <1>5 DEF NextSlot
  <2>3. /\ Tail(Contents) \in Seq(Items \cup {NoItem}) /\ Len(Tail(Contents)) = count - 1
        /\ \A i \in 1 .. count - 1 : Tail(Contents)[i] = Contents[i + 1]
    BY <1>5, <1>6
  <2> QED BY <2>1, <2>2, <2>3, SeqEqual
<1>8. [c \in Consumers |-> item'[c]]
        = [[c \in Consumers |-> item[c]] EXCEPT ![t] = Head(Contents)]
  BY <1>1, <1>2, <1>6, <1>t
<1> QED BY <1>1, <1>4, <1>6, <1>7, <1>8 DEF Abstract!Remove

(* The oldest item stays where it is in every step but that of Fetch       *)
(* (buffer.c:54-60).                                                       *)
LEMMA FirstKept ==
    ASSUME BufferInvariant, NEW t \in Threads, Step(t), ~Fetch(t)
    PROVE  First' = First
<1> USE ThreadSets
<1>t. /\ TypeInvariant /\ MutualExclusion /\ OwnerIsInside
      /\ pc \in [Threads -> Labels] /\ mutex \in Threads \cup {Unlocked}
  BY DEF BufferInvariant, RingInvariant, CallInvariant, PermitInvariant, MutexInvariant,
         TypeInvariant, TypeOK
<1>1. CASE AdvanceFront(t)
  <2>1. t \in Consumers /\ mutex = t /\ mutex' = t /\ pc[t] = "print" /\ pc'[t] = "unlock"
    BY <1>1, <1>t DEF AdvanceFront, Goto, MutualExclusion, Critical
  <2> QED BY <1>1, <2>1 DEF AdvanceFront, First, FrontIsStale
<1>2. CASE ~AdvanceFront(t)
  <2>1. front' = front
    BY <1>2 DEF Step, Produce, Awake, WaitEmpty, WaitFull, Lock, Store, AdvanceRear, Unlock,
                PostFull, PostEmpty, Cancelled, CancelledInPrintf, ring
  <2>2. FrontIsStale' <=> FrontIsStale
    <3>1. CASE Lock(t) \/ Unlock(t)
      BY <3>1, <1>t DEF Lock, Unlock, Goto, FrontIsStale, MutualExclusion, Critical
    <3>2. CASE Store(t) \/ AdvanceRear(t)
      BY <3>2, <1>t DEF Store, AdvanceRear, Goto, FrontIsStale, MutualExclusion, Critical
    <3>3. CASE CancelledInPrintf(t)
      BY <3>3, <1>t DEF CancelledInPrintf, Goto, FrontIsStale, MutualExclusion, Critical
    <3>4. CASE \/ Produce(t) \/ Awake(t) \/ WaitEmpty(t) \/ WaitFull(t)
               \/ PostFull(t) \/ PostEmpty(t) \/ Cancelled(t)
      <4>1. mutex # t /\ mutex' = mutex
        BY <3>4, <1>t DEF Produce, Awake, WaitEmpty, WaitFull, PostFull, PostEmpty, Cancelled,
                          Goto, OwnerIsInside, Critical
      <4> QED BY <4>1, <1>t, OthersStay DEF FrontIsStale
    <3> QED BY <1>2, <3>1, <3>2, <3>3, <3>4 DEF Step
  <2> QED BY <2>1, <2>2 DEF First
<1> QED BY <1>1, <1>2

(* Every step of the program is a step of the abstract buffer, or none:    *)
(* drawing an item offers it, a cancellation in sem_wait abandons it, and  *)
(* the updates of the ring under the mutex insert and remove               *)
(* (buffer.c:23-65, main.c:9-29).                                          *)
LEMMA AbstractStep ==
    BufferInvariant /\ BufferInvariant' /\ [Next]_vars => [Abstract!Next]_(Abstract!vars)
<1> SUFFICES ASSUME BufferInvariant, BufferInvariant', [Next]_vars
             PROVE  [Abstract!Next]_(Abstract!vars)
  OBVIOUS
<1> USE ThreadSets
<1>t. /\ TypeInvariant /\ OwnerIsInside /\ NotCreatedYet /\ ItemsAreDrawn
      /\ pc \in [Threads -> Labels] /\ mutex \in Threads \cup {Unlocked}
      /\ item \in [Threads -> Items \cup {NoItem}]
  BY DEF BufferInvariant, RingInvariant, CallInvariant, PermitInvariant, MutexInvariant,
         TypeInvariant, TypeOK
<1>1. CASE MainStep \/ MainSleep \/ UNCHANGED vars
  <2>1. CASE MainCreate
    <3>1. /\ next \in Threads /\ pc[next] = "new" /\ pc' = [pc EXCEPT ![next] = "sleep"]
          /\ mutex' = mutex /\ mutex # next
      BY <2>1, <1>t
         DEF MainCreate, Threads, NotCreatedYet, OwnerIsInside, Critical, TypeInvariant, TypeOK
    <3>2. First' = First /\ Offered' = Offered
      BY <2>1, <3>1, <1>t DEF MainCreate, ring, First, FrontIsStale, Offered
    <3> QED BY <2>1, <3>2, AbstractKept DEF MainCreate, ring
  <2>2. CASE MainCancel \/ MainJoin \/ MainReturn \/ MainSleep \/ UNCHANGED vars
    <3>1. First' = First /\ Offered' = Offered /\ UNCHANGED <<buffer, count, item>>
      BY <2>2 DEF MainCancel, MainJoin, MainReturn, MainSleep, vars, ring, First, FrontIsStale,
                  Offered
    <3> QED BY <3>1, AbstractKept
  <2> QED BY <1>1, <2>1, <2>2 DEF MainStep
<1>2. ASSUME NEW t \in Threads, Step(t) PROVE [Abstract!Next]_(Abstract!vars)
  <2>1. CASE Store(t)
    <3>1. t \in Producers
      BY <2>1 DEF Store
    <3> QED BY <2>1, <3>1, StoreInserts DEF Abstract!Next
  <2>2. CASE Fetch(t)
    <3>1. t \in Consumers
      BY <2>2 DEF Fetch
    <3> QED BY <2>2, <3>1, FetchRemoves DEF Abstract!Next
  <2>3. CASE Produce(t)
    <3>1. PICK x \in Items : item' = [item EXCEPT ![t] = x]
      BY <2>3 DEF Produce
    <3>2. /\ t \in Producers /\ t \notin Consumers /\ pc[t] = "sleep"
          /\ pc' = [pc EXCEPT ![t] = "wait"] /\ UNCHANGED <<buffer, count>>
      BY <2>3 DEF Produce, Goto, ring
    <3>3. Offered[t] = NoItem /\ Offered' = [Offered EXCEPT ![t] = x]
      BY <3>1, <3>2, <1>t DEF Offered
    <3>4. First' = First
      BY <2>3, <1>2, <3>2, FirstKept DEF Fetch, Goto
    <3>5. Contents' = Contents
      BY <3>2, <3>4, ContentsFromFirst
    <3>6. [c \in Consumers |-> item'[c]] = [c \in Consumers |-> item[c]]
      BY <3>1, <3>2, <1>t
    <3>7. Abstract!Offer(t)
      BY <3>3, <3>5, <3>6 DEF Abstract!Offer
    <3> QED BY <3>2, <3>7 DEF Abstract!Next
  <2>4. CASE Cancelled(t) /\ t \in Producers /\ pc[t] = "wait"
    <3>1. /\ pc' = [pc EXCEPT ![t] = "exited"] /\ UNCHANGED <<buffer, count, item>>
          /\ t \notin Consumers
      BY <2>4 DEF Cancelled, ring
    <3>2. Offered[t] # NoItem /\ Offered' = [Offered EXCEPT ![t] = NoItem]
      BY <2>4, <3>1, <1>t, ConstantsAssumption DEF Offered, ItemsAreDrawn
    <3>3. First' = First
      BY <2>4, <1>2, FirstKept DEF Fetch, Goto
    <3>4. Contents' = Contents
      BY <3>1, <3>3, ContentsFromFirst
    <3>5. Abstract!Abandon(t)
      BY <3>1, <3>2, <3>4 DEF Abstract!Abandon
    <3> QED BY <2>4, <3>5 DEF Abstract!Next
  <2>5. CASE /\ ~Store(t) /\ ~Fetch(t) /\ ~Produce(t)
             /\ ~(Cancelled(t) /\ t \in Producers /\ pc[t] = "wait")
    <3>1. UNCHANGED <<buffer, count, item>>
      BY <1>2, <2>5
         DEF Step, Awake, WaitEmpty, WaitFull, Lock, AdvanceRear, AdvanceFront, Unlock,
             PostFull, PostEmpty, Cancelled, CancelledInPrintf, ring
    <3>2. t \in Producers => (pc'[t] \in {"wait", "lock", "access"} <=>
                                pc[t] \in {"wait", "lock", "access"})
      BY <1>2, <2>5, <1>t
         DEF Step, Awake, WaitEmpty, WaitFull, Lock, AdvanceRear, AdvanceFront, Unlock,
             PostFull, PostEmpty, Cancelled, CancelledInPrintf, Goto
    <3>3. Offered' = Offered
      BY <1>2, <3>1, <3>2, <1>t, OthersStay DEF Offered
    <3>4. First' = First
      BY <1>2, <2>5, FirstKept
    <3> QED BY <3>1, <3>3, <3>4, AbstractKept
  <2> QED BY <2>1, <2>2, <2>3, <2>4, <2>5
<1> QED BY <1>1, <1>2 DEF Next, Terminated

(* The empty ring is the empty queue, and nobody offers or has taken an    *)
(* item (buffer.c:10, main.c:48-62).                                       *)
LEMMA AbstractInit == Init => Abstract!Init
<1> SUFFICES ASSUME Init PROVE Abstract!Init
  OBVIOUS
<1>1. Contents = <<>>
  BY BufferInit, ContentsType DEF Init, ContentsAreTheSlots
<1>2. /\ Offered = [p \in Producers |-> NoItem]
      /\ [c \in Consumers |-> item[c]] = [c \in Consumers |-> NoItem]
  BY ThreadSets DEF Init, Offered
<1> QED BY <1>1, <1>2 DEF Abstract!Init

(* The ring, its semaphores and its mutex implement a bounded first-in     *)
(* first-out buffer, for any number of threads and slots and whenever      *)
(* threads are cancelled (buffer.c:23-65, main.c:9-29).                    *)
THEOREM BufferImplemented == Spec => ImplementsBoundedBuffer
<1>1. Spec => []BufferInvariant
  BY BufferInit, BufferStep, PTL DEF Spec
<1> QED BY <1>1, AbstractInit, AbstractStep, PTL
        DEF Spec, ImplementsBoundedBuffer, Abstract!Spec
=============================================================================
