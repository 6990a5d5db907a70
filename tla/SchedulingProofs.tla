--------------------------- MODULE SchedulingProofs ---------------------------
(***************************************************************************)
(* What is true of the five schedulers for any number of tasks, any        *)
(* priorities, bursts and quantum, when no two tasks have the same name.   *)
(***************************************************************************)
EXTENDS Scheduling, Arithmetic, SequenceTheorems, TLAPS

-----------------------------------------------------------------------------
(* Taking an element out of a sequence *)

LEMMA SequenceIs ==
    ASSUME NEW S, NEW s \in Seq(S)
    PROVE  Len(s) \in Nat /\ DOMAIN s = 1 .. Len(s) /\ \A i \in 1 .. Len(s) : s[i] \in S
OBVIOUS

(* Where the element at i of the sequence without its k-th was. *)
Before(k, i) == IF i < k THEN i ELSE i + 1

LEMMA RemoveAtIs ==
    ASSUME NEW S, NEW s \in Seq(S), NEW k \in 1 .. Len(s)
    PROVE  /\ RemoveAt(s, k) \in Seq(S) /\ Len(RemoveAt(s, k)) = Len(s) - 1
           /\ \A i \in 1 .. Len(s) - 1 : RemoveAt(s, k)[i] = s[Before(k, i)]
<1> DEFINE n == Len(s)
           a == SubSeq(s, 1, k - 1)
           b == SubSeq(s, k + 1, n)
<1>1. n \in Nat /\ k \in Int /\ 1 <= k /\ k <= n /\ \A i \in 1 .. n : s[i] \in S
  OBVIOUS
<1>2. a \in Seq(S) /\ Len(a) = k - 1 /\ \A i \in 1 .. k - 1 : a[i] = s[i]
  <2> DEFINE m == k - 1
  <2>1. m \in Int /\ \A i \in 1 .. m : i \in 1 .. n
    BY <1>1
  <2>2. (IF 1 <= m THEN m - 1 + 1 ELSE 0) = m /\ m - 1 + 1 = m
    BY <1>1
  <2>3. \A i \in 1 .. m : 1 + i - 1 = i
    BY <2>1
  <2> HIDE DEF m
  <2>4. /\ SubSeq(s, 1, m) \in Seq(S) /\ Len(SubSeq(s, 1, m)) = m
        /\ \A i \in 1 .. m : SubSeq(s, 1, m)[i] = s[i]
    BY <1>1, <2>1, <2>2, <2>3, SubSeqProperties
  <2> QED BY <2>4 DEF m
<1>3. b \in Seq(S) /\ Len(b) = n - k /\ \A i \in 1 .. n - k : b[i] = s[k + i]
  <2> DEFINE m == k + 1
  <2>1. m \in Int /\ \A i \in m .. n : i \in 1 .. n
    BY <1>1
  <2>2. (IF m <= n THEN n - m + 1 ELSE 0) = n - k /\ n - m + 1 = n - k
    BY <1>1
  <2>3. \A i \in 1 .. n - k : m + i - 1 = k + i
    BY <1>1
  <2> HIDE DEF m
  <2>4. /\ SubSeq(s, m, n) \in Seq(S) /\ Len(SubSeq(s, m, n)) = n - k
        /\ \A i \in 1 .. n - k : SubSeq(s, m, n)[i] = s[k + i]
    BY <1>1, <2>1, <2>2, <2>3, SubSeqProperties
  <2> QED BY <2>4 DEF m
<1> HIDE DEF a, b, n
<1>4. RemoveAt(s, k) = a \o b
  BY DEF RemoveAt, a, b, n
<1>5. /\ a \o b \in Seq(S) /\ Len(a \o b) = Len(a) + Len(b)
      /\ \A i \in 1 .. Len(a) + Len(b) : (a \o b)[i] = IF i <= Len(a) THEN a[i] ELSE b[i - Len(a)]
  BY <1>2, <1>3, ConcatProperties
<1>6. Len(a) + Len(b) = n - 1
  BY <1>1, <1>2, <1>3
<1>7. ASSUME NEW i \in 1 .. n - 1
      PROVE  (a \o b)[i] = s[Before(k, i)]
  <2>1. CASE i < k
    <3>1. i <= k - 1 /\ i \in 1 .. k - 1
      BY <1>1, <2>1
    <3> QED BY <1>2, <1>5, <1>6, <2>1, <3>1 DEF Before
  <2>2. CASE ~(i < k)
    <3>1. /\ ~(i <= k - 1) /\ i - (k - 1) \in 1 .. n - k
          /\ k + (i - (k - 1)) = i + 1
      BY <1>1, <2>2
    <3>2. (a \o b)[i] = b[i - (k - 1)]
      BY <1>2, <1>5, <1>6, <3>1
    <3> QED BY <1>3, <2>2, <3>1, <3>2 DEF Before
  <2> QED BY <2>1, <2>2
<1> QED BY <1>4, <1>5, <1>6, <1>7 DEF n

LEMMA PutFirstIs ==
    ASSUME NEW S, NEW s \in Seq(S), NEW t \in S
    PROVE  /\ <<t>> \o s \in Seq(S) /\ Len(<<t>> \o s) = Len(s) + 1
           /\ (<<t>> \o s)[1] = t /\ \A i \in 1 .. Len(s) : (<<t>> \o s)[i + 1] = s[i]
<1>1. <<t>> \in Seq(S) /\ Len(<<t>>) = 1 /\ <<t>>[1] = t
  OBVIOUS
<1>2. /\ <<t>> \o s \in Seq(S) /\ Len(<<t>> \o s) = Len(<<t>>) + Len(s)
      /\ \A i \in 1 .. Len(<<t>>) + Len(s) :
            (<<t>> \o s)[i] = IF i <= Len(<<t>>) THEN <<t>>[i] ELSE s[i - Len(<<t>>)]
  BY <1>1, ConcatProperties
<1>3. Len(s) \in Nat
  OBVIOUS
<1>4. ASSUME NEW i \in 1 .. Len(s)
      PROVE  (<<t>> \o s)[i + 1] = s[i]
  <2>1. i + 1 \in 1 .. 1 + Len(s) /\ ~(i + 1 <= 1) /\ (i + 1) - 1 = i
    BY <1>3
  <2> QED BY <1>1, <1>2, <2>1
<1>5. 1 \in 1 .. 1 + Len(s) /\ 1 <= 1
  BY <1>3
<1> QED BY <1>1, <1>2, <1>3, <1>4, <1>5

(* The last of the elements with the least key. *)
LEMMA BestExists ==
    ASSUME NEW n \in Nat \ {0}, NEW key, \A i \in 1 .. n : key[i] \in Int
    PROVE  \E i \in 1 .. n : \A j \in (1 .. n) \ {i} :
              key[i] < key[j] \/ (key[j] >= key[i] /\ i > j)
<1> DEFINE Best(m, i) == \A j \in (1 .. m) \ {i} :
                            key[i] < key[j] \/ (key[j] >= key[i] /\ i > j)
           T == {m \in 0 .. n : m > 0 => \E i \in 1 .. m : Best(m, i)}
<1>1. 0 \in T
  OBVIOUS
<1>2. ASSUME NEW m \in 1 .. n, m - 1 \in T
      PROVE  m \in T
  <2>1. CASE m = 1
    <3>1. 1 .. m = {1}
      BY <2>1
    <3>2. Best(m, 1)
      BY <3>1
    <3> QED BY <2>1, <3>2
  <2>2. CASE m > 1
    <3>1. PICK i \in 1 .. m - 1 : Best(m - 1, i)
      BY <1>2, <2>2
    <3>2. key[i] \in Int /\ key[m] \in Int /\ \A j \in 1 .. m - 1 : key[j] \in Int /\ j \in Int /\ j < m
      OBVIOUS
    <3>3. \A j \in (1 .. m) \ {m} : j \in 1 .. m - 1
      OBVIOUS
    <3>4. CASE key[i] < key[m]
      <4>1. ASSUME NEW j \in (1 .. m) \ {i}
            PROVE  key[i] < key[j] \/ (key[j] >= key[i] /\ i > j)
        <5>1. CASE j = m
          BY <3>4, <5>1
        <5>2. CASE j # m
          BY <3>1, <3>3, <5>2
        <5> QED BY <5>1, <5>2
      <4>2. Best(m, i)
        BY <4>1
      <4> QED BY <4>2
    <3>5. CASE ~(key[i] < key[m])
      <4>1. Best(m, m)
        BY <3>1, <3>2, <3>3, <3>5
      <4> QED BY <4>1
    <3> QED BY <3>4, <3>5
  <2> QED BY <2>1, <2>2
<1> HIDE DEF T
<1>3. n \in T
  BY <1>1, <1>2, BoundedInduction
<1> QED BY <1>3 DEF T

-----------------------------------------------------------------------------
(* The inductive invariant *)

Listed(t) == \E i \in 1 .. Len(tasks) : tasks[i] = t

Typed ==
    /\ TypeOK
    /\ \A i, j \in DOMAIN file : file[i].name = file[j].name => i = j
    /\ IsInjective(tasks) /\ IsInjective(finished)

(* What has become of the tasks that were read, and of those that were not. *)
Account ==
    /\ \A t \in 1 .. Len(file) :
          /\ Listed(t) => ran[t] + burst[t] = file[t].burst /\ t \notin freed
          /\ ~Listed(t) => ran[t] = file[t].burst /\ t \in freed
    /\ \A t \in Tasks : t > Len(file) => slices[t] = 0 /\ ran[t] = 0 /\ t \notin freed
    /\ freed = {finished[i] : i \in 1 .. Len(finished)}
    /\ main = "add" => freed = {} /\ \A t \in Tasks : slices[t] = 0
    /\ policy \notin RoundRobin => \A t \in 1 .. Len(file) : burst[t] = file[t].burst

(* How many slices they have had. *)
Slicing == \A t \in 1 .. Len(file) : IF Listed(t) THEN WholeSlices(t) ELSE FewestSlices(t)

(* Of two rivals the one nearer to the head came later, and has had as     *)
(* many turns, or came earlier, and is a turn ahead.                       *)
Turn(t, u) == \/ slices[t] = slices[u] /\ t > u
              \/ slices[t] = slices[u] + 1 /\ t < u

(* How the list is ordered, which is not by the policy. *)
ListOrder ==
    \A i, j \in 1 .. Len(tasks) : i < j =>
        /\ policy \notin RoundRobin => tasks[i] > tasks[j]
        /\ Rivals(tasks[i], tasks[j]) => Turn(tasks[i], tasks[j])

(* The order of FinishedInOrder for two tasks. *)
Prior(t, u) ==
    /\ policy = "fcfs" => t < u
    /\ policy = "sjf" => \/ file[t].burst < file[u].burst
                         \/ file[t].burst = file[u].burst /\ t < u
    /\ policy = "priority" => \/ file[t].priority > file[u].priority
                              \/ file[t].priority = file[u].priority /\ t < u

(* The tasks that have finished go before those still in the list. *)
FinishOrder ==
    /\ \A i, j \in 1 .. Len(finished) : i < j => Prior(finished[i], finished[j])
    /\ \A i \in 1 .. Len(finished) : \A j \in 1 .. Len(tasks) : Prior(finished[i], tasks[j])

StrictOrder ==
    policy \in {"priority", "priority_rr"} =>
        \A i \in 1 .. Len(tasks) : \A u \in 1 .. Len(file) :
            file[tasks[i]].priority > file[u].priority => slices[u] = 0

SchedulingInv == Typed /\ Account /\ Slicing /\ ListOrder /\ FinishOrder /\ StrictOrder

-----------------------------------------------------------------------------
(* The task that is taken, and the lists without it and with it in front *)

Key(t) == IF policy = "sjf" THEN burst[t]
          ELSE IF policy \in {"priority", "priority_rr"} THEN -file[t].priority
          ELSE 0

LEMMA TypesAre ==
    ASSUME Typed
    PROVE  /\ tasks \in Seq(1 .. Len(file)) /\ Len(tasks) \in Nat /\ DOMAIN tasks = 1 .. Len(tasks)
           /\ \A i \in 1 .. Len(tasks) : tasks[i] \in 1 .. Len(file)
           /\ Len(file) \in Nat /\ Len(file) <= MaxTasks /\ MaxTasks \in Nat
           /\ \A t \in 1 .. Len(file) : t \in Tasks
           /\ \A t \in Tasks : t \in Int /\ burst[t] \in Nat /\ slices[t] \in Nat /\ ran[t] \in Nat
           /\ \A t \in 1 .. Len(file) : file[t].priority \in Int /\ file[t].burst \in Nat
           /\ DOMAIN file = 1 .. Len(file)
           /\ finished \in Seq(Tasks) /\ Len(finished) \in Nat
           /\ \A i \in 1 .. Len(finished) : finished[i] \in Tasks
           /\ policy \in Policies
<1>1. /\ file \in Seq([name : Names, priority : Priorities, burst : Bursts]) /\ Len(file) <= MaxTasks
      /\ tasks \in Seq(1 .. Len(file)) /\ finished \in Seq(Tasks) /\ policy \in Policies
      /\ burst \in [Tasks -> Nat] /\ slices \in [Tasks -> Nat] /\ ran \in [Tasks -> Nat]
  BY DEF Typed, TypeOK
<1>2. /\ Len(file) \in Nat /\ DOMAIN file = 1 .. Len(file)
      /\ \A t \in 1 .. Len(file) : file[t] \in [name : Names, priority : Priorities, burst : Bursts]
  BY <1>1, SequenceIs
<1>3. \A t \in 1 .. Len(file) : file[t].priority \in Int /\ file[t].burst \in Nat
  BY <1>2, ConstantsAssumption
<1>4. /\ Len(tasks) \in Nat /\ DOMAIN tasks = 1 .. Len(tasks)
      /\ \A i \in 1 .. Len(tasks) : tasks[i] \in 1 .. Len(file)
  BY <1>1, SequenceIs
<1>5. Len(finished) \in Nat /\ \A i \in 1 .. Len(finished) : finished[i] \in Tasks
  BY <1>1, SequenceIs
<1>6. MaxTasks \in Nat /\ \A t \in 1 .. Len(file) : t \in Tasks
  BY <1>1, <1>2, ConstantsAssumption DEF Tasks
<1>7. \A t \in Tasks : t \in Int /\ burst[t] \in Nat /\ slices[t] \in Nat /\ ran[t] \in Nat
  BY <1>1 DEF Tasks
<1> QED BY <1>1, <1>2, <1>3, <1>4, <1>5, <1>6, <1>7

LEMMA BetterIs ==
    ASSUME Typed, NEW t \in 1 .. Len(file), NEW u \in 1 .. Len(file)
    PROVE  /\ Key(t) \in Int /\ Key(u) \in Int
           /\ better(t, u) <=> Key(t) < Key(u)
<1>1. /\ t \in Tasks /\ u \in Tasks /\ burst[t] \in Nat /\ burst[u] \in Nat
      /\ file[t].priority \in Int /\ file[u].priority \in Int
  BY TypesAre
<1>2. CASE policy = "sjf"
  BY <1>1, <1>2 DEF Key, better
<1>3. CASE policy \in {"priority", "priority_rr"}
  <2>1. policy # "sjf"
    BY <1>3
  <2> QED BY <1>1, <1>3, <2>1 DEF Key, better
<1>4. CASE policy \notin {"sjf", "priority", "priority_rr"}
  BY <1>4 DEF Key, better
<1> QED BY <1>2, <1>3, <1>4

(* get_next takes the last of the best tasks, and delete takes it out. *)
Taken(k) ==
    /\ k \in 1 .. Len(tasks)
    /\ get_next = tasks[k]
    /\ delete(tasks[k]) = RemoveAt(tasks, k)
    /\ \A j \in (1 .. Len(tasks)) \ {k} :
          \/ Key(tasks[k]) < Key(tasks[j])
          \/ Key(tasks[j]) >= Key(tasks[k]) /\ k > j

LEMMA GetNext ==
    ASSUME Typed, tasks # <<>>
    PROVE  \E k \in 1 .. Len(tasks) : Taken(k)
<1> DEFINE n == Len(tasks)
           IsBest(i) == \A j \in DOMAIN tasks \ {i} :
                           \/ better(tasks[i], tasks[j])
                           \/ ~better(tasks[j], tasks[i]) /\ i > j
           key == [i \in 1 .. n |-> Key(tasks[i])]
           k == CHOOSE i \in DOMAIN tasks : IsBest(i)
<1>1. /\ n \in Nat /\ DOMAIN tasks = 1 .. n /\ tasks \in Seq(1 .. Len(file))
      /\ \A i \in 1 .. n : tasks[i] \in 1 .. Len(file)
      /\ DOMAIN file = 1 .. Len(file)
  BY TypesAre
<1>2. n \in Nat \ {0}
  BY <1>1, EmptySeq
<1>3. \A i \in 1 .. n : key[i] \in Int
  BY <1>1, BetterIs
<1>4. \A i, j \in 1 .. n : better(tasks[i], tasks[j]) <=> key[i] < key[j]
  BY <1>1, BetterIs
<1> HIDE DEF n
<1>5. PICK i \in 1 .. n : \A j \in (1 .. n) \ {i} :
         key[i] < key[j] \/ (key[j] >= key[i] /\ i > j)
  <2> HIDE DEF key
  <2> QED BY <1>2, <1>3, BestExists
<1>6. \A m \in 1 .. n : IsBest(m) <=>
         \A j \in (1 .. n) \ {m} : key[m] < key[j] \/ (key[j] >= key[m] /\ m > j)
  <2> HIDE DEF key
  <2>1. \A a, b \in 1 .. n : ~(key[a] < key[b]) <=> key[a] >= key[b]
    BY <1>3
  <2> QED BY <1>1, <1>4, <2>1
<1>7. IsBest(i)
  BY <1>5, <1>6
<1>8. k \in 1 .. n /\ IsBest(k)
  <2> HIDE DEF IsBest
  <2> QED BY <1>1, <1>7
<1>9. get_next = tasks[k]
  BY DEF get_next
<1> HIDE DEF k
<1>10. \A j \in (1 .. n) \ {k} :
          \/ Key(tasks[k]) < Key(tasks[j])
          \/ Key(tasks[j]) >= Key(tasks[k]) /\ k > j
  BY <1>6, <1>8
<1> HIDE DEF IsBest, key
<1>11. delete(tasks[k]) = RemoveAt(tasks, k)
  <2> DEFINE First(i_1) == /\ file[tasks[i_1]].name = file[tasks[k]].name
                           /\ \A j \in 1 .. i_1 - 1 : file[tasks[j]].name # file[tasks[k]].name
  <2>1. \A j \in 1 .. n : file[tasks[j]].name = file[tasks[k]].name => j = k
    BY <1>1, <1>8 DEF Typed, IsInjective
  <2>2. First(k)
    <3>1. \A j \in 1 .. k - 1 : j \in 1 .. n /\ j # k
      BY <1>1, <1>8
    <3> QED BY <2>1, <3>1
  <2>3. \A m \in 1 .. n : First(m) => m = k
    BY <2>1
  <2>4. k = CHOOSE m \in DOMAIN tasks : First(m)
    <3> HIDE DEF First
    <3> QED BY <1>1, <1>8, <2>2, <2>3
  <2> QED BY <2>4 DEF delete
<1> QED BY <1>8, <1>9, <1>10, <1>11 DEF Taken, n

LEMMA BeforeIs ==
    ASSUME NEW n \in Nat, NEW k \in 1 .. n
    PROVE  /\ \A i \in 1 .. n - 1 : Before(k, i) \in 1 .. n /\ Before(k, i) # k
           /\ \A i, j \in 1 .. n - 1 : i < j => Before(k, i) < Before(k, j)
           /\ \A m \in 1 .. n : m # k => \E i \in 1 .. n - 1 : Before(k, i) = m
<1>1. \A i \in 1 .. n - 1 : Before(k, i) \in 1 .. n /\ Before(k, i) # k
  BY DEF Before
<1>2. \A i, j \in 1 .. n - 1 : i < j => Before(k, i) < Before(k, j)
  BY DEF Before
<1>3. ASSUME NEW m \in 1 .. n, m # k
      PROVE  \E i \in 1 .. n - 1 : Before(k, i) = m
  <2>1. CASE m < k
    <3>1. m \in 1 .. n - 1 /\ Before(k, m) = m
      BY <2>1 DEF Before
    <3> QED BY <3>1
  <2>2. CASE m > k
    <3>1. m - 1 \in 1 .. n - 1 /\ Before(k, m - 1) = m
      BY <2>2 DEF Before
    <3> QED BY <3>1
  <2> QED BY <1>3, <2>1, <2>2
<1> QED BY <1>1, <1>2, <1>3

(* Where the element at i of the list with the k-th put first was. *)
From(k, i) == IF i = 1 THEN k ELSE Before(k, i - 1)

(* Another list that has, in other places, the tasks of this one. *)
Chosen(list, from, n) ==
    /\ list \in Seq(1 .. Len(file)) /\ Len(list) = n
    /\ \A i \in 1 .. n : from[i] \in 1 .. Len(tasks) /\ list[i] = tasks[from[i]]
    /\ \A i, j \in 1 .. n : from[i] = from[j] => i = j

(* The list without its k-th task, and the list with that task put first. *)
ShortenedBy(list, from, k) ==
    /\ Chosen(list, from, Len(tasks) - 1)
    /\ \A i \in 1 .. Len(tasks) - 1 : from[i] # k
    /\ \A i, j \in 1 .. Len(tasks) - 1 : i < j => from[i] < from[j]
    /\ \A m \in 1 .. Len(tasks) : m # k => \E i \in 1 .. Len(tasks) - 1 : from[i] = m

RequeuedBy(list, from, k) ==
    /\ Chosen(list, from, Len(tasks))
    /\ from[1] = k /\ Len(tasks) >= 1
    /\ \A i \in 2 .. Len(tasks) : from[i] # k
    /\ \A i, j \in 2 .. Len(tasks) : i < j => from[i] < from[j]
    /\ \A m \in 1 .. Len(tasks) : \E i \in 1 .. Len(tasks) : from[i] = m

LEMMA Shortened ==
    ASSUME Typed, NEW k \in 1 .. Len(tasks), NEW list, list = RemoveAt(tasks, k)
    PROVE  \E from : ShortenedBy(list, from, k)
<1> DEFINE n == Len(tasks) - 1
           from == [i \in 1 .. n |-> Before(k, i)]
<1>1. Len(tasks) \in Nat /\ tasks \in Seq(1 .. Len(file))
  BY TypesAre
<1>2. /\ \A i \in 1 .. n : Before(k, i) \in 1 .. Len(tasks) /\ Before(k, i) # k
      /\ \A i, j \in 1 .. n : i < j => Before(k, i) < Before(k, j)
      /\ \A m \in 1 .. Len(tasks) : m # k => \E i \in 1 .. n : Before(k, i) = m
  BY <1>1, BeforeIs
<1>3. /\ list \in Seq(1 .. Len(file)) /\ Len(list) = n
      /\ \A i \in 1 .. n : list[i] = tasks[Before(k, i)]
  BY <1>1, RemoveAtIs
<1>4. \A i \in 1 .. n : from[i] = Before(k, i)
  OBVIOUS
<1>5. \A i \in 1 .. n : from[i] \in Int /\ i \in Int
  BY <1>1, <1>2, <1>4
<1> HIDE DEF from, n
<1>6. \A i, j \in 1 .. n : i < j => from[i] < from[j]
  BY <1>2, <1>4
<1>7. \A i, j \in 1 .. n : from[i] = from[j] => i = j
  BY <1>5, <1>6
<1>8. Chosen(list, from, n)
  BY <1>2, <1>3, <1>4, <1>7 DEF Chosen
<1>9. ShortenedBy(list, from, k)
  BY <1>2, <1>4, <1>6, <1>8 DEF ShortenedBy, n
<1> QED BY <1>9

LEMMA Requeued ==
    ASSUME Typed, NEW k \in 1 .. Len(tasks), NEW list, list = <<tasks[k]>> \o RemoveAt(tasks, k)
    PROVE  \E from : RequeuedBy(list, from, k)
<1> DEFINE n == Len(tasks)
           from == [i \in 1 .. n |-> From(k, i)]
           rest == RemoveAt(tasks, k)
<1>1. n \in Nat /\ tasks \in Seq(1 .. Len(file)) /\ tasks[k] \in 1 .. Len(file) /\ 1 \in 1 .. n
  BY TypesAre
<1>2. /\ \A i \in 1 .. n - 1 : Before(k, i) \in 1 .. n /\ Before(k, i) # k
      /\ \A i, j \in 1 .. n - 1 : i < j => Before(k, i) < Before(k, j)
      /\ \A m \in 1 .. n : m # k => \E i \in 1 .. n - 1 : Before(k, i) = m
  BY <1>1, BeforeIs
<1>3. /\ rest \in Seq(1 .. Len(file)) /\ Len(rest) = n - 1
      /\ \A i \in 1 .. n - 1 : rest[i] = tasks[Before(k, i)]
  BY <1>1, RemoveAtIs
<1> HIDE DEF rest
<1>4. /\ list \in Seq(1 .. Len(file)) /\ Len(list) = n
      /\ list[1] = tasks[k] /\ \A i \in 1 .. n - 1 : list[i + 1] = rest[i]
  <2>1. list = <<tasks[k]>> \o rest
    BY DEF rest
  <2> DEFINE t == tasks[k]
  <2>2. t \in 1 .. Len(file) /\ Len(rest) + 1 = n
    BY <1>1, <1>3
  <2> HIDE DEF t
  <2>3. /\ <<t>> \o rest \in Seq(1 .. Len(file)) /\ Len(<<t>> \o rest) = Len(rest) + 1
        /\ (<<t>> \o rest)[1] = t /\ \A i \in 1 .. Len(rest) : (<<t>> \o rest)[i + 1] = rest[i]
    BY <1>3, <2>2, PutFirstIs
  <2> QED BY <1>3, <2>1, <2>2, <2>3 DEF t
<1>5. from[1] = k /\ \A i \in 2 .. n : from[i] = Before(k, i - 1)
  BY <1>1 DEF From
<1> HIDE DEF from, n
<1>6. \A i \in 2 .. n : i - 1 \in 1 .. n - 1 /\ (i - 1) + 1 = i
  BY <1>1
<1>7. \A i \in 2 .. n : from[i] \in 1 .. n /\ from[i] # k /\ list[i] = tasks[from[i]]
  <2> SUFFICES ASSUME NEW i \in 2 .. n
               PROVE  from[i] \in 1 .. n /\ from[i] # k /\ list[i] = tasks[from[i]]
    OBVIOUS
  <2>1. i - 1 \in 1 .. n - 1 /\ (i - 1) + 1 = i
    BY <1>6
  <2>2. from[i] = Before(k, i - 1)
    BY <1>5
  <2>3. Before(k, i - 1) \in 1 .. n /\ Before(k, i - 1) # k
    BY <1>2, <2>1
  <2>4. list[(i - 1) + 1] = rest[i - 1] /\ rest[i - 1] = tasks[Before(k, i - 1)]
    BY <1>3, <1>4, <2>1
  <2> QED BY <2>1, <2>2, <2>3, <2>4
<1>8. \A i, j \in 2 .. n : i < j => from[i] < from[j]
  <2> SUFFICES ASSUME NEW i \in 2 .. n, NEW j \in 2 .. n, i < j
               PROVE  from[i] < from[j]
    OBVIOUS
  <2>1. i - 1 \in 1 .. n - 1 /\ j - 1 \in 1 .. n - 1 /\ i - 1 < j - 1
    BY <1>1
  <2> QED BY <1>2, <1>5, <2>1
<1>9. \A i \in 1 .. n : i = 1 \/ i \in 2 .. n
  BY <1>1
<1>10. ASSUME NEW i \in 1 .. n, NEW j \in 1 .. n, from[i] = from[j]
       PROVE  i = j
  <2>1. CASE i = 1 \/ j = 1
    BY <1>5, <1>7, <1>9, <1>10, <2>1
  <2>2. CASE i \in 2 .. n /\ j \in 2 .. n
    <3>1. ~(from[i] < from[j]) /\ ~(from[j] < from[i])
      BY <1>1, <1>7, <1>10, <2>2
    <3> QED BY <1>1, <1>8, <2>2, <3>1
  <2> QED BY <1>9, <2>1, <2>2
<1>11. ASSUME NEW m \in 1 .. n
       PROVE  \E i \in 1 .. n : from[i] = m
  <2>1. CASE m = k
    BY <1>1, <1>5, <2>1
  <2>2. CASE m # k
    <3>1. PICK i \in 1 .. n - 1 : Before(k, i) = m
      BY <1>2, <2>2
    <3>2. i + 1 \in 2 .. n /\ i + 1 \in 1 .. n /\ (i + 1) - 1 = i
      BY <1>1
    <3> QED BY <1>5, <3>1, <3>2
  <2> QED BY <2>1, <2>2
<1>12. \A i \in 1 .. n : from[i] \in 1 .. n /\ list[i] = tasks[from[i]]
  <2> SUFFICES ASSUME NEW i \in 1 .. n
               PROVE  from[i] \in 1 .. n /\ list[i] = tasks[from[i]]
    OBVIOUS
  <2>1. CASE i = 1
    <3>1. k \in 1 .. n
      BY DEF n
    <3> QED BY <1>4, <1>5, <2>1, <3>1
  <2>2. CASE i \in 2 .. n
    BY <1>7, <2>2
  <2> QED BY <1>9, <2>1, <2>2
<1>13. Chosen(list, from, n)
  BY <1>4, <1>10, <1>12 DEF Chosen, n
<1>14. n >= 1
  BY <1>1
<1>15. RequeuedBy(list, from, k)
  BY <1>5, <1>7, <1>8, <1>11, <1>13, <1>14 DEF RequeuedBy, n
<1> QED BY <1>15

-----------------------------------------------------------------------------
(* A line of the file *)

(* The step that adds task t. *)
Added(t) ==
    /\ main = "add" /\ t = Len(file) + 1 /\ t \in Tasks
    /\ Len(file') = t /\ \A u \in 1 .. Len(file) : file'[u] = file[u]
    /\ file'[t].burst = burst'[t] /\ burst'[t] \in Nat /\ file'[t].priority \in Int
    /\ \A u \in Tasks : u # t => burst'[u] = burst[u]
    /\ Len(tasks') = Len(tasks) + 1
    /\ tasks'[1] = t /\ \A i \in 1 .. Len(tasks) : tasks'[i + 1] = tasks[i]
    /\ UNCHANGED <<policy, freed, main, slices, ran, finished>>

LEMMA AddIs ==
    ASSUME DistinctNames, Typed,
           NEW name \in Names, NEW priority \in Priorities, NEW length \in Bursts,
           Add(name, priority, length)
    PROVE  Typed' /\ Added(Len(file) + 1)
<1> DEFINE t == Len(file) + 1
           line == [name |-> name, priority |-> priority, burst |-> length]
           Line == [name : Names, priority : Priorities, burst : Bursts]
<1>1. /\ main = "add" /\ t \in Tasks
      /\ \A i \in DOMAIN file : file[i].name # name
      /\ file' = Append(file, line)
      /\ burst' = [burst EXCEPT ![t] = length]
      /\ tasks' = <<t>> \o tasks
      /\ UNCHANGED <<policy, freed, main, slices, ran, finished>>
  BY DEF Add, insert
<1>2. /\ file \in Seq(Line) /\ policy \in Policies /\ freed \subseteq Tasks
      /\ main \in {"add", "schedule", "return"} /\ finished \in Seq(Tasks)
      /\ burst \in [Tasks -> Nat] /\ slices \in [Tasks -> Nat] /\ ran \in [Tasks -> Nat]
  BY DEF Typed, TypeOK
<1>3. /\ tasks \in Seq(1 .. Len(file)) /\ Len(tasks) \in Nat
      /\ \A i \in 1 .. Len(tasks) : tasks[i] \in 1 .. Len(file)
      /\ Len(file) \in Nat /\ MaxTasks \in Nat /\ DOMAIN file = 1 .. Len(file)
  BY TypesAre
<1>4. t \in Nat /\ t <= MaxTasks /\ t \in 1 .. t /\ t \notin 1 .. Len(file)
  BY <1>1, <1>3 DEF Tasks
<1>5. line \in Line /\ line.name = name /\ line.priority = priority /\ line.burst = length
  OBVIOUS
<1>6. length \in Nat /\ priority \in Int
  BY ConstantsAssumption
<1>7. /\ file' \in Seq(Line) /\ Len(file') = t /\ file'[t] = line
      /\ \A u \in 1 .. Len(file) : file'[u] = file[u]
  <2> HIDE DEF line, Line
  <2> QED BY <1>1, <1>2, <1>5, AppendProperties
<1>8. /\ burst' \in [Tasks -> Nat] /\ burst'[t] = length
      /\ \A u \in Tasks : u # t => burst'[u] = burst[u]
  <2> HIDE DEF t
  <2> QED BY <1>1, <1>2, <1>6
<1>9. /\ tasks' \in Seq(1 .. t) /\ Len(tasks') = Len(tasks) + 1
      /\ tasks'[1] = t /\ \A i \in 1 .. Len(tasks) : tasks'[i + 1] = tasks[i]
  <2>1. \A i \in 1 .. Len(tasks) : tasks[i] \in 1 .. t
    BY <1>3
  <2>2. tasks \in Seq(1 .. t)
    <3>1. 1 .. Len(file) \subseteq 1 .. t
      BY <1>3
    <3> QED BY <1>3, <3>1
  <2> HIDE DEF t
  <2> QED BY <1>1, <1>4, <2>2, PutFirstIs
<1>10. Added(t)
  <2>1. file'[t].burst = burst'[t] /\ burst'[t] \in Nat /\ file'[t].priority \in Int
    BY <1>5, <1>6, <1>7, <1>8
  <2> HIDE DEF line, Line
  <2> QED BY <1>1, <1>7, <1>8, <1>9, <2>1 DEF Added
<1>11. TypeOK'
  <2>1. freed' \subseteq Tasks' /\ finished' \in Seq(Tasks') /\ policy' \in Policies
    BY <1>1, <1>2 DEF Tasks
  <2> HIDE DEF line, t
  <2> QED BY <1>1, <1>2, <1>4, <1>7, <1>8, <1>9, <2>1 DEF TypeOK, Tasks, Line
<1>12. \A i, j \in DOMAIN file' : file'[i].name = file'[j].name => i = j
  <2> HIDE DEF t, line, Line
  <2>1. DOMAIN file' = 1 .. t
    BY <1>7, SequenceIs
  <2>2. \A i \in 1 .. t : i = t \/ i \in 1 .. Len(file)
    BY <1>3 DEF t
  <2>3. \A i \in 1 .. Len(file) : file'[i].name # name
    BY <1>1, <1>3, <1>7
  <2>4. file'[t].name = name
    BY <1>5, <1>7
  <2>5. \A i, j \in 1 .. Len(file) : file'[i].name = file'[j].name => i = j
    BY <1>3, <1>7 DEF Typed
  <2> QED BY <2>1, <2>2, <2>3, <2>4, <2>5
<1>13. IsInjective(tasks')
  <2> HIDE DEF t, line, Line
  <2>1. DOMAIN tasks' = 1 .. Len(tasks) + 1 /\ DOMAIN tasks = 1 .. Len(tasks)
    BY <1>3, <1>9, SequenceIs
  <2>2. \A i \in 1 .. Len(tasks) + 1 : i = 1 \/ (i - 1 \in 1 .. Len(tasks) /\ (i - 1) + 1 = i)
    BY <1>3
  <2>3. \A i \in 1 .. Len(tasks) + 1 : i = 1 \/ (i - 1 \in 1 .. Len(tasks) /\ tasks'[i] = tasks[i - 1])
    BY <1>9, <2>2
  <2>4. \A i, j \in 1 .. Len(tasks) : tasks[i] = tasks[j] => i = j
    BY <2>1 DEF Typed, IsInjective
  <2>5. \A i \in 1 .. Len(tasks) : tasks[i] # t
    BY <1>3, <1>4
  <2> SUFFICES ASSUME NEW i \in 1 .. Len(tasks) + 1, NEW j \in 1 .. Len(tasks) + 1,
                      tasks'[i] = tasks'[j]
               PROVE  i = j
    BY <2>1 DEF IsInjective
  <2>6. CASE i = 1 \/ j = 1
    BY <1>9, <2>3, <2>5, <2>6
  <2>7. CASE i # 1 /\ j # 1
    <3>1. i - 1 = j - 1
      BY <2>3, <2>4, <2>7
    <3> QED BY <3>1
  <2> QED BY <2>6, <2>7
<1>14. IsInjective(finished')
  BY <1>1 DEF Typed
<1> QED BY <1>10, <1>11, <1>12, <1>13, <1>14 DEF Typed

LEMMA AddKeeps ==
    ASSUME SchedulingInv, NEW t, Added(t)
    PROVE  Account' /\ Slicing' /\ ListOrder' /\ FinishOrder' /\ StrictOrder'
<1>1. /\ main = "add" /\ t = Len(file) + 1 /\ t \in Tasks
      /\ Len(file') = t /\ \A u \in 1 .. Len(file) : file'[u] = file[u]
      /\ file'[t].burst = burst'[t] /\ burst'[t] \in Nat /\ file'[t].priority \in Int
      /\ \A u \in Tasks : u # t => burst'[u] = burst[u]
      /\ Len(tasks') = Len(tasks) + 1
      /\ tasks'[1] = t /\ \A i \in 1 .. Len(tasks) : tasks'[i + 1] = tasks[i]
      /\ policy' = policy /\ freed' = freed /\ main' = main
      /\ slices' = slices /\ ran' = ran /\ finished' = finished
  BY DEF Added
<1>2. /\ Len(tasks) \in Nat /\ Len(file) \in Nat
      /\ \A i \in 1 .. Len(tasks) : tasks[i] \in 1 .. Len(file)
      /\ \A u \in 1 .. Len(file) : u \in Tasks
      /\ \A u \in Tasks : u \in Int /\ slices[u] \in Nat
      /\ \A u \in 1 .. Len(file) : file[u].priority \in Int
      /\ Len(finished) \in Nat
  BY TypesAre DEF SchedulingInv
<1>3. \A u \in 1 .. t : u = t \/ (u \in 1 .. Len(file) /\ u < t)
  BY <1>1, <1>2
<1>4. \A i \in 1 .. Len(tasks') : i = 1 \/ (i - 1 \in 1 .. Len(tasks) /\ (i - 1) + 1 = i)
  BY <1>1, <1>2
<1>5. \A i \in 1 .. Len(tasks') : i = 1 \/ (i - 1 \in 1 .. Len(tasks) /\ tasks'[i] = tasks[i - 1])
  BY <1>1, <1>4
<1>6. /\ freed = {} /\ \A u \in Tasks : slices[u] = 0
      /\ freed = {finished[i] : i \in 1 .. Len(finished)}
  BY <1>1 DEF SchedulingInv, Account
<1>7. Len(finished) = 0
  <2>1. \A i \in 1 .. Len(finished) : finished[i] \in freed
    BY <1>6
  <2>2. 1 \notin 1 .. Len(finished)
    BY <1>6, <2>1
  <2> QED BY <1>2, <2>2
<1>8. \A u \in 1 .. Len(file) : Listed(u)' <=> Listed(u)
  <2> SUFFICES ASSUME NEW u \in 1 .. Len(file)
               PROVE  Listed(u)' <=> Listed(u)
    OBVIOUS
  <2>1. u # t
    BY <1>1, <1>2
  <2>2. ASSUME NEW i \in 1 .. Len(tasks'), tasks'[i] = u
        PROVE  Listed(u)
    <3>1. i - 1 \in 1 .. Len(tasks) /\ tasks[i - 1] = u
      BY <1>1, <1>5, <2>1, <2>2
    <3> QED BY <3>1 DEF Listed
  <2>3. ASSUME NEW i \in 1 .. Len(tasks), tasks[i] = u
        PROVE  Listed(u)'
    <3>1. i + 1 \in 1 .. Len(tasks')
      BY <1>1, <1>2
    <3> QED BY <1>1, <2>3, <3>1 DEF Listed
  <2> QED BY <2>2, <2>3 DEF Listed
<1>9. Listed(t)'
  <2>1. 1 \in 1 .. Len(tasks')
    BY <1>1, <1>2
  <2> QED BY <1>1, <2>1 DEF Listed
<1>10. ran[t] = 0 /\ t \notin freed
  <2>1. t > Len(file)
    BY <1>1, <1>2
  <2> QED BY <1>1, <2>1 DEF SchedulingInv, Account
<1>11. Account'
  <2>1. ASSUME NEW u \in 1 .. Len(file')
        PROVE  /\ Listed(u)' => ran'[u] + burst'[u] = file'[u].burst /\ u \notin freed'
               /\ ~Listed(u)' => ran'[u] = file'[u].burst /\ u \in freed'
    <3>1. CASE u = t
      <4>1. 0 + burst'[t] = file'[t].burst
        BY <1>1
      <4> QED BY <1>1, <1>9, <1>10, <3>1, <4>1
    <3>2. CASE u # t
      <4>1. u \in 1 .. Len(file) /\ u \in Tasks
        BY <1>1, <1>2, <1>3, <3>2
      <4>2. /\ Listed(u) => ran[u] + burst[u] = file[u].burst /\ u \notin freed
            /\ ~Listed(u) => ran[u] = file[u].burst /\ u \in freed
        BY <4>1 DEF SchedulingInv, Account
      <4> QED BY <1>1, <1>8, <3>2, <4>1, <4>2
    <3> QED BY <3>1, <3>2
  <2>2. \A u \in Tasks : u > Len(file') => slices'[u] = 0 /\ ran'[u] = 0 /\ u \notin freed'
    <3>1. \A u \in Tasks : u > Len(file') => u > Len(file)
      BY <1>1, <1>2
    <3> QED BY <1>1, <3>1 DEF SchedulingInv, Account
  <2>3. policy' \notin RoundRobin => \A u \in 1 .. Len(file') : burst'[u] = file'[u].burst
    <3>1. policy \notin RoundRobin => \A u \in 1 .. Len(file) : burst[u] = file[u].burst
      BY DEF SchedulingInv, Account
    <3>2. \A u \in 1 .. Len(file) : u # t
      BY <1>1, <1>2
    <3> QED BY <1>1, <1>2, <1>3, <3>1, <3>2
  <2>4. main' = "add" => freed' = {} /\ \A u \in Tasks : slices'[u] = 0
    BY <1>1, <1>6
  <2>5. freed' = {finished'[i] : i \in 1 .. Len(finished')}
    BY <1>1, <1>6
  <2> HIDE <1>1
  <2> QED BY <2>1, <2>2, <2>3, <2>4, <2>5 DEF Account, RoundRobin, Tasks
<1>12. ListOrder'
  <2> SUFFICES ASSUME NEW i \in 1 .. Len(tasks'), NEW j \in 1 .. Len(tasks'), i < j
               PROVE  /\ policy' \notin RoundRobin => tasks'[i] > tasks'[j]
                      /\ Rivals(tasks[i], tasks[j])' => Turn(tasks[i], tasks[j])'
    BY DEF ListOrder, RoundRobin
  <2>1. j - 1 \in 1 .. Len(tasks) /\ tasks'[j] = tasks[j - 1]
    BY <1>5
  <2>2. tasks'[j] \in 1 .. Len(file)
    BY <1>2, <2>1
  <2>3. CASE i = 1
    <3>1. t > tasks'[j]
      BY <1>1, <1>2, <2>2
    <3>2. slices'[t] = slices'[tasks'[j]]
      BY <1>1, <1>2, <1>6, <2>2
    <3> QED BY <1>1, <2>3, <3>1, <3>2 DEF Turn
  <2>4. CASE i # 1
    <3>1. i - 1 \in 1 .. Len(tasks) /\ tasks'[i] = tasks[i - 1] /\ i - 1 < j - 1
      BY <1>5, <2>4
    <3>2. /\ policy \notin RoundRobin => tasks[i - 1] > tasks[j - 1]
          /\ Rivals(tasks[i - 1], tasks[j - 1]) => Turn(tasks[i - 1], tasks[j - 1])
      BY <2>1, <3>1 DEF SchedulingInv, ListOrder
    <3>3. tasks'[i] \in 1 .. Len(file)
      BY <1>2, <3>1
    <3>4. Rivals(tasks[i], tasks[j])' => Rivals(tasks[i - 1], tasks[j - 1])
      BY <1>1, <2>1, <2>2, <3>1, <3>3 DEF Rivals
    <3>5. Turn(tasks[i - 1], tasks[j - 1]) => Turn(tasks[i], tasks[j])'
      BY <1>1, <2>1, <3>1 DEF Turn
    <3> QED BY <1>1, <2>1, <3>1, <3>2, <3>4, <3>5
  <2> QED BY <2>3, <2>4
<1>13. FinishOrder'
  BY <1>1, <1>7 DEF FinishOrder
<1>14. StrictOrder'
  <2>1. \A u \in 1 .. Len(file') : slices'[u] = 0
    BY <1>1, <1>2, <1>3, <1>6
  <2> QED BY <2>1 DEF StrictOrder
<1>15. Slicing'
  <2> SUFFICES ASSUME NEW u \in 1 .. Len(file')
               PROVE  IF Listed(u)' THEN WholeSlices(u)' ELSE FewestSlices(u)'
    BY DEF Slicing
  <2>1. CASE u = t
    <3>1. slices[t] = 0 /\ 0 * QUANTUM = 0
      BY <1>1, <1>6, ConstantsAssumption
    <3> QED BY <1>1, <1>9, <1>10, <2>1, <3>1 DEF WholeSlices
  <2>2. CASE u # t
    <3>1. u \in 1 .. Len(file) /\ u \in Tasks
      BY <1>1, <1>2, <1>3, <2>2
    <3>2. slices'[u] = slices[u] /\ ran'[u] = ran[u] /\ burst'[u] = burst[u] /\ policy' = policy
      BY <1>1, <2>2, <3>1
    <3>3. IF Listed(u) THEN WholeSlices(u) ELSE FewestSlices(u)
      BY <3>1 DEF SchedulingInv, Slicing
    <3> QED BY <1>8, <3>1, <3>2, <3>3 DEF WholeSlices, FewestSlices, RoundRobin
  <2> QED BY <2>1, <2>2
<1> QED BY <1>11, <1>12, <1>13, <1>14, <1>15

-----------------------------------------------------------------------------
(* A run of a task *)

(* What a run of the k-th task for so many units does to the counters. *)
RunFor(k, units) ==
    /\ slices'[tasks[k]] = slices[tasks[k]] + 1
    /\ ran'[tasks[k]] = ran[tasks[k]] + units
    /\ \A u \in Tasks : u # tasks[k] => slices'[u] = slices[u] /\ ran'[u] = ran[u]
    /\ slices' \in [Tasks -> Nat] /\ ran' \in [Tasks -> Nat]
    /\ main = "schedule" /\ UNCHANGED <<policy, file, main>>

(* The two outcomes of a step of the scheduler for the k-th task. *)
Preempted(k, from) ==
    /\ Taken(k) /\ RequeuedBy(tasks', from, k)
    /\ RunFor(k, QUANTUM)
    /\ policy \in RoundRobin /\ burst[tasks[k]] > QUANTUM
    /\ burst'[tasks[k]] = burst[tasks[k]] - QUANTUM
    /\ \A u \in Tasks : u # tasks[k] => burst'[u] = burst[u]
    /\ burst' \in [Tasks -> Nat]
    /\ UNCHANGED <<freed, finished>>

Completed(k, from) ==
    /\ Taken(k) /\ ShortenedBy(tasks', from, k)
    /\ RunFor(k, burst[tasks[k]])
    /\ policy \in RoundRobin => burst[tasks[k]] <= QUANTUM
    /\ freed' = freed \cup {tasks[k]}
    /\ finished' = Append(finished, tasks[k])
    /\ UNCHANGED burst

LEMMA RunIs ==
    ASSUME Typed, NEW k \in 1 .. Len(tasks), NEW units \in Nat, slice(tasks[k]) = units,
           Run(tasks[k]), main = "schedule", UNCHANGED <<policy, file, main>>
    PROVE  RunFor(k, units)
<1> DEFINE t == tasks[k]
           r == ran[t] + units
           s == slices[t] + 1
<1>1. t \in Tasks /\ slices[t] \in Nat /\ ran[t] \in Nat
  BY TypesAre
<1>2. slices \in [Tasks -> Nat] /\ ran \in [Tasks -> Nat]
  BY DEF Typed, TypeOK
<1>3. r \in Nat /\ s \in Nat
  BY <1>1
<1>4. slices' = [slices EXCEPT ![t] = s] /\ ran' = [ran EXCEPT ![t] = r]
  BY DEF Run
<1> HIDE DEF t, r, s
<1>5. /\ slices'[t] = s /\ ran'[t] = r
      /\ \A u \in Tasks : u # t => slices'[u] = slices[u] /\ ran'[u] = ran[u]
      /\ slices' \in [Tasks -> Nat] /\ ran' \in [Tasks -> Nat]
  BY <1>1, <1>2, <1>3, <1>4
<1> QED BY <1>5 DEF RunFor, t, r, s

LEMMA ScheduleIs ==
    ASSUME Typed, Schedule
    PROVE  \E k \in 1 .. Len(tasks) : \E from : Preempted(k, from) \/ Completed(k, from)
<1>1. /\ main = "schedule" /\ tasks # <<>> /\ UNCHANGED <<policy, file, main>>
      /\ IF preempted(get_next) THEN Preempt(get_next) ELSE Complete(get_next)
  BY DEF Schedule
<1>2. PICK k \in 1 .. Len(tasks) : Taken(k)
  BY <1>1, GetNext
<1> DEFINE t == tasks[k]
<1>3. get_next = t /\ delete(t) = RemoveAt(tasks, k)
  BY <1>2 DEF Taken
<1>4. t \in Tasks /\ burst[t] \in Nat /\ QUANTUM \in Nat \ {0} /\ burst \in [Tasks -> Nat]
  BY TypesAre, ConstantsAssumption DEF Typed, TypeOK
<1> HIDE DEF t
<1>5. CASE preempted(t)
  <2>1. Preempt(t)
    BY <1>1, <1>3, <1>5
  <2>2. policy \in RoundRobin /\ burst[t] > QUANTUM /\ slice(t) = QUANTUM
    BY <1>4, <1>5 DEF slice, preempted
  <2>3. RunFor(k, QUANTUM)
    BY <1>1, <1>4, <2>1, <2>2, RunIs DEF Preempt, t
  <2>4. tasks' = <<tasks[k]>> \o RemoveAt(tasks, k)
    BY <1>3, <2>1 DEF Preempt, insert, t
  <2>5. PICK from : RequeuedBy(tasks', from, k)
    BY <2>4, Requeued
  <2> DEFINE b == burst[t] - QUANTUM
  <2>6. b \in Nat /\ burst' = [burst EXCEPT ![t] = b] /\ freed' = freed /\ finished' = finished
    BY <1>4, <2>1, <2>2 DEF Preempt
  <2> HIDE DEF b
  <2>7. /\ burst'[t] = b /\ \A u \in Tasks : u # t => burst'[u] = burst[u]
        /\ burst' \in [Tasks -> Nat]
    BY <1>4, <2>6
  <2>8. Preempted(k, from)
    BY <1>2, <2>2, <2>3, <2>5, <2>6, <2>7 DEF Preempted, t, b
  <2> QED BY <2>8
<1>6. CASE ~preempted(t)
  <2>1. Complete(t)
    BY <1>1, <1>3, <1>6
  <2>2. slice(t) = burst[t] /\ (policy \in RoundRobin => burst[t] <= QUANTUM)
    BY <1>4, <1>6 DEF slice, preempted
  <2>3. RunFor(k, burst[t])
    BY <1>1, <1>4, <2>1, <2>2, RunIs DEF Complete, t
  <2>4. tasks' = RemoveAt(tasks, k)
    BY <1>3, <2>1 DEF Complete
  <2>5. PICK from : ShortenedBy(tasks', from, k)
    BY <2>4, Shortened
  <2>6. freed' = freed \cup {t} /\ finished' = Append(finished, t) /\ burst' = burst
    BY <2>1 DEF Complete
  <2>7. Completed(k, from)
    BY <1>2, <2>2, <2>3, <2>5, <2>6 DEF Completed, t
  <2> QED BY <2>7
<1> QED BY <1>5, <1>6

(* The list of the next state. *)
LEMMA NextList ==
    ASSUME Typed, NEW from, NEW n, Chosen(tasks', from, n), file' = file
    PROVE  tasks' \in Seq(1 .. Len(file')) /\ IsInjective(tasks')
<1>1. /\ tasks' \in Seq(1 .. Len(file)) /\ Len(tasks') = n
      /\ \A i \in 1 .. n : from[i] \in 1 .. Len(tasks) /\ tasks'[i] = tasks[from[i]]
      /\ \A i, j \in 1 .. n : from[i] = from[j] => i = j
  BY DEF Chosen
<1>2. DOMAIN tasks' = 1 .. n /\ DOMAIN tasks = 1 .. Len(tasks)
  BY <1>1, TypesAre, SequenceIs
<1>3. \A i, j \in 1 .. Len(tasks) : tasks[i] = tasks[j] => i = j
  BY <1>2 DEF Typed, IsInjective
<1>4. IsInjective(tasks')
  BY <1>1, <1>2, <1>3 DEF IsInjective
<1> QED BY <1>1, <1>4

LEMMA PreemptTyped ==
    ASSUME Typed, NEW k \in 1 .. Len(tasks), NEW from, Preempted(k, from)
    PROVE  Typed'
<1>1. /\ RequeuedBy(tasks', from, k) /\ RunFor(k, QUANTUM)
      /\ burst' \in [Tasks -> Nat] /\ freed' = freed /\ finished' = finished
  BY DEF Preempted
<1>2. /\ policy' = policy /\ file' = file /\ main' = main
      /\ slices' \in [Tasks -> Nat] /\ ran' \in [Tasks -> Nat]
  BY <1>1 DEF RunFor
<1>3. tasks' \in Seq(1 .. Len(file')) /\ IsInjective(tasks')
  BY <1>1, <1>2, NextList DEF RequeuedBy
<1>4. TypeOK'
  <2> HIDE <1>1
  <2>1. burst' \in [Tasks -> Nat] /\ freed' = freed /\ finished' = finished
    BY <1>1
  <2> QED BY <1>2, <1>3, <2>1 DEF Typed, TypeOK, Tasks, Policies
<1> QED BY <1>1, <1>2, <1>3, <1>4 DEF Typed, IsInjective

LEMMA CompleteTyped ==
    ASSUME Typed, Account, NEW k \in 1 .. Len(tasks), NEW from, Completed(k, from)
    PROVE  Typed'
<1> DEFINE t == tasks[k]
<1>1. /\ ShortenedBy(tasks', from, k) /\ RunFor(k, burst[t])
      /\ burst' = burst /\ freed' = freed \cup {t} /\ finished' = Append(finished, t)
  BY DEF Completed
<1>2. /\ policy' = policy /\ file' = file /\ main' = main
      /\ slices' \in [Tasks -> Nat] /\ ran' \in [Tasks -> Nat]
  BY <1>1 DEF RunFor
<1>3. tasks' \in Seq(1 .. Len(file')) /\ IsInjective(tasks')
  BY <1>1, <1>2, NextList DEF ShortenedBy
<1>4. /\ t \in Tasks /\ t \in 1 .. Len(file) /\ finished \in Seq(Tasks) /\ Len(finished) \in Nat
      /\ freed \subseteq Tasks
  BY TypesAre DEF Typed, TypeOK
<1>5. Listed(t)
  BY DEF Listed
<1> HIDE DEF t
<1>6. t \notin freed
  BY <1>4, <1>5 DEF Account
<1>7. /\ finished' \in Seq(Tasks) /\ Len(finished') = Len(finished) + 1
      /\ \A i \in 1 .. Len(finished) : finished'[i] = finished[i]
      /\ finished'[Len(finished) + 1] = t
  BY <1>1, <1>4, AppendProperties
<1>8. IsInjective(finished')
  <2> DEFINE n == Len(finished)
  <2>1. DOMAIN finished' = 1 .. n + 1 /\ DOMAIN finished = 1 .. n
    BY <1>4, <1>7, SequenceIs
  <2>2. \A i \in 1 .. n : finished[i] # t
    BY <1>6 DEF Account
  <2>3. \A i, j \in 1 .. n : finished[i] = finished[j] => i = j
    BY <2>1 DEF Typed, IsInjective
  <2>4. \A i \in 1 .. n + 1 : i = n + 1 \/ i \in 1 .. n
    BY <1>4
  <2> HIDE DEF n
  <2>5. /\ \A i \in 1 .. n : finished'[i] = finished[i]
        /\ finished'[n + 1] = t
    BY <1>7 DEF n
  <2>6. \A i, j \in 1 .. n + 1 : finished'[i] = finished'[j] => i = j
    BY <2>2, <2>3, <2>4, <2>5
  <2> QED BY <2>1, <2>6 DEF IsInjective
<1>9. freed' \subseteq Tasks
  BY <1>1, <1>4
<1>10. TypeOK'
  <2>1. burst' = burst
    BY <1>1
  <2> HIDE <1>1
  <2> QED BY <1>2, <1>3, <1>7, <1>9, <2>1 DEF Typed, TypeOK, Tasks, Policies
<1> QED BY <1>2, <1>3, <1>8, <1>10 DEF Typed, IsInjective

(* What is true of the task that is taken, for each of the properties. *)
LEMMA TakenIsHighest ==
    ASSUME Typed, NEW k \in 1 .. Len(tasks), Taken(k), policy \in {"priority", "priority_rr"},
           NEW j \in 1 .. Len(tasks)
    PROVE  file[tasks[k]].priority >= file[tasks[j]].priority
<1>1. file[tasks[k]].priority \in Int /\ file[tasks[j]].priority \in Int
  BY TypesAre
<1>2. Key(tasks[k]) = -file[tasks[k]].priority /\ Key(tasks[j]) = -file[tasks[j]].priority
  BY DEF Key
<1>3. j = k \/ Key(tasks[k]) < Key(tasks[j]) \/ Key(tasks[j]) >= Key(tasks[k])
  BY DEF Taken
<1> QED BY <1>1, <1>2, <1>3

LEMMA TakenIsLastRival ==
    ASSUME Typed, NEW k \in 1 .. Len(tasks), Taken(k),
           NEW j \in 1 .. Len(tasks), Rivals(tasks[k], tasks[j]), j # k
    PROVE  j < k
<1>1. tasks[k] \in 1 .. Len(file) /\ tasks[j] \in 1 .. Len(file) /\ j \in Int /\ k \in Int
  BY TypesAre
<1>2. Key(tasks[k]) = Key(tasks[j]) /\ Key(tasks[k]) \in Int
  BY <1>1, BetterIs DEF Key, Rivals
<1> QED BY <1>1, <1>2 DEF Taken

LEMMA TakenIsPrior ==
    ASSUME SchedulingInv, NEW k \in 1 .. Len(tasks), Taken(k), NEW j \in 1 .. Len(tasks), j # k
    PROVE  Prior(tasks[k], tasks[j])
<1> DEFINE t == tasks[k]
           u == tasks[j]
<1>1. /\ t \in 1 .. Len(file) /\ u \in 1 .. Len(file) /\ t \in Int /\ u \in Int
      /\ j \in Int /\ k \in Int
      /\ file[t].priority \in Int /\ file[u].priority \in Int
      /\ file[t].burst \in Nat /\ file[u].burst \in Nat
  BY TypesAre DEF SchedulingInv
<1>2. \/ Key(t) < Key(u)
      \/ Key(u) >= Key(t) /\ k > j
  BY DEF Taken
<1>3. policy \notin RoundRobin => (k > j => u > t) /\ burst[t] = file[t].burst /\ burst[u] = file[u].burst
  BY <1>1 DEF SchedulingInv, ListOrder, Account
<1> HIDE DEF t, u
<1>4. CASE policy = "fcfs"
  <2>1. Key(t) = 0 /\ Key(u) = 0 /\ policy \notin RoundRobin
    BY <1>4 DEF Key, RoundRobin
  <2> QED BY <1>1, <1>2, <1>3, <1>4, <2>1 DEF Prior, t, u
<1>5. CASE policy = "sjf"
  <2>1. Key(t) = burst[t] /\ Key(u) = burst[u] /\ policy \notin RoundRobin
    BY <1>5 DEF Key, RoundRobin
  <2>2. file[t].burst < file[u].burst \/ (file[t].burst = file[u].burst /\ t < u)
    BY <1>1, <1>2, <1>3, <2>1
  <2> QED BY <1>5, <2>2 DEF Prior, t, u
<1>6. CASE policy = "priority"
  <2>1. Key(t) = -file[t].priority /\ Key(u) = -file[u].priority /\ policy \notin RoundRobin
    BY <1>6 DEF Key, RoundRobin
  <2>2. file[t].priority > file[u].priority \/ (file[t].priority = file[u].priority /\ t < u)
    BY <1>1, <1>2, <1>3, <2>1
  <2> QED BY <1>6, <2>2 DEF Prior, t, u
<1> QED BY <1>4, <1>5, <1>6 DEF Prior, t, u

(* A run keeps the strict order of the priorities. *)
LEMMA RunKeepsStrict ==
    ASSUME SchedulingInv, NEW k \in 1 .. Len(tasks), Taken(k), NEW units, RunFor(k, units),
           NEW n, NEW from, Chosen(tasks', from, n)
    PROVE  StrictOrder'
<1>1. /\ \A u \in Tasks : u # tasks[k] => slices'[u] = slices[u]
      /\ policy' = policy /\ file' = file
  BY DEF RunFor
<1>2. /\ Len(tasks') = n
      /\ \A i \in 1 .. n : from[i] \in 1 .. Len(tasks) /\ tasks'[i] = tasks[from[i]]
  BY DEF Chosen
<1> SUFFICES ASSUME policy \in {"priority", "priority_rr"},
                    NEW i \in 1 .. n, NEW u \in 1 .. Len(file),
                    file[tasks'[i]].priority > file[u].priority
             PROVE  slices'[u] = 0
  BY <1>1, <1>2 DEF StrictOrder
<1>3. from[i] \in 1 .. Len(tasks) /\ tasks'[i] = tasks[from[i]]
  BY <1>2
<1>4. Typed
  BY DEF SchedulingInv
<1>5. /\ u \in Tasks /\ file[u].priority \in Int /\ file[tasks[k]].priority \in Int
      /\ file[tasks[from[i]]].priority \in Int
  BY <1>3, <1>4, TypesAre
<1>6. file[tasks[k]].priority >= file[tasks[from[i]]].priority
  BY <1>3, <1>4, TakenIsHighest
<1>7. u # tasks[k]
  BY <1>3, <1>5, <1>6
<1>8. slices[u] = 0
  BY <1>3 DEF SchedulingInv, StrictOrder
<1> QED BY <1>1, <1>5, <1>7, <1>8

(* A run leaves the slices of the other tasks as they were.                *)
LEMMA OthersSlices ==
    ASSUME SchedulingInv, NEW k \in 1 .. Len(tasks), NEW units, RunFor(k, units),
           NEW u \in 1 .. Len(file), u # tasks[k], Listed(u)' <=> Listed(u), burst'[u] = burst[u]
    PROVE  IF Listed(u)' THEN WholeSlices(u)' ELSE FewestSlices(u)'
<1>1. u \in Tasks
  BY TypesAre DEF SchedulingInv
<1>2. slices'[u] = slices[u] /\ ran'[u] = ran[u] /\ policy' = policy
  BY <1>1 DEF RunFor
<1>3. IF Listed(u) THEN WholeSlices(u) ELSE FewestSlices(u)
  BY DEF SchedulingInv, Slicing
<1> QED BY <1>2, <1>3 DEF WholeSlices, FewestSlices, RoundRobin

LEMMA PreemptKeeps ==
    ASSUME SchedulingInv, NEW k \in 1 .. Len(tasks), NEW from, Preempted(k, from)
    PROVE  Account' /\ Slicing' /\ ListOrder' /\ FinishOrder' /\ StrictOrder'
<1> DEFINE t == tasks[k]
           n == Len(tasks)
<1>1. /\ Taken(k) /\ RequeuedBy(tasks', from, k) /\ RunFor(k, QUANTUM)
      /\ policy \in RoundRobin /\ burst[t] > QUANTUM /\ burst'[t] = burst[t] - QUANTUM
      /\ \A u \in Tasks : u # t => burst'[u] = burst[u]
      /\ freed' = freed /\ finished' = finished
  BY DEF Preempted
<1>2. /\ slices'[t] = slices[t] + 1 /\ ran'[t] = ran[t] + QUANTUM
      /\ \A u \in Tasks : u # t => slices'[u] = slices[u] /\ ran'[u] = ran[u]
      /\ main = "schedule" /\ policy' = policy /\ file' = file /\ main' = main
  BY <1>1 DEF RunFor
<1>3. /\ Chosen(tasks', from, n) /\ from[1] = k /\ n >= 1
      /\ \A i \in 2 .. n : from[i] # k
      /\ \A i, j \in 2 .. n : i < j => from[i] < from[j]
      /\ \A m \in 1 .. n : \E i \in 1 .. n : from[i] = m
  BY <1>1 DEF RequeuedBy
<1>4. /\ Len(tasks') = n
      /\ \A i \in 1 .. n : from[i] \in 1 .. n /\ tasks'[i] = tasks[from[i]]
  BY <1>3 DEF Chosen
<1>5. Typed /\ Account /\ ListOrder /\ QUANTUM \in Nat \ {0}
  BY ConstantsAssumption DEF SchedulingInv
<1>6. /\ t \in 1 .. Len(file) /\ t \in Tasks /\ n \in Nat
      /\ \A u \in 1 .. Len(file) : u \in Tasks
      /\ burst[t] \in Nat /\ slices[t] \in Nat /\ ran[t] \in Nat /\ file[t].burst \in Nat
      /\ Len(file) \in Nat
  BY <1>5, TypesAre
<1>7. \A i \in 1 .. n : tasks[i] \in 1 .. Len(file) /\ tasks[i] \in Tasks
  BY <1>5, TypesAre
<1>8. \A i \in 1 .. n : i # k => tasks[i] # t
  BY <1>5, TypesAre DEF Typed, IsInjective
<1>9. Listed(t)
  BY DEF Listed
<1> HIDE DEF t
<1>10. \A u : Listed(u)' <=> Listed(u)
  <2> SUFFICES ASSUME NEW u
               PROVE  Listed(u)' <=> Listed(u)
    OBVIOUS
  <2>1. Listed(u)' => Listed(u)
    BY <1>4 DEF Listed
  <2>2. ASSUME NEW m \in 1 .. n, tasks[m] = u
        PROVE  Listed(u)'
    <3>1. PICK i \in 1 .. n : from[i] = m
      BY <1>3
    <3>2. tasks'[i] = u
      BY <1>4, <2>2, <3>1
    <3> QED BY <1>4, <3>2 DEF Listed
  <2> QED BY <2>1, <2>2 DEF Listed
<1>11. Account'
  <2>1. ASSUME NEW u \in 1 .. Len(file)
        PROVE  /\ Listed(u) => ran'[u] + burst'[u] = file[u].burst /\ u \notin freed
               /\ ~Listed(u) => ran'[u] = file[u].burst /\ u \in freed
    <3>1. CASE u = t
      <4>1. ran[t] + burst[t] = file[t].burst /\ t \notin freed
        BY <1>5, <1>6, <1>9 DEF Account
      <4>2. (ran[t] + QUANTUM) + (burst[t] - QUANTUM) = file[t].burst
        BY <1>5, <1>6, <4>1
      <4> QED BY <1>1, <1>2, <1>9, <3>1, <4>1, <4>2
    <3>2. CASE u # t
      BY <1>1, <1>2, <1>5, <1>6, <3>2 DEF Account
    <3> QED BY <3>1, <3>2
  <2>2. \A u \in Tasks : u > Len(file) => slices'[u] = 0 /\ ran'[u] = 0 /\ u \notin freed
    <3>1. \A u \in Tasks : u > Len(file) => u # t
      BY <1>6
    <3> QED BY <1>2, <1>5, <3>1 DEF Account
  <2>3. freed' = {finished'[i] : i \in 1 .. Len(finished')}
    BY <1>1, <1>5 DEF Account
  <2>4. main' # "add" /\ policy' \in RoundRobin
    BY <1>1, <1>2
  <2>5. ASSUME NEW u \in 1 .. Len(file')
        PROVE  /\ Listed(u)' => ran'[u] + burst'[u] = file'[u].burst /\ u \notin freed'
               /\ ~Listed(u)' => ran'[u] = file'[u].burst /\ u \in freed'
    BY <1>1, <1>2, <1>10, <2>1
  <2>6. \A u \in Tasks : u > Len(file') => slices'[u] = 0 /\ ran'[u] = 0 /\ u \notin freed'
    BY <1>1, <1>2, <2>2
  <2> HIDE <1>1, <1>2
  <2> QED BY <2>3, <2>4, <2>5, <2>6 DEF Account, RoundRobin, Tasks
<1>12. ListOrder'
  <2> SUFFICES ASSUME NEW i \in 1 .. n, NEW j \in 1 .. n, i < j,
                      Rivals(tasks[i], tasks[j])'
               PROVE  Turn(tasks[i], tasks[j])'
    BY <1>1, <1>2, <1>4 DEF ListOrder, RoundRobin
  <2>1. j \in 2 .. n /\ i \in Int
    OBVIOUS
  <2>2. /\ from[i] \in 1 .. n /\ from[j] \in 1 .. n /\ from[j] # k
        /\ tasks'[i] = tasks[from[i]] /\ tasks'[j] = tasks[from[j]]
    BY <1>3, <1>4, <2>1
  <2>3. Rivals(tasks[from[i]], tasks[from[j]])
    BY <1>2, <2>2 DEF Rivals
  <2>4. tasks[from[j]] # t /\ tasks[from[j]] \in Tasks /\ slices'[tasks[from[j]]] = slices[tasks[from[j]]]
    BY <1>2, <1>7, <1>8, <2>2
  <2>5. CASE i = 1
    <3> DEFINE m == from[j]
               u == tasks[m]
    <3>1. from[i] = k
      BY <1>3, <2>5
    <3>2. m < k
      BY <1>1, <1>5, <2>2, <2>3, <3>1, TakenIsLastRival
    <3>3. Rivals(u, t)
      BY <2>3, <3>1 DEF Rivals, t
    <3>4. Turn(u, t)
      BY <1>5, <2>2, <3>2, <3>3 DEF ListOrder, t
    <3>5. u \in Tasks /\ u \in Int /\ t \in Int /\ slices[u] \in Nat
      BY <1>5, <1>6, <2>4, TypesAre
    <3>6. tasks'[i] = t /\ tasks'[j] = u
      BY <2>2, <3>1 DEF t
    <3>7. slices'[u] = slices[u]
      BY <2>4
    <3> HIDE DEF m, u
    <3>8. \/ slices'[t] = slices'[u] /\ t > u
          \/ slices'[t] = slices'[u] + 1 /\ t < u
      BY <1>2, <1>6, <3>4, <3>5, <3>7 DEF Turn
    <3> QED BY <3>6, <3>8 DEF Turn
  <2>6. CASE i # 1
    <3>1. i \in 2 .. n
      BY <2>1, <2>6
    <3>2. from[i] # k /\ from[i] < from[j]
      BY <1>3, <2>1, <3>1
    <3>3. slices'[tasks[from[i]]] = slices[tasks[from[i]]]
      BY <1>2, <1>7, <1>8, <2>2, <3>2
    <3>4. Turn(tasks[from[i]], tasks[from[j]])
      BY <1>5, <2>2, <2>3, <3>2 DEF ListOrder
    <3> QED BY <2>2, <2>4, <3>3, <3>4 DEF Turn
  <2> QED BY <2>5, <2>6
<1>13. FinishOrder'
  <2>1. policy' \notin {"fcfs", "sjf", "priority"}
    BY <1>1, <1>2 DEF RoundRobin
  <2> QED BY <2>1 DEF FinishOrder, Prior
<1>14. StrictOrder'
  BY <1>1, <1>3, RunKeepsStrict
<1>15. Slicing'
  <2> SUFFICES ASSUME NEW u \in 1 .. Len(file)
               PROVE  IF Listed(u)' THEN WholeSlices(u)' ELSE FewestSlices(u)'
    BY <1>2 DEF Slicing
  <2>1. CASE u = t
    <3>1. ran[t] = slices[t] * QUANTUM
      BY <1>5, <1>6, <1>9 DEF SchedulingInv, Slicing, WholeSlices
    <3>2. (slices[t] + 1) * QUANTUM = slices[t] * QUANTUM + QUANTUM
      BY <1>5, <1>6
    <3>3. ran'[t] = slices'[t] * QUANTUM
      BY <1>2, <3>1, <3>2
    <3>4. burst'[t] > 0 /\ policy' \in RoundRobin
      BY <1>1, <1>2, <1>5, <1>6
    <3> QED BY <1>9, <1>10, <2>1, <3>3, <3>4 DEF WholeSlices, RoundRobin
  <2>2. CASE u # t
    <3>1. u # tasks[k] /\ (Listed(u)' <=> Listed(u)) /\ burst'[u] = burst[u]
      BY <1>1, <1>6, <1>10, <2>2 DEF t
    <3> QED BY <1>1, <3>1, OthersSlices
  <2> QED BY <2>1, <2>2
<1> QED BY <1>11, <1>12, <1>13, <1>14, <1>15

LEMMA CompleteKeeps ==
    ASSUME SchedulingInv, NEW k \in 1 .. Len(tasks), NEW from, Completed(k, from)
    PROVE  Account' /\ Slicing' /\ ListOrder' /\ FinishOrder' /\ StrictOrder'
<1> DEFINE t == tasks[k]
           n == Len(tasks) - 1
           f == Len(finished)
<1>1. /\ Taken(k) /\ ShortenedBy(tasks', from, k) /\ RunFor(k, burst[t])
      /\ freed' = freed \cup {t} /\ finished' = Append(finished, t) /\ burst' = burst
  BY DEF Completed
<1>2. /\ slices'[t] = slices[t] + 1 /\ ran'[t] = ran[t] + burst[t]
      /\ \A u \in Tasks : u # t => slices'[u] = slices[u] /\ ran'[u] = ran[u]
      /\ main = "schedule" /\ policy' = policy /\ file' = file /\ main' = main
  BY <1>1 DEF RunFor
<1>3. /\ Chosen(tasks', from, n)
      /\ \A i \in 1 .. n : from[i] # k
      /\ \A i, j \in 1 .. n : i < j => from[i] < from[j]
      /\ \A m \in 1 .. Len(tasks) : m # k => \E i \in 1 .. n : from[i] = m
  BY <1>1 DEF ShortenedBy
<1>4. /\ Len(tasks') = n
      /\ \A i \in 1 .. n : from[i] \in 1 .. Len(tasks) /\ tasks'[i] = tasks[from[i]]
  BY <1>3 DEF Chosen
<1>5. Typed /\ Account /\ ListOrder /\ FinishOrder
  BY DEF SchedulingInv
<1>6. /\ t \in 1 .. Len(file) /\ t \in Tasks
      /\ \A u \in 1 .. Len(file) : u \in Tasks
      /\ burst[t] \in Nat /\ ran[t] \in Nat /\ file[t].burst \in Nat
      /\ Len(file) \in Nat /\ finished \in Seq(Tasks) /\ f \in Nat
  BY <1>5, TypesAre
<1>7. \A i \in 1 .. Len(tasks) : tasks[i] \in 1 .. Len(file) /\ tasks[i] \in Tasks
  BY <1>5, TypesAre
<1>8. \A i \in 1 .. Len(tasks) : i # k => tasks[i] # t
  BY <1>5, TypesAre DEF Typed, IsInjective
<1>9. Listed(t)
  BY DEF Listed
<1> HIDE DEF t, n
<1>10. \A u : Listed(u)' <=> Listed(u) /\ u # t
  <2> SUFFICES ASSUME NEW u
               PROVE  Listed(u)' <=> Listed(u) /\ u # t
    OBVIOUS
  <2>1. Listed(u)' => Listed(u) /\ u # t
    BY <1>3, <1>4, <1>8 DEF Listed
  <2>2. ASSUME NEW m \in 1 .. Len(tasks), tasks[m] = u, u # t
        PROVE  Listed(u)'
    <3>1. m # k
      BY <2>2 DEF t
    <3>2. PICK i \in 1 .. n : from[i] = m
      BY <1>3, <3>1
    <3>3. tasks'[i] = u
      BY <1>4, <2>2, <3>2
    <3> QED BY <1>4, <3>3 DEF Listed
  <2> QED BY <2>1, <2>2 DEF Listed
<1>11. /\ Len(finished') = f + 1 /\ finished'[f + 1] = t
       /\ \A i \in 1 .. f : finished'[i] = finished[i]
       /\ \A i \in 1 .. f + 1 : i = f + 1 \/ i \in 1 .. f
  BY <1>1, <1>6, AppendProperties
<1>12. Account'
  <2>1. ASSUME NEW u \in 1 .. Len(file')
        PROVE  /\ Listed(u)' => ran'[u] + burst'[u] = file'[u].burst /\ u \notin freed'
               /\ ~Listed(u)' => ran'[u] = file'[u].burst /\ u \in freed'
    <3>1. CASE u = t
      <4>1. ran[t] + burst[t] = file[t].burst
        BY <1>5, <1>6, <1>9 DEF Account
      <4> QED BY <1>1, <1>2, <1>10, <3>1, <4>1
    <3>2. CASE u # t
      BY <1>1, <1>2, <1>5, <1>6, <1>10, <3>2 DEF Account
    <3> QED BY <3>1, <3>2
  <2>2. \A u \in Tasks : u > Len(file') => slices'[u] = 0 /\ ran'[u] = 0 /\ u \notin freed'
    <3>1. \A u \in Tasks : u > Len(file) => u # t
      BY <1>6
    <3> QED BY <1>1, <1>2, <1>5, <3>1 DEF Account
  <2>3. freed' = {finished'[i] : i \in 1 .. Len(finished')}
    <3>1. freed = {finished[i] : i \in 1 .. f}
      BY <1>5 DEF Account
    <3>2. \A i \in 1 .. f + 1 : finished'[i] \in freed'
      BY <1>1, <1>11, <3>1
    <3>3. \A u \in freed' : \E i \in 1 .. f + 1 : finished'[i] = u
      <4> SUFFICES ASSUME NEW u \in freed'
                   PROVE  \E i \in 1 .. f + 1 : finished'[i] = u
        OBVIOUS
      <4>1. CASE u = t
        <5>1. f + 1 \in 1 .. f + 1
          BY <1>6
        <5> QED BY <1>11, <4>1, <5>1
      <4>2. CASE u # t
        <5>1. PICK i \in 1 .. f : finished[i] = u
          BY <1>1, <3>1, <4>2
        <5>2. i \in 1 .. f + 1
          BY <1>6
        <5> QED BY <1>11, <5>1, <5>2
      <4> QED BY <4>1, <4>2
    <3> QED BY <1>11, <3>2, <3>3
  <2>4. main' # "add"
    BY <1>2
  <2>5. policy' \notin RoundRobin => \A u \in 1 .. Len(file') : burst'[u] = file'[u].burst
    BY <1>1, <1>2, <1>5 DEF Account
  <2> HIDE <1>1, <1>2
  <2> QED BY <2>1, <2>2, <2>3, <2>4, <2>5 DEF Account, RoundRobin, Tasks
<1>13. ListOrder'
  <2> SUFFICES ASSUME NEW i \in 1 .. n, NEW j \in 1 .. n, i < j
               PROVE  /\ policy \notin RoundRobin => tasks'[i] > tasks'[j]
                      /\ Rivals(tasks[i], tasks[j])' => Turn(tasks[i], tasks[j])'
    BY <1>2, <1>4 DEF ListOrder, RoundRobin
  <2>1. /\ from[i] \in 1 .. Len(tasks) /\ from[j] \in 1 .. Len(tasks)
        /\ from[i] # k /\ from[j] # k /\ from[i] < from[j]
        /\ tasks'[i] = tasks[from[i]] /\ tasks'[j] = tasks[from[j]]
    BY <1>3, <1>4
  <2>2. /\ slices'[tasks[from[i]]] = slices[tasks[from[i]]]
        /\ slices'[tasks[from[j]]] = slices[tasks[from[j]]]
    BY <1>2, <1>7, <1>8, <2>1
  <2>3. /\ policy \notin RoundRobin => tasks[from[i]] > tasks[from[j]]
        /\ Rivals(tasks[from[i]], tasks[from[j]]) => Turn(tasks[from[i]], tasks[from[j]])
    BY <1>5, <2>1 DEF ListOrder
  <2>4. Rivals(tasks[i], tasks[j])' => Rivals(tasks[from[i]], tasks[from[j]])
    BY <1>2, <2>1 DEF Rivals
  <2>5. Turn(tasks[from[i]], tasks[from[j]]) => Turn(tasks[i], tasks[j])'
    BY <2>1, <2>2 DEF Turn
  <2> QED BY <2>1, <2>3, <2>4, <2>5
<1>14. FinishOrder'
  <2>1. \A u, v : Prior(u, v)' <=> Prior(u, v)
    BY <1>2 DEF Prior
  <2>2. ASSUME NEW i \in 1 .. f + 1, NEW j \in 1 .. f + 1, i < j
        PROVE  Prior(finished'[i], finished'[j])
    <3>1. i \in 1 .. f
      BY <1>6, <2>2
    <3>2. CASE j \in 1 .. f
      BY <1>5, <1>11, <2>2, <3>1, <3>2 DEF FinishOrder
    <3>3. CASE j = f + 1
      BY <1>5, <1>11, <3>1, <3>3 DEF FinishOrder, t
    <3> QED BY <1>11, <3>2, <3>3
  <2>3. ASSUME NEW i \in 1 .. f + 1, NEW j \in 1 .. n
        PROVE  Prior(finished'[i], tasks'[j])
    <3>1. from[j] \in 1 .. Len(tasks) /\ from[j] # k /\ tasks'[j] = tasks[from[j]]
      BY <1>3, <1>4
    <3>2. CASE i \in 1 .. f
      BY <1>5, <1>11, <3>1, <3>2 DEF FinishOrder
    <3>3. CASE i = f + 1
      BY <1>1, <1>11, <3>1, <3>3, TakenIsPrior DEF t
    <3> QED BY <1>11, <3>2, <3>3
  <2>4. \A i, j \in 1 .. Len(finished') : i < j => Prior(finished[i], finished[j])'
    BY <1>11, <2>1, <2>2
  <2>5. \A i \in 1 .. Len(finished') : \A j \in 1 .. Len(tasks') : Prior(finished[i], tasks[j])'
    BY <1>4, <1>11, <2>1, <2>3
  <2> QED BY <2>4, <2>5 DEF FinishOrder
<1>15. StrictOrder'
  BY <1>1, <1>3, RunKeepsStrict
<1>16. Slicing'
  <2> SUFFICES ASSUME NEW u \in 1 .. Len(file)
               PROVE  IF Listed(u)' THEN WholeSlices(u)' ELSE FewestSlices(u)'
    BY <1>2 DEF Slicing
  <2>1. CASE u = t
    <3>1. /\ ran[t] = slices[t] * QUANTUM
          /\ slices[t] > 0 => policy \in RoundRobin /\ burst[t] > 0
      BY <1>5, <1>6, <1>9 DEF SchedulingInv, Slicing, WholeSlices
    <3>2. /\ QUANTUM \in Nat \ {0} /\ slices[t] \in Nat
          /\ policy \in RoundRobin => burst[t] <= QUANTUM
      BY <1>5, <1>6, TypesAre, ConstantsAssumption DEF Completed, t
    <3> DEFINE whole == slices[t] * QUANTUM
    <3>3. (slices[t] + 1) * QUANTUM = whole + QUANTUM /\ ((slices[t] + 1) - 1) * QUANTUM = whole
      BY <3>2
    <3>4. /\ slices'[t] = slices[t] + 1 /\ ran'[t] = whole + burst[t] /\ whole \in Nat
          /\ slices'[t] * QUANTUM = whole + QUANTUM /\ (slices'[t] - 1) * QUANTUM = whole
      BY <1>2, <3>1, <3>2, <3>3
    <3> HIDE DEF whole
    <3>5. policy \in RoundRobin => FewestSlices(u)'
      <4> SUFFICES ASSUME policy \in RoundRobin
                   PROVE  FewestSlices(u)'
        OBVIOUS
      <4>1. slices'[t] > 0 /\ ran'[t] <= whole + QUANTUM
        BY <1>6, <3>2, <3>4
      <4>2. slices'[t] > 1 => ran'[t] > whole
        BY <1>6, <3>1, <3>2, <3>4
      <4> QED BY <1>2, <2>1, <3>4, <4>1, <4>2 DEF FewestSlices, RoundRobin
    <3>6. policy \notin RoundRobin => FewestSlices(u)'
      <4> SUFFICES ASSUME policy \notin RoundRobin
                   PROVE  FewestSlices(u)'
        OBVIOUS
      <4>1. slices'[t] = 1
        BY <3>1, <3>2, <3>4
      <4>2. policy' \notin RoundRobin /\ slices'[u] = 1
        BY <1>2, <2>1, <4>1
      <4> QED BY <4>2 DEF FewestSlices, RoundRobin
    <3>7. ~Listed(u)'
      BY <1>10, <2>1
    <3> QED BY <3>5, <3>6, <3>7
  <2>2. CASE u # t
    <3>1. u # tasks[k] /\ (Listed(u)' <=> Listed(u)) /\ burst'[u] = burst[u]
      BY <1>1, <1>10, <2>2 DEF t
    <3> QED BY <1>1, <3>1, OthersSlices
  <2> QED BY <2>1, <2>2
<1> QED BY <1>12, <1>13, <1>14, <1>15, <1>16

-----------------------------------------------------------------------------
(* The invariant, and what follows from it *)

LEMMA InvInit ==
    ASSUME Init
    PROVE  SchedulingInv
<1>1. /\ policy \in Policies /\ file = <<>> /\ tasks = <<>> /\ finished = <<>>
      /\ burst = [t \in Tasks |-> 0] /\ slices = [t \in Tasks |-> 0] /\ ran = [t \in Tasks |-> 0]
      /\ freed = {} /\ main = "add"
  BY DEF Init
<1>2. /\ Len(file) = 0 /\ Len(tasks) = 0 /\ Len(finished) = 0
      /\ DOMAIN file = {} /\ DOMAIN tasks = {} /\ DOMAIN finished = {}
  BY <1>1
<1>3. 1 .. 0 = {} /\ MaxTasks \in Nat
  BY ConstantsAssumption
<1>4. TypeOK
  <2>1. /\ file \in Seq([name : Names, priority : Priorities, burst : Bursts])
        /\ tasks \in Seq(1 .. Len(file)) /\ finished \in Seq(Tasks)
    BY <1>1
  <2>2. burst \in [Tasks -> Nat] /\ slices \in [Tasks -> Nat] /\ ran \in [Tasks -> Nat]
    BY <1>1
  <2> QED BY <1>1, <1>2, <1>3, <2>1, <2>2 DEF TypeOK
<1>5. Typed
  BY <1>2, <1>4 DEF Typed, IsInjective
<1>6. Account
  <2>1. freed = {finished[i] : i \in 1 .. Len(finished)}
    BY <1>1, <1>2, <1>3
  <2>2. \A t \in Tasks : slices[t] = 0 /\ ran[t] = 0 /\ t \notin freed
    BY <1>1
  <2> QED BY <1>1, <1>2, <1>3, <2>1, <2>2 DEF Account
<1>7. Slicing /\ ListOrder /\ FinishOrder /\ StrictOrder
  BY <1>2, <1>3 DEF Slicing, ListOrder, FinishOrder, StrictOrder
<1> QED BY <1>5, <1>6, <1>7 DEF SchedulingInv

(* A step that changes main alone, and does not go back to adding. *)
LEMMA MainKeeps ==
    ASSUME SchedulingInv, UNCHANGED <<policy, file, tasks, burst, freed, slices, ran, finished>>,
           main' = main \/ main' \in {"schedule", "return"}
    PROVE  SchedulingInv'
<1>1. /\ policy' = policy /\ file' = file /\ tasks' = tasks /\ burst' = burst /\ freed' = freed
      /\ slices' = slices /\ ran' = ran /\ finished' = finished
  OBVIOUS
<1>2. Typed'
  BY <1>1 DEF SchedulingInv, Typed, TypeOK
<1>3. \A t : Listed(t)' <=> Listed(t)
  BY <1>1 DEF Listed
<1>4. Account'
  <2>1. ASSUME NEW t \in 1 .. Len(file')
        PROVE  /\ Listed(t)' => ran'[t] + burst'[t] = file'[t].burst /\ t \notin freed'
               /\ ~Listed(t)' => ran'[t] = file'[t].burst /\ t \in freed'
    BY <1>1, <1>3 DEF SchedulingInv, Account
  <2>2. \A t \in Tasks : t > Len(file') => slices'[t] = 0 /\ ran'[t] = 0 /\ t \notin freed'
    BY <1>1 DEF SchedulingInv, Account
  <2>3. freed' = {finished'[i] : i \in 1 .. Len(finished')}
    BY <1>1 DEF SchedulingInv, Account
  <2>4. main' = "add" => freed' = {} /\ \A t \in Tasks : slices'[t] = 0
    BY <1>1 DEF SchedulingInv, Account
  <2>5. policy' \notin RoundRobin => \A t \in 1 .. Len(file') : burst'[t] = file'[t].burst
    BY <1>1 DEF SchedulingInv, Account
  <2> HIDE <1>1
  <2> QED BY <2>1, <2>2, <2>3, <2>4, <2>5 DEF Account, RoundRobin, Tasks
<1>5. ListOrder'
  BY <1>1 DEF SchedulingInv, ListOrder, Rivals, Turn, RoundRobin
<1>6. FinishOrder'
  BY <1>1 DEF SchedulingInv, FinishOrder, Prior
<1>7. StrictOrder'
  BY <1>1 DEF SchedulingInv, StrictOrder
<1>8. Slicing'
  BY <1>1, <1>3 DEF SchedulingInv, Slicing, WholeSlices, FewestSlices, RoundRobin
<1> QED BY <1>2, <1>4, <1>5, <1>6, <1>7, <1>8 DEF SchedulingInv

LEMMA InvNext ==
    ASSUME DistinctNames, SchedulingInv, [Next]_vars
    PROVE  SchedulingInv'
<1> USE DEF SchedulingInv
<1>1. ASSUME NEW name \in Names, NEW priority \in Priorities, NEW length \in Bursts,
             Add(name, priority, length)
      PROVE  SchedulingInv'
  <2>1. Typed' /\ Added(Len(file) + 1)
    BY <1>1, AddIs
  <2>2. Account' /\ Slicing' /\ ListOrder' /\ FinishOrder' /\ StrictOrder'
    <3> DEFINE t == Len(file) + 1
    <3>1. Added(t)
      BY <2>1
    <3> HIDE DEF t, SchedulingInv
    <3> QED BY <3>1, AddKeeps
  <2> QED BY <2>1, <2>2
<1>2. CASE Schedule
  <2>1. PICK k \in 1 .. Len(tasks) : \E from : Preempted(k, from) \/ Completed(k, from)
    BY <1>2, ScheduleIs
  <2>2. PICK from : Preempted(k, from) \/ Completed(k, from)
    BY <2>1
  <2>3. CASE Preempted(k, from)
    <3>1. Typed'
      BY <2>3, PreemptTyped
    <3> HIDE DEF SchedulingInv
    <3>2. Account' /\ Slicing' /\ ListOrder' /\ FinishOrder' /\ StrictOrder'
      BY <2>3, PreemptKeeps
    <3> QED BY <3>1, <3>2 DEF SchedulingInv
  <2>4. CASE Completed(k, from)
    <3>1. Typed'
      BY <2>4, CompleteTyped
    <3> HIDE DEF SchedulingInv
    <3>2. Account' /\ Slicing' /\ ListOrder' /\ FinishOrder' /\ StrictOrder'
      BY <2>4, CompleteKeeps
    <3> QED BY <3>1, <3>2 DEF SchedulingInv
  <2> QED BY <2>2, <2>3, <2>4
<1> HIDE DEF SchedulingInv
<1>3. CASE EndOfFile
  BY <1>3, MainKeeps DEF EndOfFile
<1>4. CASE Return
  BY <1>4, MainKeeps DEF Return
<1>5. CASE Terminated \/ UNCHANGED vars
  <2>1. UNCHANGED vars
    BY <1>5 DEF Terminated
  <2> QED BY <2>1, MainKeeps DEF vars
<1> QED BY <1>1, <1>2, <1>3, <1>4, <1>5 DEF Next

LEMMA InvAlways ==
    ASSUME DistinctNames
    PROVE  Spec => []SchedulingInv
<1>1. Init => SchedulingInv
  BY InvInit
<1>2. SchedulingInv /\ [Next]_vars => SchedulingInv'
  BY InvNext
<1> QED BY <1>1, <1>2, PTL DEF Spec

(* When each task has a name of its own, every task gets exactly the units *)
(* it asked for, in as few slices as the quantum allows, and finishes      *)
(* once, whichever scheduler is linked (list.c:24-44,                      *)
(* schedule_rr.c:25-46).                                                   *)
THEOREM AccountCorrect ==
    ASSUME DistinctNames
    PROVE  Spec => []WorkIsAccountedFor
<1>1. ASSUME SchedulingInv
      PROVE  WorkIsAccountedFor
  <2>1. Typed /\ Account
    BY <1>1 DEF SchedulingInv
  <2>2. \A t : Contains(tasks, t) <=> Listed(t)
    BY DEF Contains, Listed
  <2>3. \A t : Contains(finished, t) <=> t \in freed
    BY <2>1 DEF Contains, Account
  <2>4. ASSUME NEW t \in 1 .. Len(file)
        PROVE  IF Contains(tasks, t)
               THEN ran[t] + burst[t] = file[t].burst /\ WholeSlices(t) /\ ~Contains(finished, t)
               ELSE ran[t] = file[t].burst /\ FewestSlices(t) /\ Contains(finished, t)
    BY <1>1, <2>1, <2>2, <2>3 DEF SchedulingInv, Account, Slicing
  <2> QED BY <2>1, <2>4 DEF Typed, WorkIsAccountedFor
<1> QED BY <1>1, InvAlways, PTL

(* A scheduler that does not preempt finishes the tasks in its order, and  *)
(* as they came among equals (schedule_fcfs.c:22, schedule_sjf.c:29,       *)
(* schedule_priority.c:29).                                                *)
THEOREM OrderCorrect ==
    ASSUME DistinctNames
    PROVE  Spec => []FinishedInOrder
<1>1. ASSUME SchedulingInv
      PROVE  FinishedInOrder
  <2>1. DOMAIN finished = 1 .. Len(finished)
    BY <1>1, TypesAre, SequenceIs DEF SchedulingInv
  <2> SUFFICES ASSUME NEW i \in 1 .. Len(finished), NEW j \in 1 .. Len(finished), i < j
               PROVE  LET t == finished[i]
                          u == finished[j]
                      IN  CASE policy = "fcfs"     -> t < u
                            [] policy = "sjf"      -> \/ file[t].burst < file[u].burst
                                                      \/ file[t].burst = file[u].burst /\ t < u
                            [] policy = "priority" -> \/ file[t].priority > file[u].priority
                                                      \/ file[t].priority = file[u].priority /\ t < u
                            [] OTHER -> TRUE
    BY <2>1 DEF FinishedInOrder
  <2>2. Prior(finished[i], finished[j])
    BY <1>1 DEF SchedulingInv, FinishOrder
  <2> QED BY <2>2 DEF Prior
<1> QED BY <1>1, InvAlways, PTL

(* Under the two policies with a quantum, of two unfinished tasks of one   *)
(* class the one that came first is never behind and never more than one   *)
(* turn ahead (schedule_rr.c:25-46, schedule_priority_rr.c:24-52).         *)
THEOREM TurnsCorrect ==
    ASSUME DistinctNames
    PROVE  Spec => []TurnsAreEven
<1>1. ASSUME SchedulingInv
      PROVE  TurnsAreEven
  <2>1. Typed /\ ListOrder /\ DOMAIN tasks = 1 .. Len(tasks)
    BY <1>1, TypesAre DEF SchedulingInv
  <2> SUFFICES ASSUME NEW t \in ToSet(tasks), NEW u \in ToSet(tasks), t < u, Rivals(t, u)
               PROVE  slices[t] - slices[u] \in {0, 1}
    BY DEF TurnsAreEven
  <2>2. PICK i \in 1 .. Len(tasks) : tasks[i] = t
    BY <2>1 DEF ToSet
  <2>3. PICK j \in 1 .. Len(tasks) : tasks[j] = u
    BY <2>1 DEF ToSet
  <2>4. t \in Int /\ u \in Int /\ slices[t] \in Nat /\ slices[u] \in Nat
    BY <2>1, <2>2, <2>3, TypesAre
  <2>5. Rivals(u, t)
    BY DEF Rivals
  <2>6. CASE i < j
    BY <2>1, <2>2, <2>3, <2>4, <2>6 DEF ListOrder, Turn
  <2>7. CASE j < i
    BY <2>1, <2>2, <2>3, <2>4, <2>5, <2>7 DEF ListOrder, Turn
  <2>8. i # j
    BY <2>2, <2>3, <2>4
  <2> QED BY <2>6, <2>7, <2>8
<1> QED BY <1>1, InvAlways, PTL

(* While a task is unfinished none of a lower priority has run, under the  *)
(* two policies with priorities (schedule_priority.c:23-35,                *)
(* schedule_priority_rr.c:24-38).                                          *)
THEOREM PriorityCorrect ==
    ASSUME DistinctNames
    PROVE  Spec => []PriorityIsStrict
<1>1. ASSUME SchedulingInv
      PROVE  PriorityIsStrict
  <2>1. StrictOrder /\ DOMAIN tasks = 1 .. Len(tasks)
    BY <1>1, TypesAre DEF SchedulingInv
  <2> QED BY <2>1 DEF StrictOrder, PriorityIsStrict, ToSet
<1> QED BY <1>1, InvAlways, PTL

(* No pointer to a task that has been freed stays in the list when each    *)
(* task has a name of its own: it takes two tasks of one name for delete   *)
(* to leave one (list.c:24-44).                                            *)
THEOREM DeleteCorrect ==
    ASSUME DistinctNames
    PROVE  Spec => []NoDanglingTask
<1>1. ASSUME SchedulingInv
      PROVE  NoDanglingTask
  <2>1. Account /\ DOMAIN tasks = 1 .. Len(tasks) /\ \A i \in 1 .. Len(tasks) : tasks[i] \in 1 .. Len(file)
    BY <1>1, TypesAre DEF SchedulingInv
  <2>2. \A i \in 1 .. Len(tasks) : tasks[i] \notin freed
    BY <2>1 DEF Account, Listed
  <2> QED BY <2>1, <2>2 DEF NoDanglingTask, Dangling
<1> QED BY <1>1, InvAlways, PTL
=============================================================================
