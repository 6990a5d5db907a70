----------------------------- MODULE Arithmetic -----------------------------
(***************************************************************************)
(* What the proofs need of numbers and finite sets: the arithmetic of      *)
(* indices and addresses (the buffers of Project 5, the tables of Project  *)
(* 8 and the clock of Project 1 go round modulo a size b; an address of    *)
(* Project 8 is a page number and an offset), and induction and recursion  *)
(* in a form without operator parameters, for the loops.                   *)
(***************************************************************************)
EXTENDS Integers, FiniteSets, FiniteSetTheorems, WellFoundedInduction, TLAPS

(* The remainder of a number below twice the divisor (buffer.c:38, 60;     *)
(* threadpool.c:51, 62).                                                   *)
LEMMA SmallMod ==
    ASSUME NEW b \in Nat \ {0}
    PROVE  \A x \in 0 .. 2 * b - 1 : x % b = IF x < b THEN x ELSE x - b
OBVIOUS

(* Advancing rear past the item stored last (buffer.c:37-38,               *)
(* threadpool.c:50-51).                                                    *)
LEMMA RearAdvances ==
    ASSUME NEW b \in Nat \ {0}, NEW x \in 0 .. 2 * b - 2
    PROVE  ((x % b) + 1) % b = (x + 1) % b
<1>1. x \in 0 .. 2 * b - 1 /\ x + 1 \in 0 .. 2 * b - 1 /\ x - b + 1 \in Int
  OBVIOUS
<1>2. CASE x < b
  <2>1. x % b = x
    BY <1>1, <1>2, SmallMod
  <2> QED BY <2>1
<1>3. CASE x >= b
  <2>1. x % b = x - b /\ (x + 1) % b = x + 1 - b
    <3>1. x % b = IF x < b THEN x ELSE x - b
      BY <1>1, SmallMod
    <3>2. x + 1 >= b
      BY <1>3
    <3>3. PICK y \in 0 .. 2 * b - 1 : y = x + 1
      BY <1>1
    <3>4. y % b = IF y < b THEN y ELSE y - b
      BY SmallMod
    <3>5. y % b = x + 1 - b
      BY <3>2, <3>3, <3>4
    <3> QED BY <1>3, <3>1, <3>3, <3>5
  <2>2. x - b + 1 \in 0 .. 2 * b - 1 /\ x - b + 1 < b
    BY <1>3
  <2>3. (x - b + 1) % b = x - b + 1
    BY <2>2, SmallMod
  <2> QED BY <2>1, <2>3
<1> QED BY <1>2, <1>3

(* Advancing front past the item fetched last (buffer.c:59-60,             *)
(* threadpool.c:61-62).                                                    *)
LEMMA FrontAdvances ==
    ASSUME NEW b \in Nat \ {0}, NEW x \in 0 .. b - 1, NEW c \in 0 .. b - 1
    PROVE  (((x + 1) % b) + c) % b = (x + (c + 1)) % b
<1>1. x + 1 \in 0 .. 2 * b - 1 /\ x + (c + 1) \in 0 .. 2 * b - 1 /\ c \in 0 .. 2 * b - 1
  OBVIOUS
<1>2. CASE x + 1 < b
  <2>1. (x + 1) % b = x + 1
    BY <1>1, <1>2, SmallMod
  <2> QED BY <2>1
<1>3. CASE x + 1 = b
  <2>1. (x + 1) % b = 0
    BY <1>1, <1>3, SmallMod
  <2>2. (x + (c + 1)) % b = c /\ c % b = c
    <3>1. x + (c + 1) = b + c /\ x + (c + 1) >= b
      BY <1>3
    <3> QED BY <1>1, <3>1, SmallMod
  <2> QED BY <2>1, <2>2
<1> QED BY <1>2, <1>3

(* Two numbers that are less than b apart have different remainders        *)
(* (buffer.c:33, 38; threadpool.c:50-51).                                  *)
LEMMA SlotsDiffer ==
    ASSUME NEW b \in Nat \ {0}, NEW x \in 0 .. b - 1, NEW c \in 0 .. b - 1, NEW d \in 0 .. b - 1,
           c < d
    PROVE  (x + c) % b # (x + d) % b
<1>1. PICK y \in 0 .. 2 * b - 1 : y = x + c
  OBVIOUS
<1>2. PICK z \in 0 .. 2 * b - 1 : z = x + d
  OBVIOUS
<1>3. /\ y % b = IF y < b THEN y ELSE y - b
      /\ z % b = IF z < b THEN z ELSE z - b
  BY SmallMod
<1>4. y < z /\ z < y + b
  BY <1>1, <1>2
<1>5. y % b # z % b
  BY <1>3, <1>4
<1> QED BY <1>1, <1>2, <1>5

(* A number is made of its quotient and its remainder.                     *)
LEMMA QuotientAndRemainder ==
    ASSUME NEW b \in Nat \ {0}, NEW a \in Nat
    PROVE  /\ a \div b \in Nat /\ a % b \in 0 .. b - 1
           /\ a = (a \div b) * b + (a % b)
OBVIOUS

(* The quotient of a number below n * b is below n.                        *)
LEMMA QuotientIsBelow ==
    ASSUME NEW b \in Nat \ {0}, NEW n \in Nat, NEW a \in 0 .. n * b - 1
    PROVE  a \div b < n
<1>1. /\ n * b \in Nat /\ a \in Nat
      /\ a \div b \in Nat /\ a % b \in 0 .. b - 1
      /\ a = (a \div b) * b + (a % b)
  <2>1. n * b \in Nat /\ a \in Nat
    OBVIOUS
  <2> QED BY <2>1, QuotientAndRemainder
<1>2. SUFFICES ASSUME a \div b >= n
               PROVE  FALSE
  BY <1>1
<1>3. PICK q \in Nat : q = a \div b
  BY <1>1
<1>4. q - n \in Nat /\ (q - n) * b \in Nat
  BY <1>2, <1>3
<1>5. q * b = n * b + (q - n) * b
  BY <1>3
<1> QED BY <1>1, <1>3, <1>4, <1>5

(* The quotient and the remainder of a sum made like that.                 *)
LEMMA PartsOfSum ==
    ASSUME NEW b \in Nat \ {0}, NEW q \in Nat, NEW r \in 0 .. b - 1
    PROVE  (q * b + r) \div b = q /\ (q * b + r) % b = r
<1>1. (q * b + r) \div b = q
  OBVIOUS
<1>2. (q * b + r) % b = r
  OBVIOUS
<1> QED BY <1>1, <1>2

(* It is below n * b when the quotient is below n.                         *)
LEMMA SumIsBelow ==
    ASSUME NEW b \in Nat \ {0}, NEW n \in Nat, NEW q \in 0 .. n - 1, NEW r \in 0 .. b - 1
    PROVE  q * b + r \in 0 .. n * b - 1
OBVIOUS

(* One more, modulo b, whatever the number (fifo_fifo.c:168, 196).         *)
LEMMA RemainderOfNext ==
    ASSUME NEW b \in Nat \ {0}, NEW x \in Nat
    PROVE  (x + 1) % b = IF (x % b) + 1 = b THEN 0 ELSE (x % b) + 1
<1>1. PICK q \in Nat, r \in 0 .. b - 1 : q = x \div b /\ r = x % b /\ x = q * b + r
  BY QuotientAndRemainder
<1>2. CASE r + 1 < b
  <2>1. x + 1 = q * b + (r + 1) /\ r + 1 \in 0 .. b - 1
    BY <1>1, <1>2
  <2>2. (q * b + (r + 1)) % b = r + 1
    BY <2>1, PartsOfSum
  <2> QED BY <1>1, <1>2, <2>1, <2>2
<1>3. CASE r + 1 = b
  <2>1. x + 1 = (q + 1) * b + 0 /\ q + 1 \in Nat /\ 0 \in 0 .. b - 1
    BY <1>1, <1>3
  <2>2. ((q + 1) * b + 0) % b = 0
    BY <2>1, PartsOfSum
  <2> QED BY <1>1, <1>3, <2>1, <2>2
<1> QED BY <1>2, <1>3

-----------------------------------------------------------------------------
(* Induction and recursion *)

(* Induction over the natural numbers, for a set instead of a predicate.   *)
LEMMA Induction ==
    ASSUME NEW S, 0 \in S, \A k \in Nat : k \in S => k + 1 \in S
    PROVE  Nat \subseteq S
<1>1. SUFFICES ASSUME Nat \ S # {}
               PROVE  FALSE
  OBVIOUS
<1>2. \E x \in Nat \ S : \A y \in Nat \ S : ~(<<y, x>> \in OpToRel(<, Nat))
  BY <1>1, NatLessThanWellFounded, WFMin
<1>3. PICK x \in Nat \ S : \A y \in Nat \ S : ~(y < x)
  BY <1>2 DEF OpToRel
<1>4. x # 0 /\ x - 1 \in Nat
  BY <1>3
<1>5. x - 1 \in S
  BY <1>3, <1>4
<1>6. (x - 1) + 1 = x
  BY <1>3
<1> QED BY <1>3, <1>4, <1>5, <1>6

(* Induction up to a bound: what a loop of n rounds keeps.                 *)
LEMMA BoundedInduction ==
    ASSUME NEW n \in Nat, NEW S, 0 \in S, \A k \in 1 .. n : k - 1 \in S => k \in S
    PROVE  0 .. n \subseteq S
<1> DEFINE T == {k \in Nat : k <= n => k \in S}
<1>1. 0 \in T
  OBVIOUS
<1>2. ASSUME NEW k \in Nat, k \in T
      PROVE  k + 1 \in T
  <2> SUFFICES ASSUME k + 1 <= n
               PROVE  k + 1 \in S
    OBVIOUS
  <2>1. k + 1 \in 1 .. n /\ (k + 1) - 1 = k /\ k \in S
    BY <1>2
  <2> QED BY <2>1
<1> HIDE DEF T
<1>3. Nat \subseteq T
  BY <1>1, <1>2, Induction
<1> QED BY <1>3 DEF T

(* Numbers between two others have a greatest and a least one.             *)
LEMMA RangeHasGreatest ==
    ASSUME NEW l \in Int, NEW h \in Int, NEW X \in SUBSET (l .. h), X # {}
    PROVE  \E x \in X : \A y \in X : x >= y
<1> DEFINE S == {n \in Nat : \A Y \in SUBSET (l .. l + n) :
                                Y # {} => \E x \in Y : \A y \in Y : x >= y}
<1>1. 0 \in S
  <2>1. l .. l + 0 = {l}
    OBVIOUS
  <2>2. \A Y \in SUBSET (l .. l + 0) : Y # {} => Y = {l}
    BY <2>1
  <2> QED BY <2>2
<1>2. ASSUME NEW n \in Nat, n \in S
      PROVE  n + 1 \in S
  <2> SUFFICES ASSUME NEW Y \in SUBSET (l .. l + (n + 1)), Y # {}
               PROVE  \E x \in Y : \A y \in Y : x >= y
    OBVIOUS
  <2>1. CASE l + (n + 1) \in Y
    BY <2>1
  <2>2. CASE l + (n + 1) \notin Y
    <3>1. Y \in SUBSET (l .. l + n)
      BY <2>2
    <3> QED BY <1>2, <3>1
  <2> QED BY <2>1, <2>2
<1> HIDE DEF S
<1>3. Nat \subseteq S
  BY <1>1, <1>2, Induction
<1>4. h - l \in S
  <2>1. PICK x : x \in X /\ x \in l .. h
    OBVIOUS
  <2>2. h - l \in Nat
    BY <2>1
  <2> QED BY <1>3, <2>2
<1>5. X \in SUBSET (l .. l + (h - l))
  OBVIOUS
<1> QED BY <1>4, <1>5 DEF S

LEMMA RangeHasLeast ==
    ASSUME NEW l \in Int, NEW h \in Int, NEW X \in SUBSET (l .. h), X # {}
    PROVE  \E x \in X : \A y \in X : x <= y
<1> DEFINE Y == {i \in -h .. -l : -i \in X}
<1>1. Y \in SUBSET (-h .. -l) /\ -h \in Int /\ -l \in Int
  OBVIOUS
<1>2. PICK z : z \in X
  OBVIOUS
<1>3. -z \in Y
  BY <1>2
<1> HIDE DEF Y
<1>4. PICK x \in Y : \A y \in Y : x >= y
  BY <1>1, <1>3, RangeHasGreatest
<1>5. -x \in X /\ x \in Int
  BY <1>4 DEF Y
<1>6. ASSUME NEW y \in X
      PROVE  -x <= y
  <2>1. -y \in Y /\ y \in Int
    BY DEF Y
  <2>2. x >= -y
    BY <1>4, <2>1
  <2> QED BY <1>5, <2>1, <2>2
<1> QED BY <1>5, <1>6

(* A loop of n rounds: h[k][x] is what round k makes of the state x.        *)
CanIterate(n, D, d, h) == n \in Nat /\ d \in D /\ h \in [1 .. n -> [D -> D]]

IsIteration(f, n, D, d, h) ==
    f \in [0 .. n -> D] /\ f[0] = d /\ \A k \in 1 .. n : f[k] = h[k][f[k-1]]

LEMMA Recursion ==
    ASSUME NEW n, NEW D, NEW d, NEW h, CanIterate(n, D, d, h)
    PROVE  \E f : IsIteration(f, n, D, d, h)
<1> DEFINE P(m) == \E f \in [0 .. m -> D] : f[0] = d /\ \A k \in 1 .. m : f[k] = h[k][f[k-1]]
           S == {m \in Nat : m <= n => P(m)}
<1>0. n \in Nat /\ d \in D /\ h \in [1 .. n -> [D -> D]]
  BY DEF CanIterate
<1>1. 0 \in S
  <2> DEFINE f == [k \in 0 .. 0 |-> d]
  <2>1. f \in [0 .. 0 -> D] /\ f[0] = d /\ \A k \in 1 .. 0 : f[k] = h[k][f[k-1]]
    BY <1>0
  <2> HIDE DEF f
  <2>2. P(0)
    BY <2>1
  <2> QED BY <2>2
<1>2. ASSUME NEW m \in Nat, m \in S
      PROVE  m + 1 \in S
  <2> SUFFICES ASSUME m + 1 <= n
               PROVE  P(m + 1)
    OBVIOUS
  <2>1. PICK f \in [0 .. m -> D] : f[0] = d /\ \A k \in 1 .. m : f[k] = h[k][f[k-1]]
    BY <1>0, <1>2
  <2> DEFINE g == [k \in 0 .. m + 1 |-> IF k <= m THEN f[k] ELSE h[m + 1][f[m]]]
  <2>2. g \in [0 .. m + 1 -> D]
    BY <1>0, <2>1
  <2>3. g[0] = d
    BY <2>1
  <2>4. \A k \in 1 .. m + 1 : g[k] = h[k][g[k-1]]
    BY <2>1
  <2> QED BY <2>2, <2>3, <2>4
<1> HIDE DEF S
<1>3. n \in S
  BY <1>0, <1>1, <1>2, Induction
<1> QED BY <1>0, <1>3 DEF S, IsIteration

(* Induction over the subsets of a finite set, by taking elements away.    *)
LEMMA FiniteInduction ==
    ASSUME NEW X, IsFiniteSet(X), NEW S, {} \in S,
           \A Y \in SUBSET X : (Y # {} /\ \A x \in Y : Y \ {x} \in S) => Y \in S
    PROVE  SUBSET X \subseteq S
<1> DEFINE T == {n \in Nat : \A Y \in SUBSET X : Cardinality(Y) = n => Y \in S}
<1>1. \A Y \in SUBSET X : IsFiniteSet(Y) /\ Cardinality(Y) \in Nat
  BY FS_Subset, FS_CardinalityType
<1>2. 0 \in T
  BY <1>1, FS_EmptySet
<1>3. ASSUME NEW n \in Nat, n \in T
      PROVE  n + 1 \in T
  <2> SUFFICES ASSUME NEW Y \in SUBSET X, Cardinality(Y) = n + 1
               PROVE  Y \in S
    OBVIOUS
  <2>1. Y # {}
    <3>1. Cardinality({}) = 0 /\ n + 1 # 0
      BY FS_EmptySet
    <3> QED BY <3>1
  <2>2. ASSUME NEW x \in Y
        PROVE  Y \ {x} \in S
    <3>1. Cardinality(Y \ {x}) = n /\ Y \ {x} \in SUBSET X
      BY <1>1, FS_RemoveElement
    <3> QED BY <1>3, <3>1
  <2> QED BY <2>1, <2>2
<1> HIDE DEF T
<1>4. Nat \subseteq T
  BY <1>2, <1>3, Induction
<1> QED BY <1>1, <1>4 DEF T

(* A fold over a finite set that takes element pick[Y] of what is left, Y: *)
(* h[Y][x] is the result for Y when x is that for the others.              *)
CanFold(X, D, d, pick, h) ==
    /\ IsFiniteSet(X)
    /\ d \in D
    /\ \A Y \in SUBSET X : Y # {} => pick[Y] \in Y
    /\ \A Y \in SUBSET X : Y # {} => \A x \in D : h[Y][x] \in D

IsFold(f, X, D, d, pick, h) ==
    /\ f \in [SUBSET X -> D]
    /\ f[{}] = d
    /\ \A Y \in SUBSET X : Y # {} => f[Y] = h[Y][f[Y \ {pick[Y]}]]

LEMMA FiniteRecursion ==
    ASSUME NEW X, NEW D, NEW d, NEW pick, NEW h, CanFold(X, D, d, pick, h)
    PROVE  \E f : IsFold(f, X, D, d, pick, h)
<1> DEFINE Small(n) == {Y \in SUBSET X : Cardinality(Y) <= n}
           P(n) == \E f \in [Small(n) -> D] :
                      /\ f[{}] = d
                      /\ \A Y \in Small(n) : Y # {} => f[Y] = h[Y][f[Y \ {pick[Y]}]]
           T == {n \in Nat : P(n)}
<1>0. /\ IsFiniteSet(X)
      /\ d \in D
      /\ \A Y \in SUBSET X : Y # {} => pick[Y] \in Y
      /\ \A Y \in SUBSET X : Y # {} => \A x \in D : h[Y][x] \in D
  BY DEF CanFold
<1>1. \A Y \in SUBSET X : IsFiniteSet(Y) /\ Cardinality(Y) \in Nat
  BY <1>0, FS_Subset, FS_CardinalityType
<1>2. \A Y \in SUBSET X : Cardinality(Y) = 0 <=> Y = {}
  BY <1>1, FS_EmptySet
<1>3. \A Y \in SUBSET X : Y # {} => /\ Y \ {pick[Y]} \in SUBSET X
                                    /\ Cardinality(Y \ {pick[Y]}) = Cardinality(Y) - 1
  BY <1>0, <1>1, FS_RemoveElement
<1>4. 0 \in T
  <2> DEFINE f == [Y \in Small(0) |-> d]
  <2>1. Small(0) = {{}}
    BY <1>1, <1>2
  <2>2. f \in [Small(0) -> D] /\ f[{}] = d /\ \A Y \in Small(0) : Y = {}
    BY <1>0, <2>1
  <2> HIDE DEF f, Small
  <2>3. P(0)
    BY <2>2
  <2> QED BY <2>3
<1>5. ASSUME NEW n \in Nat, n \in T
      PROVE  n + 1 \in T
  <2>1. PICK f \in [Small(n) -> D] :
              /\ f[{}] = d
              /\ \A Y \in Small(n) : Y # {} => f[Y] = h[Y][f[Y \ {pick[Y]}]]
    BY <1>5
  <2> DEFINE g == [Y \in Small(n + 1) |-> IF Y \in Small(n) THEN f[Y]
                                          ELSE h[Y][f[Y \ {pick[Y]}]]]
  <2>2. \A Y \in Small(n + 1) : Y # {} => Y \ {pick[Y]} \in Small(n)
    BY <1>1, <1>3
  <2>3. {} \in Small(n) /\ Small(n) \subseteq Small(n + 1) /\ Small(n + 1) \subseteq SUBSET X
    BY <1>1, <1>2
  <2> HIDE DEF Small
  <2>4. g \in [Small(n + 1) -> D]
    BY <1>0, <2>1, <2>2, <2>3
  <2>5. g[{}] = d
    BY <2>1, <2>3
  <2>6. \A Y \in Small(n + 1) : Y # {} => g[Y] = h[Y][g[Y \ {pick[Y]}]]
    BY <2>1, <2>2, <2>3
  <2> HIDE DEF g
  <2>7. P(n + 1)
    BY <2>4, <2>5, <2>6
  <2> HIDE DEF P
  <2> QED BY <2>7
<1> HIDE DEF T
<1>6. Cardinality(X) \in T
  BY <1>0, <1>1, <1>4, <1>5, Induction
<1>7. Small(Cardinality(X)) = SUBSET X
  BY <1>0, FS_Subset
<1> HIDE DEF Small
<1>8. P(Cardinality(X))
  BY <1>6 DEF T
<1> QED BY <1>7, <1>8 DEF IsFold
=============================================================================
