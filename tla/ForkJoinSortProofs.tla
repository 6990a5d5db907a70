-------------------------- MODULE ForkJoinSortProofs --------------------------
(***************************************************************************)
(* What is true of the three parallel sorts for lists of any length and    *)
(* any threshold: the tasks never work on the same number, and every       *)
(* finished task has left its range sorted.                                *)
(***************************************************************************)
EXTENDS ForkJoinSort, Arithmetic, FunctionTheorems, SequenceTheorems, TLAPS

-----------------------------------------------------------------------------
(* Rearranging a range *)

(* p exchanges the places of left .. right among themselves. *)
Permutes(p, D, left, right) ==
    /\ p \in [D -> D]
    /\ \A x, y \in D : p[x] = p[y] => x = y
    /\ \A x \in D : x \notin left .. right => p[x] = x

(* b has at each place what a has at another of the range. *)
Rearranged(a, b, D, left, right) ==
    /\ a \in [D -> Int] /\ b \in [D -> Int]
    /\ \E p : Permutes(p, D, left, right) /\ \A x \in D : b[x] = a[p[x]]

LEMMA SameIsRearranged ==
    ASSUME NEW D, NEW a \in [D -> Int], NEW left, NEW right
    PROVE  Rearranged(a, a, D, left, right)
<1> DEFINE p == [x \in D |-> x]
<1>1. Permutes(p, D, left, right) /\ \A x \in D : a[x] = a[p[x]]
  BY DEF Permutes
<1> HIDE DEF p
<1> QED BY <1>1 DEF Rearranged

LEMMA SwapIsRearranged ==
    ASSUME NEW D, NEW a \in [D -> Int], NEW left, NEW right,
           NEW i \in D, NEW j \in D, i \in left .. right, j \in left .. right,
           NEW b, b = [a EXCEPT ![i] = a[j], ![j] = a[i]]
    PROVE  Rearranged(a, b, D, left, right)
<1> DEFINE p == [x \in D |-> IF x = j THEN i ELSE IF x = i THEN j ELSE x]
<1>1. Permutes(p, D, left, right)
  BY DEF Permutes
<1>2. \A x \in D : b[x] = a[p[x]]
  OBVIOUS
<1>3. b \in [D -> Int]
  OBVIOUS
<1> HIDE DEF p
<1> QED BY <1>1, <1>2, <1>3 DEF Rearranged

LEMMA RearrangedTwice ==
    ASSUME NEW D, NEW a, NEW b, NEW c, NEW left, NEW right,
           Rearranged(a, b, D, left, right), Rearranged(b, c, D, left, right)
    PROVE  Rearranged(a, c, D, left, right)
<1>1. a \in [D -> Int] /\ b \in [D -> Int] /\ c \in [D -> Int]
  BY DEF Rearranged
<1>2. PICK p : Permutes(p, D, left, right) /\ \A x \in D : b[x] = a[p[x]]
  BY DEF Rearranged
<1>3. PICK q : Permutes(q, D, left, right) /\ \A x \in D : c[x] = b[q[x]]
  BY DEF Rearranged
<1> DEFINE s == [x \in D |-> p[q[x]]]
<1>4. Permutes(s, D, left, right) /\ \A x \in D : c[x] = a[s[x]]
  BY <1>2, <1>3 DEF Permutes
<1> HIDE DEF s
<1> QED BY <1>1, <1>4 DEF Rearranged

(* A range may be part of a larger one. *)
LEMMA RearrangedWithin ==
    ASSUME NEW D, NEW a, NEW b, NEW left, NEW right, NEW l, NEW r,
           l .. r \subseteq left .. right, Rearranged(a, b, D, l, r)
    PROVE  Rearranged(a, b, D, left, right)
<1>1. PICK p : Permutes(p, D, l, r) /\ \A x \in D : b[x] = a[p[x]]
  BY DEF Rearranged
<1>2. Permutes(p, D, left, right)
  BY <1>1 DEF Permutes
<1> QED BY <1>1, <1>2 DEF Rearranged

(* Nothing changes outside the range, and what is in it was in it. *)
LEMMA RearrangedKeeps ==
    ASSUME NEW D, NEW a, NEW b, NEW left, NEW right, Rearranged(a, b, D, left, right)
    PROVE  /\ a \in [D -> Int] /\ b \in [D -> Int]
           /\ \A x \in D : x \notin left .. right => b[x] = a[x]
           /\ \A x \in D : x \in left .. right =>
                 \E y \in D : y \in left .. right /\ b[x] = a[y]
<1>1. PICK p : Permutes(p, D, left, right) /\ \A x \in D : b[x] = a[p[x]]
  BY DEF Rearranged
<1>2. ASSUME NEW x \in D, x \in left .. right
      PROVE  p[x] \in D /\ p[x] \in left .. right
  <2>1. p[x] \in D
    BY <1>1 DEF Permutes
  <2>2. p[x] \notin left .. right => p[p[x]] = p[x]
    BY <1>1, <2>1 DEF Permutes
  <2>3. p[p[x]] = p[x] => p[x] = x
    BY <1>1, <2>1 DEF Permutes
  <2> QED BY <1>2, <2>1, <2>2, <2>3
<1> QED BY <1>1, <1>2 DEF Rearranged, Permutes

(* No number is lost or made up. *)
LEMMA RearrangedCounts ==
    ASSUME NEW D, IsFiniteSet(D), NEW a, NEW b, NEW left, NEW right,
           Rearranged(a, b, D, left, right), NEW v
    PROVE  HowMany(b, v) = HowMany(a, v)
<1>1. PICK p : Permutes(p, D, left, right) /\ \A x \in D : b[x] = a[p[x]]
  BY DEF Rearranged
<1>2. a \in [D -> Int] /\ b \in [D -> Int] /\ p \in [D -> D]
  BY <1>1 DEF Rearranged, Permutes
<1>3. p \in Injection(D, D)
  BY <1>1, <1>2, Fun_IsInj DEF Permutes
<1>4. p \in Surjection(D, D)
  BY <1>3, FS_Injection
<1>5. \A y \in D : \E x \in D : p[x] = y
  BY <1>4 DEF Surjection
<1> DEFINE S == {x \in D : b[x] = v}
           T == {x \in D : a[x] = v}
           q == [x \in S |-> p[x]]
<1>6. q \in [S -> T] /\ (\A x, y \in S : q[x] = q[y] => x = y) /\ \A y \in T : \E x \in S : q[x] = y
  BY <1>1, <1>2, <1>5 DEF Permutes
<1>7. q \in Bijection(S, T)
  BY <1>6, Fun_IsBij
<1>8. IsFiniteSet(S) /\ ExistsBijection(S, T)
  <2>1. IsFiniteSet(S)
    BY FS_Subset
  <2> HIDE DEF q, S, T
  <2> QED BY <1>7, <2>1 DEF ExistsBijection
<1> HIDE DEF q, S, T
<1>9. Cardinality(T) = Cardinality(S)
  BY <1>8, FS_Bijection
<1>10. HowMany(b, v) = Cardinality(S) /\ HowMany(a, v) = Cardinality(T)
  BY <1>2 DEF HowMany, S, T
<1> QED BY <1>9, <1>10

-----------------------------------------------------------------------------
(* The two nested loops over a short range *)

(* A range that lies in the list. *)
RangeIn(left, right, D) ==
    left \in Int /\ right \in Int /\ right >= left - 1 /\ left .. right \subseteq D

SortedRange(a, left, right) ==
    \A i, j \in left .. right : i < j => a[i] <= a[j]

Exchange(array, i, j) ==
    IF i < j /\ array[i] > array[j]
    THEN [array EXCEPT ![i] = array[j], ![j] = array[i]]
    ELSE array

(* With the loops at i and j, counted from left: the places before i have  *)
(* their numbers for good, and the one at i is the least up to j.          *)
Placed(array, left, right, i, j) ==
    /\ \A x, y \in left .. right : x < left + i /\ x < y => array[x] <= array[y]
    /\ \A y \in left .. right : left + i < y /\ y < left + j => array[left + i] <= array[y]

LEMMA ExchangePlaces ==
    ASSUME NEW D, NEW a \in [D -> Int], NEW left, NEW right, RangeIn(left, right, D),
           NEW i \in 0 .. right - left, NEW j \in 0 .. right - left,
           Placed(a, left, right, i, j)
    PROVE  LET b == Exchange(a, left + i, left + j)
           IN  /\ Rearranged(a, b, D, left, right)
               /\ Placed(b, left, right, i, j + 1)
               /\ j = right - left => Placed(b, left, right, i + 1, 0)
<1> DEFINE p == left + i
           q == left + j
           b == Exchange(a, p, q)
<1>1. /\ left \in Int /\ right \in Int /\ left .. right \subseteq D
      /\ p \in left .. right /\ q \in left .. right /\ p \in D /\ q \in D
      /\ p \in Int /\ q \in Int
  BY DEF RangeIn
<1>2. /\ \A x, y \in left .. right : x < p /\ x < y => a[x] <= a[y]
      /\ \A y \in left .. right : p < y /\ y < q => a[p] <= a[y]
  BY DEF Placed
<1>3. /\ p < q /\ a[p] > a[q] => b = [a EXCEPT ![p] = a[q], ![q] = a[p]]
      /\ ~(p < q /\ a[p] > a[q]) => b = a
  BY DEF Exchange
<1> HIDE DEF b, p, q
<1>4. Rearranged(a, b, D, left, right)
  <2>1. CASE b = a
    BY <2>1, SameIsRearranged
  <2>2. CASE b # a
    <3>1. b = [a EXCEPT ![p] = a[q], ![q] = a[p]]
      BY <1>3, <2>2
    <3> QED BY <1>1, <3>1, SwapIsRearranged
  <2> QED BY <2>1, <2>2
<1>5. \A x \in left .. right : x < p => b[x] = a[x]
  BY <1>1, <1>3
<1>6. \A y \in left .. right : b[y] = a[y] \/ y = p \/ y = q
  BY <1>1, <1>3
<1>7. b[p] <= a[p] /\ (p < q => b[p] <= b[q]) /\ b[p] \in Int /\ b[q] \in Int
      /\ b[p] \in {a[p], a[q]} /\ b[q] \in {a[p], a[q]}
  BY <1>1, <1>3
<1>8. \A x, y \in left .. right : x < p /\ x < y => b[x] <= b[y]
  <2> SUFFICES ASSUME NEW x \in left .. right, NEW y \in left .. right, x < p, x < y
               PROVE  a[x] <= b[y]
    BY <1>5
  <2>1. a[x] <= a[y] /\ a[x] <= a[p]
    BY <1>1, <1>2
  <2>2. q > p => a[x] <= a[q]
    BY <1>1, <1>2
  <2>3. CASE b = a
    BY <2>1, <2>3
  <2>4. CASE b # a
    <3>1. q > p
      BY <1>1, <1>3, <2>4
    <3> QED BY <1>6, <1>7, <2>1, <2>2, <3>1
  <2> QED BY <2>3, <2>4
<1>9. \A y \in left .. right : p < y /\ y < q + 1 => b[p] <= b[y]
  <2> SUFFICES ASSUME NEW y \in left .. right, p < y, y < q + 1
               PROVE  b[p] <= b[y]
    OBVIOUS
  <2>1. CASE y = q
    BY <1>7, <2>1
  <2>2. CASE y # q
    <3>1. y < q /\ y # p
      BY <1>1, <2>2
    <3>2. a[p] <= a[y] /\ b[y] = a[y]
      BY <1>2, <1>6, <2>2, <3>1
    <3>3. a[p] \in Int /\ a[y] \in Int
      BY <1>1
    <3> QED BY <1>7, <3>2, <3>3
  <2> QED BY <2>1, <2>2
<1>10. Placed(b, left, right, i, j + 1)
  BY <1>1, <1>8, <1>9 DEF Placed, p, q
<1>11. ASSUME j = right - left
       PROVE  Placed(b, left, right, i + 1, 0)
  <2>1. q = right
    BY <1>1, <1>11 DEF q
  <2>2. \A y \in left .. right : p < y => b[p] <= b[y]
    BY <1>1, <1>9, <2>1
  <2>3. \A x \in left .. right : x < left + (i + 1) => x < p \/ x = p
    BY <1>1 DEF p
  <2>4. \A x, y \in left .. right : x < left + (i + 1) /\ x < y => b[x] <= b[y]
    BY <1>8, <2>2, <2>3
  <2>5. \A y \in left .. right : ~(left + (i + 1) < y /\ y < left + 0)
    BY <1>1
  <2> QED BY <2>4, <2>5 DEF Placed
<1> QED BY <1>4, <1>10, <1>11 DEF b, p, q

(* The lists the loops go through. *)
ExchangeLoop(a, left, right) ==
    CHOOSE loop : loop =
        [k \in 0 .. (right - left + 1) * (right - left + 1) |->
            IF k = 0 THEN a
            ELSE Exchange(loop[k - 1], left + ((k - 1) \div (right - left + 1)),
                                       left + ((k - 1) % (right - left + 1)))]

LEMMA ExchangedIsLast ==
    ASSUME NEW left, NEW right
    PROVE  Exchanged(left, right)
             = ExchangeLoop(list, left, right)[(right - left + 1) * (right - left + 1)]
BY DEF Exchanged, ExchangeLoop, Exchange

LEMMA ExchangeLoopIs ==
    ASSUME NEW D, NEW a \in [D -> Int], NEW left, NEW right, RangeIn(left, right, D)
    PROVE  LET w == right - left + 1
               f == ExchangeLoop(a, left, right)
           IN  /\ f[0] = a
               /\ \A k \in 1 .. w * w :
                     f[k] = Exchange(f[k - 1], left + ((k - 1) \div w), left + ((k - 1) % w))
<1> DEFINE w == right - left + 1
           n == w * w
           h == [k \in 1 .. n |-> [b \in [D -> Int] |->
                    Exchange(b, left + ((k - 1) \div w), left + ((k - 1) % w))]]
           Eq(f) == f = [k \in 0 .. n |->
                            IF k = 0 THEN a
                            ELSE Exchange(f[k - 1], left + ((k - 1) \div w), left + ((k - 1) % w))]
<1>1. w \in Nat /\ n \in Nat
  BY DEF RangeIn
<1>2. ASSUME NEW k \in 1 .. n
      PROVE  /\ left + ((k - 1) \div w) \in D
             /\ left + ((k - 1) % w) \in D
  <2>1. w \in Nat \ {0} /\ k - 1 \in 0 .. w * w - 1 /\ k - 1 \in Nat
    <3>1. w # 0
      BY <1>1
    <3> QED BY <1>1, <3>1
  <2> DEFINE i == (k - 1) \div w
             j == (k - 1) % w
  <2>2. i \in Nat /\ j \in 0 .. w - 1
    <3> HIDE DEF w, n
    <3> QED BY <2>1, QuotientAndRemainder
  <2>3. i < w
    <3> HIDE DEF w, n
    <3> QED BY <2>1, QuotientIsBelow
  <2> HIDE DEF i, j
  <2>4. left + i \in left .. right /\ left + j \in left .. right
    BY <2>2, <2>3 DEF RangeIn
  <2> QED BY <2>4 DEF RangeIn, i, j
<1>3. \A k \in 1 .. n : \A b \in [D -> Int] :
         Exchange(b, left + ((k - 1) \div w), left + ((k - 1) % w)) \in [D -> Int]
  <2> SUFFICES ASSUME NEW i \in D, NEW j \in D, NEW b \in [D -> Int]
               PROVE  Exchange(b, i, j) \in [D -> Int]
    BY <1>2
  <2> QED BY DEF Exchange
<1> HIDE DEF w, n
<1>4. h \in [1 .. n -> [[D -> Int] -> [D -> Int]]]
  BY <1>3
<1>5. CanIterate(n, [D -> Int], a, h)
  BY <1>1, <1>4 DEF CanIterate
<1>6. PICK f : IsIteration(f, n, [D -> Int], a, h)
  BY <1>5, Recursion
<1>7. f \in [0 .. n -> [D -> Int]] /\ f[0] = a /\ \A k \in 1 .. n : f[k] = h[k][f[k - 1]]
  BY <1>6 DEF IsIteration
<1>8. ASSUME NEW k \in 1 .. n
      PROVE  f[k] = Exchange(f[k - 1], left + ((k - 1) \div w), left + ((k - 1) % w))
  <2>1. f[k - 1] \in [D -> Int]
    BY <1>1, <1>7
  <2> QED BY <1>7, <2>1
<1>9. \A k \in 0 .. n : f[k] = IF k = 0 THEN a
                               ELSE Exchange(f[k - 1], left + ((k - 1) \div w), left + ((k - 1) % w))
  <2> SUFFICES ASSUME NEW k \in 0 .. n, k # 0
               PROVE  f[k] = Exchange(f[k - 1], left + ((k - 1) \div w), left + ((k - 1) % w))
    BY <1>7
  <2>1. k \in 1 .. n
    BY <1>1
  <2> QED BY <1>8, <2>1
<1> HIDE DEF h
<1>10. Eq(f)
  BY <1>7, <1>9
<1>11. Eq(ExchangeLoop(a, left, right))
  BY <1>10 DEF ExchangeLoop, w, n
<1>12. 0 \in 0 .. n /\ \A k \in 1 .. n : k \in 0 .. n /\ k # 0
  BY <1>1
<1> DEFINE g == ExchangeLoop(a, left, right)
<1> HIDE DEF g
<1>13. g = [k \in 0 .. n |->
                IF k = 0 THEN a
                ELSE Exchange(g[k - 1], left + ((k - 1) \div w), left + ((k - 1) % w))]
  BY <1>11 DEF g
<1>14. g[0] = a
  BY <1>12, <1>13
<1>15. \A k \in 1 .. n : g[k] = Exchange(g[k - 1], left + ((k - 1) \div w), left + ((k - 1) % w))
  BY <1>12, <1>13
<1> QED BY <1>14, <1>15 DEF g, n, w

(* A short range ends up sorted. *)
LEMMA ExchangeSorts ==
    ASSUME NEW D, NEW a \in [D -> Int], NEW left, NEW right, RangeIn(left, right, D),
           NEW b, b = ExchangeLoop(a, left, right)[(right - left + 1) * (right - left + 1)]
    PROVE  Rearranged(a, b, D, left, right) /\ SortedRange(b, left, right)
<1> DEFINE w == right - left + 1
           n == w * w
           f == ExchangeLoop(a, left, right)
           T == {k \in 0 .. n : /\ Rearranged(a, f[k], D, left, right)
                                /\ w > 0 => Placed(f[k], left, right, k \div w, k % w)}
<1>1. left \in Int /\ right \in Int /\ w \in Nat /\ n \in Nat
  BY DEF RangeIn
<1>2. /\ f[0] = a
      /\ \A k \in 1 .. n : f[k] = Exchange(f[k - 1], left + ((k - 1) \div w), left + ((k - 1) % w))
  BY ExchangeLoopIs
<1> HIDE DEF f
<1>3. 0 \in T
  <2>1. w > 0 => 0 \div w = 0 /\ 0 % w = 0
    <3> HIDE DEF w
    <3> QED BY <1>1
  <2>2. Placed(a, left, right, 0, 0)
    BY <1>1 DEF Placed
  <2>3. Rearranged(a, a, D, left, right)
    BY SameIsRearranged
  <2> HIDE DEF w, n
  <2> QED BY <1>1, <1>2, <2>1, <2>2, <2>3
<1>4. ASSUME NEW k \in 1 .. n, k - 1 \in T
      PROVE  k \in T
  <2>1. w \in Nat \ {0} /\ k - 1 \in 0 .. w * w - 1 /\ k - 1 \in Nat /\ k \in 0 .. n
    <3>1. w # 0
      BY <1>1
    <3> QED BY <1>1, <3>1
  <2> DEFINE i == (k - 1) \div w
             j == (k - 1) % w
             c == f[k - 1]
  <2>2. i \in Nat /\ j \in 0 .. w - 1 /\ k - 1 = i * w + j
    <3> HIDE DEF w, n
    <3> QED BY <2>1, QuotientAndRemainder
  <2>3. i < w
    <3> HIDE DEF w, n
    <3> QED BY <2>1, QuotientIsBelow
  <2>4. Rearranged(a, c, D, left, right) /\ Placed(c, left, right, i, j)
    <3> HIDE DEF w, n
    <3> QED BY <1>4, <2>1
  <2>5. f[k] = Exchange(c, left + i, left + j)
    BY <1>2
  <2>6. c \in [D -> Int]
    BY <2>4 DEF Rearranged
  <2> HIDE DEF c, i, j
  <2>7. i \in 0 .. right - left /\ j \in 0 .. right - left
    BY <1>1, <2>2, <2>3
  <2>8. /\ Rearranged(c, f[k], D, left, right)
        /\ Placed(f[k], left, right, i, j + 1)
        /\ j = right - left => Placed(f[k], left, right, i + 1, 0)
    BY <2>4, <2>5, <2>6, <2>7, ExchangePlaces
  <2>9. Rearranged(a, f[k], D, left, right)
    BY <2>4, <2>8, RearrangedTwice
  <2>10. Placed(f[k], left, right, k \div w, k % w)
    <3>1. CASE j = w - 1
      <4>1. j = right - left
        BY <1>1, <3>1
      <4>2. k = (i + 1) * w + 0 /\ i + 1 \in Nat /\ 0 \in 0 .. w - 1
        <5> HIDE DEF w, n
        <5> QED BY <2>1, <2>2, <3>1
      <4>3. k \div w = i + 1 /\ k % w = 0
        <5> HIDE DEF w, n
        <5> QED BY <2>1, <4>2, PartsOfSum
      <4> QED BY <2>8, <4>1, <4>3
    <3>2. CASE j # w - 1
      <4>1. k = i * w + (j + 1) /\ j + 1 \in 0 .. w - 1
        <5> HIDE DEF w, n
        <5> QED BY <2>1, <2>2, <3>2
      <4>2. k \div w = i /\ k % w = j + 1
        <5> HIDE DEF w, n
        <5> QED BY <2>1, <2>2, <4>1, PartsOfSum
      <4> QED BY <2>8, <4>2
    <3> QED BY <3>1, <3>2
  <2> QED BY <2>1, <2>9, <2>10
<1> HIDE DEF T
<1>5. 0 .. n \subseteq T
  BY <1>1, <1>3, <1>4, BoundedInduction
<1>6. n \in T
  BY <1>1, <1>5
<1>7. b = f[n]
  BY DEF f
<1>8. Rearranged(a, b, D, left, right)
  BY <1>6, <1>7 DEF T
<1>9. CASE w = 0
  BY <1>1, <1>8, <1>9 DEF SortedRange
<1>10. CASE w > 0
  <2>1. n \div w = w
    <3>1. n = w * w + 0 /\ w \in Nat \ {0} /\ 0 \in 0 .. w - 1
      BY <1>1, <1>10
    <3> HIDE DEF w, n
    <3> QED BY <3>1, PartsOfSum
  <2>2. Placed(b, left, right, w, n % w)
    BY <1>6, <1>7, <1>10, <2>1 DEF T
  <2>3. \A x \in left .. right : x < left + w
    BY <1>1
  <2> HIDE DEF w, n
  <2> QED BY <1>8, <2>2, <2>3 DEF Placed, SortedRange
<1> QED BY <1>1, <1>8, <1>9, <1>10

-----------------------------------------------------------------------------
(* Merging two halves *)

MergeStep(a, m, place, mid, right) ==
    IF m.p_left <= mid /\ (m.p_right > right \/ a[m.p_left] < a[m.p_right])
    THEN [m EXCEPT !.p_left = @ + 1, !.tmp[place] = a[m.p_left]]
    ELSE [m EXCEPT !.p_right = @ + 1, !.tmp[place] = a[m.p_right]]

(* Where the loops are with k numbers in tmp. *)
MergeLoop(a, left, mid, right) ==
    CHOOSE merge : merge =
        [k \in 0 .. right - left + 1 |->
            IF k = 0 THEN [p_left |-> left, p_right |-> mid + 1, tmp |-> a]
            ELSE MergeStep(a, merge[k - 1], left + k - 1, mid, right)]

LEMMA MergedIsLast ==
    ASSUME NEW left, NEW mid, NEW right
    PROVE  Merged(left, mid, right) = MergeLoop(list, left, mid, right)[right - left + 1].tmp
BY DEF Merged, MergeLoop, MergeStep

LEMMA MergeLoopIs ==
    ASSUME NEW D, NEW a \in [D -> Int], NEW left \in Int, NEW mid \in Int, NEW right \in Int,
           right >= left - 1
    PROVE  LET f == MergeLoop(a, left, mid, right)
           IN  /\ f[0] = [p_left |-> left, p_right |-> mid + 1, tmp |-> a]
               /\ \A k \in 1 .. right - left + 1 :
                     f[k] = MergeStep(a, f[k - 1], left + k - 1, mid, right)
<1> DEFINE n == right - left + 1
           d == [p_left |-> left, p_right |-> mid + 1, tmp |-> a]
           V == Int \cup {a[x] : x \in Int}
           S == [p_left : Int, p_right : Int, tmp : [D -> V]]
           h == [k \in 1 .. n |-> [m \in S |-> MergeStep(a, m, left + k - 1, mid, right)]]
           Eq(f) == f = [k \in 0 .. n |->
                            IF k = 0 THEN d
                            ELSE MergeStep(a, f[k - 1], left + k - 1, mid, right)]
<1>1. n \in Nat
  OBVIOUS
<1>2. ASSUME NEW m \in S, NEW place
      PROVE  MergeStep(a, m, place, mid, right) \in S
  <2>1. a[m.p_left] \in V /\ a[m.p_right] \in V
    OBVIOUS
  <2> HIDE DEF V
  <2>2. m.p_left + 1 \in Int /\ m.p_right + 1 \in Int
    OBVIOUS
  <2>3. /\ [m EXCEPT !.p_left = @ + 1, !.tmp[place] = a[m.p_left]] \in S
        /\ [m EXCEPT !.p_right = @ + 1, !.tmp[place] = a[m.p_right]] \in S
    BY <2>1, <2>2
  <2> QED BY <2>3 DEF MergeStep
<1>3. d \in S
  OBVIOUS
<1> HIDE DEF S, d, V, n
<1>4. h \in [1 .. n -> [S -> S]]
  BY <1>2
<1>5. CanIterate(n, S, d, h)
  BY <1>1, <1>3, <1>4 DEF CanIterate
<1>6. PICK f : IsIteration(f, n, S, d, h)
  BY <1>5, Recursion
<1>7. f \in [0 .. n -> S] /\ f[0] = d /\ \A k \in 1 .. n : f[k] = h[k][f[k - 1]]
  BY <1>6 DEF IsIteration
<1>8. ASSUME NEW k \in 1 .. n
      PROVE  f[k] = MergeStep(a, f[k - 1], left + k - 1, mid, right)
  <2>1. f[k - 1] \in S
    BY <1>1, <1>7
  <2> QED BY <1>7, <2>1
<1>9. \A k \in 0 .. n : f[k] = IF k = 0 THEN d
                               ELSE MergeStep(a, f[k - 1], left + k - 1, mid, right)
  <2> SUFFICES ASSUME NEW k \in 0 .. n, k # 0
               PROVE  f[k] = MergeStep(a, f[k - 1], left + k - 1, mid, right)
    BY <1>7
  <2>1. k \in 1 .. n
    BY <1>1
  <2> QED BY <1>8, <2>1
<1> HIDE DEF h
<1>10. Eq(f)
  BY <1>7, <1>9
<1>11. Eq(MergeLoop(a, left, mid, right))
  BY <1>10 DEF MergeLoop, d, n
<1>12. 0 \in 0 .. n /\ \A k \in 1 .. n : k \in 0 .. n /\ k # 0
  BY <1>1
<1> DEFINE g == MergeLoop(a, left, mid, right)
<1> HIDE DEF g
<1>13. g = [k \in 0 .. n |->
                IF k = 0 THEN d ELSE MergeStep(a, g[k - 1], left + k - 1, mid, right)]
  BY <1>11 DEF g
<1>14. g[0] = d
  BY <1>12, <1>13
<1>15. \A k \in 1 .. n : g[k] = MergeStep(a, g[k - 1], left + k - 1, mid, right)
  BY <1>12, <1>13
<1> QED BY <1>14, <1>15 DEF g, n, d

(* tmp has from left up to place, in order, the numbers of U. *)
Taken(a, tmp, from, left, place, U) ==
    /\ \A x \in left .. place - 1 : from[x] \in U /\ tmp[x] = a[from[x]]
    /\ \A x, y \in left .. place - 1 : from[x] = from[y] => x = y
    /\ \A x, y \in left .. place - 1 : x < y => tmp[x] <= tmp[y]

CanTake(a, tmp, from, left, place, U, s, D, new) ==
    /\ a \in [D -> Int] /\ tmp \in [D -> Int]
    /\ left \in Int /\ place \in Int /\ left <= place /\ place \in D
    /\ s \in D /\ s \notin U
    /\ Taken(a, tmp, from, left, place, U)
    /\ \A x \in left .. place - 1 : tmp[x] <= a[s]
    /\ new = [tmp EXCEPT ![place] = a[s]]

LEMMA TakeOne ==
    ASSUME NEW a, NEW tmp, NEW from, NEW left, NEW place, NEW U, NEW s, NEW D, NEW new,
           CanTake(a, tmp, from, left, place, U, s, D, new)
    PROVE  \E f : Taken(a, new, f, left, place + 1, U \cup {s})
<1>0. /\ a \in [D -> Int] /\ tmp \in [D -> Int]
      /\ left \in Int /\ place \in Int /\ left <= place /\ place \in D
      /\ s \in D /\ s \notin U
      /\ Taken(a, tmp, from, left, place, U)
      /\ \A x \in left .. place - 1 : tmp[x] <= a[s]
      /\ new = [tmp EXCEPT ![place] = a[s]]
  BY DEF CanTake
<1> DEFINE f == [x \in left .. place |-> IF x = place THEN s ELSE from[x]]
<1>1. f[place] = s /\ \A x \in left .. place - 1 : f[x] = from[x]
  BY <1>0
<1>2. \A x \in left .. (place + 1) - 1 : x \in left .. place - 1 \/ x = place
  BY <1>0
<1>3. new[place] = a[s] /\ \A x \in left .. place - 1 : new[x] = tmp[x]
  BY <1>0
<1> HIDE DEF f
<1>4. \A x \in left .. (place + 1) - 1 : f[x] \in U \cup {s} /\ new[x] = a[f[x]]
  BY <1>0, <1>1, <1>2, <1>3 DEF Taken
<1>5. \A x, y \in left .. (place + 1) - 1 : f[x] = f[y] => x = y
  BY <1>0, <1>1, <1>2 DEF Taken
<1>6. \A x, y \in left .. (place + 1) - 1 : x < y => new[x] <= new[y]
  <2> SUFFICES ASSUME NEW x \in left .. (place + 1) - 1, NEW y \in left .. (place + 1) - 1, x < y
               PROVE  new[x] <= new[y]
    OBVIOUS
  <2>1. x \in left .. place - 1
    BY <1>0
  <2>2. CASE y = place
    BY <1>0, <1>3, <2>1, <2>2
  <2>3. CASE y \in left .. place - 1
    BY <1>0, <1>3, <2>1, <2>3 DEF Taken
  <2> QED BY <1>0, <1>2, <2>2, <2>3
<1> QED BY <1>4, <1>5, <1>6 DEF Taken

(* With k numbers merged: which they are, that they are in order, and that *)
(* none is greater than what is left.                                      *)
MergedSoFar(a, m, k, D, left, mid, right) ==
    /\ m.p_left \in left .. mid + 1 /\ m.p_right \in mid + 1 .. right + 1
    /\ (m.p_left - left) + (m.p_right - (mid + 1)) = k
    /\ m.tmp \in [D -> Int]
    /\ \A x \in D : x \notin left .. left + k - 1 => m.tmp[x] = a[x]
    /\ \E from : Taken(a, m.tmp, from, left, left + k,
                       (left .. m.p_left - 1) \cup (mid + 1 .. m.p_right - 1))
    /\ \A x \in left .. left + k - 1 :
          /\ m.p_left <= mid => m.tmp[x] <= a[m.p_left]
          /\ m.p_right <= right => m.tmp[x] <= a[m.p_right]

LEMMA MergeTakes ==
    ASSUME NEW D, NEW a \in [D -> Int], NEW left, NEW right, RangeIn(left, right, D),
           NEW mid \in left - 1 .. right, SortedRange(a, left, mid), SortedRange(a, mid + 1, right),
           NEW k \in 0 .. right - left, NEW m, MergedSoFar(a, m, k, D, left, mid, right),
           m = [p_left |-> m.p_left, p_right |-> m.p_right, tmp |-> m.tmp]
    PROVE  LET n == MergeStep(a, m, left + k, mid, right)
           IN  /\ MergedSoFar(a, n, k + 1, D, left, mid, right)
               /\ n = [p_left |-> n.p_left, p_right |-> n.p_right, tmp |-> n.tmp]
<1> DEFINE p == m.p_left
           q == m.p_right
           tmp == m.tmp
           place == left + k
           U == (left .. p - 1) \cup (mid + 1 .. q - 1)
           n == MergeStep(a, m, place, mid, right)
<1>1. /\ left \in Int /\ right \in Int /\ mid \in Int /\ left .. right \subseteq D
      /\ place \in left .. right /\ place \in D /\ k \in Int
  BY DEF RangeIn
<1>2. /\ p \in left .. mid + 1 /\ q \in mid + 1 .. right + 1
      /\ (p - left) + (q - (mid + 1)) = k
      /\ tmp \in [D -> Int]
      /\ \A x \in D : x \notin left .. place - 1 => tmp[x] = a[x]
      /\ \E from : Taken(a, tmp, from, left, place, U)
      /\ \A x \in left .. place - 1 : /\ p <= mid => tmp[x] <= a[p]
                                      /\ q <= right => tmp[x] <= a[q]
  <2>1. \E from : Taken(a, tmp, from, left, place, U)
    BY DEF MergedSoFar
  <2>0. place - 1 = left + k - 1
    BY <1>1
  <2>2. \A x \in left .. place - 1 :
           /\ p <= mid => tmp[x] <= a[p]
           /\ q <= right => tmp[x] <= a[q]
    BY <2>0 DEF MergedSoFar
  <2>3. /\ p \in left .. mid + 1 /\ q \in mid + 1 .. right + 1
        /\ (p - left) + (q - (mid + 1)) = k
        /\ tmp \in [D -> Int]
    BY DEF MergedSoFar
  <2>4. \A x \in D : x \notin left .. place - 1 => tmp[x] = a[x]
    BY <2>0 DEF MergedSoFar
  <2> QED BY <2>1, <2>2, <2>3, <2>4
<1>3. PICK from : Taken(a, tmp, from, left, place, U)
  BY <1>2
<1> HIDE DEF place
<1>4. CASE p <= mid /\ (q > right \/ a[p] < a[q])
  <2> DEFINE new == [tmp EXCEPT ![place] = a[p]]
  <2>1. n = [p_left |-> p + 1, p_right |-> q, tmp |-> new]
    BY <1>4 DEF MergeStep
  <2>2. p \in D /\ p \in left .. right
    BY <1>1, <1>2, <1>4
  <2>3. p \notin U
    BY <1>1, <1>2, <1>4
  <2>4. \A x \in left .. place - 1 : tmp[x] <= a[p]
    BY <1>2, <1>4
  <2> HIDE DEF U, n, p, q, tmp
  <2>5. \E f : Taken(a, new, f, left, place + 1, U \cup {p})
    <3>1. CanTake(a, tmp, from, left, place, U, p, D, new)
      BY <1>1, <1>2, <1>3, <2>2, <2>3, <2>4 DEF CanTake
    <3> HIDE DEF new
    <3> QED BY <3>1, TakeOne
  <2>6. U \cup {p} = (left .. (p + 1) - 1) \cup (mid + 1 .. q - 1)
    BY <1>1, <1>2, <1>4 DEF U
  <2>7. new \in [D -> Int] /\ \A x \in D : x \notin left .. (place + 1) - 1 => new[x] = a[x]
    BY <1>1, <1>2, <2>2
  <2>8. \A x \in left .. (place + 1) - 1 : x \in left .. place - 1 \/ x = place
    BY <1>1
  <2>9. ASSUME NEW x \in left .. (place + 1) - 1
        PROVE  /\ p + 1 <= mid => new[x] <= a[p + 1]
               /\ q <= right => new[x] <= a[q]
    <3>1. new[x] <= a[p] /\ new[x] \in Int /\ a[p] \in Int
      BY <1>1, <1>2, <2>2, <2>4, <2>8
    <3>2. p + 1 <= mid => a[p] <= a[p + 1] /\ a[p + 1] \in Int
      BY <1>1, <1>2 DEF SortedRange
    <3>3. q <= right => a[p] < a[q] /\ a[q] \in Int
      BY <1>1, <1>2, <1>4
    <3> QED BY <3>1, <3>2, <3>3
  <2>10. p + 1 \in left .. mid + 1 /\ ((p + 1) - left) + (q - (mid + 1)) = k + 1
    BY <1>1, <1>2, <1>4
  <2>11. place + 1 = left + (k + 1)
    BY <1>1 DEF place
  <2> HIDE DEF new
  <2>12. MergedSoFar(a, n, k + 1, D, left, mid, right)
    <3>1. n.p_left = p + 1 /\ n.p_right = q /\ n.tmp = new
      BY <2>1
    <3>2. \E f : Taken(a, new, f, left, left + (k + 1), (left .. (p + 1) - 1) \cup (mid + 1 .. q - 1))
      BY <2>5, <2>6, <2>11
    <3>3. left .. left + (k + 1) - 1 = left .. (place + 1) - 1
      BY <1>1 DEF place
    <3> QED BY <1>2, <2>7, <2>9, <2>10, <3>1, <3>2, <3>3 DEF MergedSoFar
  <2> QED BY <2>1, <2>12 DEF n, place
<1>5. CASE ~(p <= mid /\ (q > right \/ a[p] < a[q]))
  <2> DEFINE new == [tmp EXCEPT ![place] = a[q]]
  <2>1. n = [p_left |-> p, p_right |-> q + 1, tmp |-> new]
    BY <1>5 DEF MergeStep
  <2>2. q <= right /\ q \in D /\ q \in left .. right /\ (p <= mid => a[q] <= a[p])
    <3>1. q <= right
      BY <1>1, <1>2, <1>5 DEF place
    <3>2. q \in D /\ q \in left .. right
      BY <1>1, <1>2, <3>1
    <3>3. p <= mid => a[p] \in Int /\ a[q] \in Int
      BY <1>1, <1>2, <3>2
    <3> QED BY <1>5, <3>1, <3>2, <3>3, <1>1, <1>2
  <2>3. q \notin U
    BY <1>1, <1>2
  <2>4. \A x \in left .. place - 1 : tmp[x] <= a[q]
    BY <1>2, <2>2
  <2> HIDE DEF U, n, p, q, tmp
  <2>5. \E f : Taken(a, new, f, left, place + 1, U \cup {q})
    <3>1. CanTake(a, tmp, from, left, place, U, q, D, new)
      BY <1>1, <1>2, <1>3, <2>2, <2>3, <2>4 DEF CanTake
    <3> HIDE DEF new
    <3> QED BY <3>1, TakeOne
  <2>6. U \cup {q} = (left .. p - 1) \cup (mid + 1 .. (q + 1) - 1)
    BY <1>1, <1>2 DEF U
  <2>7. new \in [D -> Int] /\ \A x \in D : x \notin left .. (place + 1) - 1 => new[x] = a[x]
    BY <1>1, <1>2, <2>2
  <2>8. \A x \in left .. (place + 1) - 1 : x \in left .. place - 1 \/ x = place
    BY <1>1
  <2>9. ASSUME NEW x \in left .. (place + 1) - 1
        PROVE  /\ p <= mid => new[x] <= a[p]
               /\ q + 1 <= right => new[x] <= a[q + 1]
    <3>1. new[x] <= a[q] /\ new[x] \in Int /\ a[q] \in Int
      BY <1>1, <1>2, <2>2, <2>4, <2>8
    <3>2. q + 1 <= right => a[q] <= a[q + 1] /\ a[q + 1] \in Int
      BY <1>1, <1>2 DEF SortedRange
    <3>3. p <= mid => a[q] <= a[p] /\ a[p] \in Int
      BY <1>1, <1>2, <2>2
    <3> QED BY <3>1, <3>2, <3>3
  <2>10. q + 1 \in mid + 1 .. right + 1 /\ (p - left) + ((q + 1) - (mid + 1)) = k + 1
    BY <1>1, <1>2, <2>2
  <2>11. place + 1 = left + (k + 1)
    BY <1>1 DEF place
  <2> HIDE DEF new
  <2>12. MergedSoFar(a, n, k + 1, D, left, mid, right)
    <3>1. n.p_left = p /\ n.p_right = q + 1 /\ n.tmp = new
      BY <2>1
    <3>2. \E f : Taken(a, new, f, left, left + (k + 1), (left .. p - 1) \cup (mid + 1 .. (q + 1) - 1))
      BY <2>5, <2>6, <2>11
    <3>3. left .. left + (k + 1) - 1 = left .. (place + 1) - 1
      BY <1>1 DEF place
    <3> QED BY <1>2, <2>7, <2>9, <2>10, <3>1, <3>2, <3>3 DEF MergedSoFar
  <2> QED BY <2>1, <2>12 DEF n, place
<1> QED BY <1>4, <1>5

(* Two sorted halves become one. *)
LEMMA MergeSorts ==
    ASSUME NEW D, NEW a \in [D -> Int], NEW left, NEW right, RangeIn(left, right, D),
           NEW mid \in left - 1 .. right, SortedRange(a, left, mid), SortedRange(a, mid + 1, right),
           NEW b, b = MergeLoop(a, left, mid, right)[right - left + 1].tmp
    PROVE  Rearranged(a, b, D, left, right) /\ SortedRange(b, left, right)
<1> DEFINE n == right - left + 1
           f == MergeLoop(a, left, mid, right)
           Rec(m) == m = [p_left |-> m.p_left, p_right |-> m.p_right, tmp |-> m.tmp]
           T == {k \in 0 .. n : MergedSoFar(a, f[k], k, D, left, mid, right) /\ Rec(f[k])}
<1>1. /\ left \in Int /\ right \in Int /\ mid \in Int /\ right >= left - 1
      /\ left .. right \subseteq D /\ n \in Nat
  BY DEF RangeIn
<1>2. /\ f[0] = [p_left |-> left, p_right |-> mid + 1, tmp |-> a]
      /\ \A k \in 1 .. n : f[k] = MergeStep(a, f[k - 1], left + k - 1, mid, right)
  BY <1>1, MergeLoopIs
<1> HIDE DEF f
<1>3. 0 \in T
  <2>1. f[0].p_left = left /\ f[0].p_right = mid + 1 /\ f[0].tmp = a /\ Rec(f[0])
    BY <1>2
  <2>2. left .. left + 0 - 1 = {} /\ left .. (left + 0) - 1 = {}
    BY <1>1
  <2>3. Taken(a, a, a, left, left + 0, (left .. left - 1) \cup (mid + 1 .. (mid + 1) - 1))
    BY <2>2 DEF Taken
  <2>4. left \in left .. mid + 1 /\ mid + 1 \in mid + 1 .. right + 1
        /\ (left - left) + ((mid + 1) - (mid + 1)) = 0
    BY <1>1
  <2>5. MergedSoFar(a, f[0], 0, D, left, mid, right)
    BY <2>1, <2>2, <2>3, <2>4 DEF MergedSoFar
  <2> QED BY <1>1, <2>1, <2>5
<1>4. ASSUME NEW k \in 1 .. n, k - 1 \in T
      PROVE  k \in T
  <2> DEFINE m == f[k - 1]
             l == k - 1
  <2>1. MergedSoFar(a, m, l, D, left, mid, right) /\ Rec(m)
    BY <1>4
  <2>2. l \in 0 .. right - left /\ k \in 0 .. n /\ k = l + 1 /\ left + k - 1 = left + l
    BY <1>1
  <2>3. f[k] = MergeStep(a, m, left + l, mid, right)
    BY <1>2, <2>2
  <2> HIDE DEF m, l
  <2>4. MergedSoFar(a, f[k], l + 1, D, left, mid, right) /\ Rec(f[k])
    BY <2>1, <2>2, <2>3, MergeTakes
  <2> QED BY <2>2, <2>4
<1> HIDE DEF T
<1>5. 0 .. n \subseteq T
  BY <1>1, <1>3, <1>4, BoundedInduction
<1>6. MergedSoFar(a, f[n], n, D, left, mid, right)
  <2>1. n \in T
    BY <1>1, <1>5
  <2> QED BY <2>1 DEF T
<1>7. b = f[n].tmp
  BY DEF f
<1>8. /\ f[n].p_left = mid + 1 /\ f[n].p_right = right + 1 /\ b \in [D -> Int]
      /\ left + n - 1 = right /\ left + n = right + 1 /\ (right + 1) - 1 = right /\ (mid + 1) - 1 = mid
  <2>1. /\ f[n].p_left \in left .. mid + 1 /\ f[n].p_right \in mid + 1 .. right + 1
        /\ (f[n].p_left - left) + (f[n].p_right - (mid + 1)) = n
        /\ b \in [D -> Int]
    BY <1>6, <1>7 DEF MergedSoFar
  <2> QED BY <1>1, <2>1
<1>9. \A x \in D : x \notin left .. right => b[x] = a[x]
  BY <1>6, <1>7, <1>8 DEF MergedSoFar
<1>10. PICK from : Taken(a, b, from, left, right + 1, (left .. mid) \cup (mid + 1 .. right))
  BY <1>6, <1>7, <1>8 DEF MergedSoFar
<1>11. /\ \A x \in left .. right : from[x] \in left .. right /\ b[x] = a[from[x]]
       /\ \A x, y \in left .. right : from[x] = from[y] => x = y
       /\ \A x, y \in left .. right : x < y => b[x] <= b[y]
  BY <1>1, <1>8, <1>10 DEF Taken
<1> DEFINE p == [x \in D |-> IF x \in left .. right THEN from[x] ELSE x]
<1>12. Permutes(p, D, left, right) /\ \A x \in D : b[x] = a[p[x]]
  <2>1. \A x \in D : (x \in left .. right => p[x] = from[x]) /\ (x \notin left .. right => p[x] = x)
    OBVIOUS
  <2>2. p \in [D -> D]
    BY <1>1, <1>11
  <2> HIDE DEF p
  <2> QED BY <1>9, <1>11, <2>1, <2>2 DEF Permutes
<1> HIDE DEF p
<1> QED BY <1>8, <1>11, <1>12 DEF Rearranged, SortedRange

-----------------------------------------------------------------------------
(* Partitioning around a pivot *)

FromTop(s, pivot) ==
    LET h == Max({s.p_low} \cup {i \in s.p_low .. s.p_high : s.array[i] < pivot})
    IN  IF h = s.p_low THEN [s EXCEPT !.p_high = h]
        ELSE [array |-> [s.array EXCEPT ![s.p_low] = s.array[h]],
              p_low |-> s.p_low + 1, p_high |-> h]

FromBottom(s, pivot) ==
    LET l == Min({s.p_high} \cup {i \in s.p_low .. s.p_high : s.array[i] > pivot})
    IN  IF l = s.p_high THEN [s EXCEPT !.p_low = l]
        ELSE [array |-> [s.array EXCEPT ![s.p_high] = s.array[l]],
              p_low |-> l, p_high |-> s.p_high - 1]

Turned(s, pivot) == IF s.p_low = s.p_high THEN s ELSE FromBottom(FromTop(s, pivot), pivot)

(* The states after the iterations. *)
PartitionLoop(a, left, right) ==
    CHOOSE turn : turn =
        [k \in 0 .. right - left |->
            IF k = 0 THEN [array |-> a, p_low |-> left, p_high |-> right]
            ELSE Turned(turn[k - 1], a[left])]

LEMMA PartitionedIsLast ==
    ASSUME NEW left, NEW right
    PROVE  LET last == PartitionLoop(list, left, right)[right - left]
           IN  Partitioned(left, right)
                 = [array |-> [last.array EXCEPT ![last.p_low] = list[left]], mid |-> last.p_low]
BY DEF Partitioned, PartitionLoop, Turned, FromTop, FromBottom

(* The numbers below p_low are no greater than the pivot, those above      *)
(* p_high no less, and with the pivot in the hole no number is missing.    *)
Parted(s, hole, a, pivot, D, left, right) ==
    /\ s = [array |-> s.array, p_low |-> s.p_low, p_high |-> s.p_high]
    /\ s.array \in [D -> Int]
    /\ s.p_low \in Int /\ s.p_high \in Int
    /\ left <= s.p_low /\ s.p_low <= s.p_high /\ s.p_high <= right
    /\ \A x \in left .. s.p_low - 1 : s.array[x] <= pivot
    /\ \A x \in s.p_high + 1 .. right : s.array[x] >= pivot
    /\ Rearranged(a, [s.array EXCEPT ![hole] = pivot], D, left, right)

(* The number at q is moved to the hole at p, and leaves the hole at q. *)
LEMMA HoleMoves ==
    ASSUME NEW D, NEW a, NEW array \in [D -> Int], NEW pivot \in Int, NEW left, NEW right,
           NEW p \in D, NEW q \in D, p # q, p \in left .. right, q \in left .. right,
           Rearranged(a, [array EXCEPT ![p] = pivot], D, left, right),
           NEW new, new = [array EXCEPT ![p] = array[q]]
    PROVE  Rearranged(a, [new EXCEPT ![q] = pivot], D, left, right)
<1> DEFINE b == [array EXCEPT ![p] = pivot]
           c == [new EXCEPT ![q] = pivot]
<1>1. b \in [D -> Int] /\ c = [b EXCEPT ![p] = b[q], ![q] = b[p]]
  <2>1. b \in [D -> Int] /\ c \in [D -> Int] /\ [b EXCEPT ![p] = b[q], ![q] = b[p]] \in [D -> Int]
    OBVIOUS
  <2>2. \A x \in D : c[x] = [b EXCEPT ![p] = b[q], ![q] = b[p]][x]
    OBVIOUS
  <2> QED BY <2>1, <2>2
<1> HIDE DEF b, c
<1>2. Rearranged(b, c, D, left, right)
  BY <1>1, SwapIsRearranged
<1>3. Rearranged(a, b, D, left, right)
  BY DEF b
<1>4. Rearranged(a, c, D, left, right)
  BY <1>2, <1>3, RearrangedTwice
<1> QED BY <1>4 DEF c

LEMMA TopParts ==
    ASSUME NEW D, NEW a, NEW pivot \in Int, NEW left, NEW right, RangeIn(left, right, D),
           NEW s, Parted(s, s.p_low, a, pivot, D, left, right), s.p_low < s.p_high
    PROVE  LET t == FromTop(s, pivot)
           IN  /\ Parted(t, t.p_high, a, pivot, D, left, right)
               /\ t.p_low = t.p_high \/ t.p_high - t.p_low < s.p_high - s.p_low
<1> DEFINE p == s.p_low
           q == s.p_high
           b == s.array
           X == {p} \cup {i \in p .. q : b[i] < pivot}
           h == Max(X)
           t == FromTop(s, pivot)
<1>1. /\ s = [array |-> b, p_low |-> p, p_high |-> q]
      /\ b \in [D -> Int] /\ p \in Int /\ q \in Int
      /\ left <= p /\ p < q /\ q <= right
      /\ left \in Int /\ right \in Int /\ left .. right \subseteq D
      /\ \A x \in left .. p - 1 : b[x] <= pivot
      /\ \A x \in q + 1 .. right : b[x] >= pivot
      /\ Rearranged(a, [b EXCEPT ![p] = pivot], D, left, right)
  BY DEF Parted, RangeIn
<1>2. /\ h = p => t = [array |-> b, p_low |-> p, p_high |-> h]
      /\ h # p => t = [array |-> [b EXCEPT ![p] = b[h]], p_low |-> p + 1, p_high |-> h]
  BY <1>1 DEF FromTop
<1> HIDE DEF t, p, q, b
<1>3. h \in X /\ \A x \in X : h >= x
  <2>1. X \in SUBSET (p .. q) /\ X # {}
    BY <1>1
  <2> HIDE DEF X
  <2>2. \E x \in X : \A y \in X : x >= y
    BY <1>1, <2>1, RangeHasGreatest
  <2> QED BY <2>2 DEF Max
<1> HIDE DEF h
<1>4. h \in p .. q /\ h \in Int
  BY <1>1, <1>3
<1>5. \A x \in h + 1 .. right : b[x] >= pivot
  <2> SUFFICES ASSUME NEW x \in h + 1 .. right
               PROVE  b[x] >= pivot
    OBVIOUS
  <2>1. CASE x > q
    BY <1>1, <1>4, <2>1
  <2>2. CASE x <= q
    <3>1. x \in p .. q /\ x \notin X /\ x \in D
      BY <1>1, <1>3, <1>4, <2>2
    <3>2. ~(b[x] < pivot) /\ b[x] \in Int
      BY <1>1, <3>1
    <3> QED BY <3>2
  <2> QED BY <1>1, <1>4, <2>1, <2>2
<1> HIDE DEF X
<1>6. CASE h = p
  <2>1. t.array = b /\ t.p_low = p /\ t.p_high = p /\ t = [array |-> b, p_low |-> p, p_high |-> p]
    BY <1>2, <1>6
  <2>2. Parted(t, p, a, pivot, D, left, right)
    BY <1>1, <1>5, <1>6, <2>1 DEF Parted
  <2> QED BY <2>1, <2>2 DEF t
<1>7. CASE h # p
  <2> DEFINE new == [b EXCEPT ![p] = b[h]]
  <2>1. t = [array |-> new, p_low |-> p + 1, p_high |-> h]
    BY <1>2, <1>7
  <2>2. p \in D /\ h \in D /\ p \in left .. right /\ h \in left .. right /\ b[h] < pivot
    BY <1>1, <1>3, <1>4, <1>7 DEF X
  <2>3. Rearranged(a, [new EXCEPT ![h] = pivot], D, left, right)
    BY <1>1, <1>7, <2>2, HoleMoves
  <2>4. new \in [D -> Int] /\ new[p] = b[h] /\ \A x \in D : x # p => new[x] = b[x]
    BY <1>1, <2>2
  <2> HIDE DEF new
  <2>5. t.array = new /\ t.p_low = p + 1 /\ t.p_high = h
    BY <2>1
  <2>6. \A x \in left .. (p + 1) - 1 : new[x] <= pivot
    <3> SUFFICES ASSUME NEW x \in left .. (p + 1) - 1
                 PROVE  new[x] <= pivot
      OBVIOUS
    <3>1. CASE x = p
      BY <1>1, <2>2, <2>4, <3>1
    <3>2. CASE x # p
      <4>1. x \in left .. p - 1 /\ x \in D
        BY <1>1, <3>2
      <4> QED BY <1>1, <2>4, <3>2, <4>1
    <3> QED BY <3>1, <3>2
  <2>7. \A x \in h + 1 .. right : new[x] >= pivot
    <3> SUFFICES ASSUME NEW x \in h + 1 .. right
                 PROVE  new[x] >= pivot
      OBVIOUS
    <3>1. x \in D /\ x # p
      BY <1>1, <1>4
    <3> QED BY <1>5, <2>4, <3>1
  <2>8. left <= p + 1 /\ p + 1 <= h /\ h <= right /\ h - (p + 1) < q - p
    BY <1>1, <1>4, <1>7
  <2>9. p + 1 \in Int
    BY <1>1
  <2>10. Parted(t, h, a, pivot, D, left, right)
    BY <1>4, <2>1, <2>3, <2>4, <2>5, <2>6, <2>7, <2>8, <2>9 DEF Parted
  <2> QED BY <2>5, <2>8, <2>10 DEF t, p, q
<1> QED BY <1>6, <1>7

LEMMA BottomParts ==
    ASSUME NEW D, NEW a, NEW pivot \in Int, NEW left, NEW right, RangeIn(left, right, D),
           NEW s, Parted(s, s.p_high, a, pivot, D, left, right)
    PROVE  LET t == FromBottom(s, pivot)
           IN  /\ Parted(t, t.p_low, a, pivot, D, left, right)
               /\ t.p_low = t.p_high \/ t.p_high - t.p_low <= s.p_high - s.p_low
<1> DEFINE p == s.p_low
           q == s.p_high
           b == s.array
           X == {q} \cup {i \in p .. q : b[i] > pivot}
           l == Min(X)
           t == FromBottom(s, pivot)
<1>1. /\ s = [array |-> b, p_low |-> p, p_high |-> q]
      /\ b \in [D -> Int] /\ p \in Int /\ q \in Int
      /\ left <= p /\ p <= q /\ q <= right
      /\ left \in Int /\ right \in Int /\ left .. right \subseteq D
      /\ \A x \in left .. p - 1 : b[x] <= pivot
      /\ \A x \in q + 1 .. right : b[x] >= pivot
      /\ Rearranged(a, [b EXCEPT ![q] = pivot], D, left, right)
  BY DEF Parted, RangeIn
<1>2. /\ l = q => t = [array |-> b, p_low |-> l, p_high |-> q]
      /\ l # q => t = [array |-> [b EXCEPT ![q] = b[l]], p_low |-> l, p_high |-> q - 1]
  BY <1>1 DEF FromBottom
<1> HIDE DEF t, p, q, b
<1>3. l \in X /\ \A x \in X : l <= x
  <2>1. X \in SUBSET (p .. q) /\ X # {}
    BY <1>1
  <2> HIDE DEF X
  <2>2. \E x \in X : \A y \in X : x <= y
    BY <1>1, <2>1, RangeHasLeast
  <2> QED BY <2>2 DEF Min
<1> HIDE DEF l
<1>4. l \in p .. q /\ l \in Int
  BY <1>1, <1>3
<1>5. \A x \in left .. l - 1 : b[x] <= pivot
  <2> SUFFICES ASSUME NEW x \in left .. l - 1
               PROVE  b[x] <= pivot
    OBVIOUS
  <2>1. CASE x < p
    BY <1>1, <1>4, <2>1
  <2>2. CASE x >= p
    <3>1. x \in p .. q /\ x \notin X /\ x \in D
      BY <1>1, <1>3, <1>4, <2>2
    <3>2. ~(b[x] > pivot) /\ b[x] \in Int
      BY <1>1, <3>1
    <3> QED BY <3>2
  <2> QED BY <1>1, <1>4, <2>1, <2>2
<1> HIDE DEF X
<1>6. CASE l = q
  <2>1. t.array = b /\ t.p_low = q /\ t.p_high = q /\ t = [array |-> b, p_low |-> q, p_high |-> q]
    BY <1>2, <1>6
  <2>2. Parted(t, q, a, pivot, D, left, right)
    BY <1>1, <1>5, <1>6, <2>1 DEF Parted
  <2> QED BY <2>1, <2>2 DEF t
<1>7. CASE l # q
  <2> DEFINE new == [b EXCEPT ![q] = b[l]]
  <2>1. t = [array |-> new, p_low |-> l, p_high |-> q - 1]
    BY <1>2, <1>7
  <2>2. q \in D /\ l \in D /\ q \in left .. right /\ l \in left .. right /\ b[l] > pivot
    BY <1>1, <1>3, <1>4, <1>7 DEF X
  <2>3. Rearranged(a, [new EXCEPT ![l] = pivot], D, left, right)
    BY <1>1, <1>7, <2>2, HoleMoves
  <2>4. new \in [D -> Int] /\ new[q] = b[l] /\ \A x \in D : x # q => new[x] = b[x]
    BY <1>1, <2>2
  <2> HIDE DEF new
  <2>5. t.array = new /\ t.p_low = l /\ t.p_high = q - 1
    BY <2>1
  <2>6. \A x \in (q - 1) + 1 .. right : new[x] >= pivot
    <3> SUFFICES ASSUME NEW x \in (q - 1) + 1 .. right
                 PROVE  new[x] >= pivot
      OBVIOUS
    <3>1. CASE x = q
      BY <1>1, <2>2, <2>4, <3>1
    <3>2. CASE x # q
      <4>1. x \in q + 1 .. right /\ x \in D
        BY <1>1, <3>2
      <4> QED BY <1>1, <2>4, <3>2, <4>1
    <3> QED BY <3>1, <3>2
  <2>7. \A x \in left .. l - 1 : new[x] <= pivot
    <3> SUFFICES ASSUME NEW x \in left .. l - 1
                 PROVE  new[x] <= pivot
      OBVIOUS
    <3>1. x \in D /\ x # q
      BY <1>1, <1>4
    <3> QED BY <1>5, <2>4, <3>1
  <2>8. left <= l /\ l <= q - 1 /\ q - 1 <= right /\ (q - 1) - l <= q - p
    BY <1>1, <1>4, <1>7
  <2>9. q - 1 \in Int
    BY <1>1
  <2>10. Parted(t, l, a, pivot, D, left, right)
    BY <1>4, <2>1, <2>3, <2>4, <2>5, <2>6, <2>7, <2>8, <2>9 DEF Parted
  <2> QED BY <2>5, <2>8, <2>10 DEF t, p, q
<1> QED BY <1>6, <1>7

LEMMA TurnParts ==
    ASSUME NEW D, NEW a, NEW pivot \in Int, NEW left, NEW right, RangeIn(left, right, D),
           NEW s, Parted(s, s.p_low, a, pivot, D, left, right)
    PROVE  LET t == Turned(s, pivot)
           IN  /\ Parted(t, t.p_low, a, pivot, D, left, right)
               /\ t.p_low = t.p_high \/ t.p_high - t.p_low < s.p_high - s.p_low
<1>1. s.p_low \in Int /\ s.p_high \in Int /\ s.p_low <= s.p_high
  BY DEF Parted
<1>2. CASE s.p_low = s.p_high
  BY <1>2 DEF Turned
<1>3. CASE s.p_low < s.p_high
  <2> DEFINE u == FromTop(s, pivot)
             t == FromBottom(u, pivot)
  <2>1. /\ Parted(u, u.p_high, a, pivot, D, left, right)
        /\ u.p_low = u.p_high \/ u.p_high - u.p_low < s.p_high - s.p_low
    BY <1>3, TopParts
  <2> HIDE DEF u
  <2>2. /\ Parted(t, t.p_low, a, pivot, D, left, right)
        /\ t.p_low = t.p_high \/ t.p_high - t.p_low <= u.p_high - u.p_low
    BY <2>1, BottomParts
  <2> HIDE DEF t
  <2>3. /\ t.p_low \in Int /\ t.p_high \in Int /\ t.p_low <= t.p_high
        /\ u.p_low \in Int /\ u.p_high \in Int
    BY <2>1, <2>2 DEF Parted
  <2>4. t.p_low = t.p_high \/ t.p_high - t.p_low < s.p_high - s.p_low
    BY <1>1, <2>1, <2>2, <2>3
  <2>5. Turned(s, pivot) = t
    BY <1>1, <1>3 DEF Turned, t, u
  <2> QED BY <2>2, <2>4, <2>5
<1> QED BY <1>1, <1>2, <1>3

LEMMA PartitionLoopIs ==
    ASSUME NEW D, NEW a \in [D -> Int], NEW left, NEW right, RangeIn(left, right, D), left <= right
    PROVE  LET f == PartitionLoop(a, left, right)
           IN  /\ f[0] = [array |-> a, p_low |-> left, p_high |-> right]
               /\ \A k \in 1 .. right - left : f[k] = Turned(f[k - 1], a[left])
               /\ \A k \in 0 .. right - left :
                     Parted(f[k], f[k].p_low, a, a[left], D, left, right)
<1> DEFINE n == right - left
           pivot == a[left]
           d == [array |-> a, p_low |-> left, p_high |-> right]
           S == {s \in [array : [D -> Int], p_low : Int, p_high : Int] :
                    Parted(s, s.p_low, a, pivot, D, left, right)}
           h == [k \in 1 .. n |-> [s \in S |-> Turned(s, pivot)]]
           Eq(f) == f = [k \in 0 .. n |-> IF k = 0 THEN d ELSE Turned(f[k - 1], pivot)]
<1>1. n \in Nat /\ left \in Int /\ right \in Int /\ left \in D /\ pivot \in Int
  BY DEF RangeIn
<1>2. \A s : s \in S <=> Parted(s, s.p_low, a, pivot, D, left, right)
  BY DEF Parted
<1>3. d \in S
  <2> DEFINE e == [a EXCEPT ![left] = pivot]
  <2>1. e = a
    BY <1>1
  <2> HIDE DEF e
  <2>2. Rearranged(a, e, D, left, right)
    BY <2>1, SameIsRearranged
  <2>3. d.array = a /\ d.p_low = left /\ d.p_high = right
    OBVIOUS
  <2>4. left .. left - 1 = {} /\ right + 1 .. right = {}
    BY <1>1
  <2>5. Parted(d, left, a, pivot, D, left, right)
    BY <1>1, <2>2, <2>3, <2>4 DEF Parted, e
  <2> QED BY <1>2, <2>3, <2>5
<1> HIDE DEF S, d, n, pivot
<1>4. ASSUME NEW s \in S
      PROVE  Turned(s, pivot) \in S
  BY <1>1, <1>2, TurnParts
<1>5. h \in [1 .. n -> [S -> S]]
  BY <1>4
<1>6. CanIterate(n, S, d, h)
  BY <1>1, <1>3, <1>5 DEF CanIterate
<1>7. PICK f : IsIteration(f, n, S, d, h)
  BY <1>6, Recursion
<1>8. f \in [0 .. n -> S] /\ f[0] = d /\ \A k \in 1 .. n : f[k] = h[k][f[k - 1]]
  BY <1>7 DEF IsIteration
<1>9. ASSUME NEW k \in 1 .. n
      PROVE  f[k] = Turned(f[k - 1], pivot)
  <2>1. f[k - 1] \in S
    BY <1>1, <1>8
  <2> QED BY <1>8, <2>1
<1>10. \A k \in 0 .. n : f[k] = IF k = 0 THEN d ELSE Turned(f[k - 1], pivot)
  <2> SUFFICES ASSUME NEW k \in 0 .. n, k # 0
               PROVE  f[k] = Turned(f[k - 1], pivot)
    BY <1>8
  <2>1. k \in 1 .. n
    BY <1>1
  <2> QED BY <1>9, <2>1
<1> HIDE DEF h
<1>11. Eq(f)
  BY <1>8, <1>10
<1> DEFINE g == PartitionLoop(a, left, right)
<1>12. Eq(g)
  BY <1>11 DEF PartitionLoop, d, n, pivot
<1> HIDE DEF g
<1>13. g = [k \in 0 .. n |-> IF k = 0 THEN d ELSE Turned(g[k - 1], pivot)]
  BY <1>12
<1>14. 0 \in 0 .. n /\ \A k \in 1 .. n : k \in 0 .. n /\ k # 0
  BY <1>1
<1>15. g[0] = d
  BY <1>13, <1>14
<1>16. \A k \in 1 .. n : g[k] = Turned(g[k - 1], pivot)
  BY <1>13, <1>14
<1> DEFINE T == {k \in 0 .. n : g[k] \in S}
<1>17. 0 \in T
  BY <1>3, <1>14, <1>15
<1>18. \A k \in 1 .. n : k - 1 \in T => k \in T
  BY <1>4, <1>14, <1>16
<1> HIDE DEF T
<1>19. 0 .. n \subseteq T
  BY <1>1, <1>17, <1>18, BoundedInduction
<1>20. \A k \in 0 .. n : Parted(g[k], g[k].p_low, a, pivot, D, left, right)
  BY <1>2, <1>19 DEF T
<1> QED BY <1>15, <1>16, <1>20 DEF g, n, d, pivot

(* What is below mid is no greater than what is at mid, what is above no   *)
(* less.                                                                   *)
Divided(a, left, mid, right) ==
    /\ \A x \in left .. mid - 1 : a[x] <= a[mid]
    /\ \A x \in mid + 1 .. right : a[mid] <= a[x]

(* The loop ends within the iterations, and the pivot comes to its place.  *)
LEMMA PartitionDivides ==
    ASSUME NEW D, NEW a \in [D -> Int], NEW left, NEW right, RangeIn(left, right, D),
           left <= right,
           NEW last, last = PartitionLoop(a, left, right)[right - left],
           NEW b, b = [last.array EXCEPT ![last.p_low] = a[left]]
    PROVE  /\ last.p_low \in left .. right
           /\ Rearranged(a, b, D, left, right)
           /\ Divided(b, left, last.p_low, right)
<1> DEFINE n == right - left
           f == PartitionLoop(a, left, right)
           T == {k \in 0 .. n : f[k].p_low = f[k].p_high \/ f[k].p_high - f[k].p_low <= n - k}
<1>1. n \in Nat /\ left \in Int /\ right \in Int /\ left \in D /\ a[left] \in Int
  BY DEF RangeIn
<1>2. /\ f[0] = [array |-> a, p_low |-> left, p_high |-> right]
      /\ \A k \in 1 .. n : f[k] = Turned(f[k - 1], a[left])
      /\ \A k \in 0 .. n : Parted(f[k], f[k].p_low, a, a[left], D, left, right)
  BY PartitionLoopIs
<1> HIDE DEF f
<1>3. 0 \in T
  BY <1>1, <1>2
<1>4. ASSUME NEW k \in 1 .. n, k - 1 \in T
      PROVE  k \in T
  <2> DEFINE s == f[k - 1]
             t == f[k]
  <2>1. k - 1 \in 0 .. n /\ k \in 0 .. n /\ k \in Int
    BY <1>1
  <2>2. Parted(s, s.p_low, a, a[left], D, left, right) /\ t = Turned(s, a[left])
        /\ Parted(t, t.p_low, a, a[left], D, left, right)
    BY <1>2, <2>1
  <2>3. s.p_low = s.p_high \/ s.p_high - s.p_low <= n - (k - 1)
    BY <1>4
  <2> HIDE DEF s, t
  <2>4. t.p_low = t.p_high \/ t.p_high - t.p_low < s.p_high - s.p_low
    BY <1>1, <2>2, TurnParts
  <2>5. /\ s.p_low \in Int /\ s.p_high \in Int /\ t.p_low \in Int /\ t.p_high \in Int
        /\ t.p_low <= t.p_high /\ s.p_low <= s.p_high
    BY <2>2 DEF Parted
  <2>6. t.p_low = t.p_high \/ t.p_high - t.p_low <= n - k
    BY <1>1, <2>1, <2>3, <2>4, <2>5
  <2> QED BY <2>1, <2>6 DEF t
<1> HIDE DEF T
<1>5. 0 .. n \subseteq T
  BY <1>1, <1>3, <1>4, BoundedInduction
<1>6. n \in T /\ n \in 0 .. n
  BY <1>1, <1>5
<1>7. last = f[n]
  BY DEF f
<1>8. last.p_low = last.p_high \/ last.p_high - last.p_low <= n - n
  BY <1>6, <1>7 DEF T
<1>9. Parted(last, last.p_low, a, a[left], D, left, right)
  BY <1>2, <1>6, <1>7
<1>10. /\ last.p_low \in Int /\ last.p_high \in Int /\ last.p_low <= last.p_high
       /\ left <= last.p_low /\ last.p_high <= right
       /\ last.array \in [D -> Int]
       /\ \A x \in left .. last.p_low - 1 : last.array[x] <= a[left]
       /\ \A x \in last.p_high + 1 .. right : last.array[x] >= a[left]
       /\ Rearranged(a, b, D, left, right)
  BY <1>9 DEF Parted
<1> DEFINE mid == last.p_low
<1>11. last.p_high = mid
  BY <1>1, <1>8, <1>10
<1>12. mid \in left .. right /\ mid \in D /\ left .. right \subseteq D
  BY <1>1, <1>10 DEF RangeIn
<1>13. b[mid] = a[left] /\ \A x \in D : x # mid => b[x] = last.array[x]
  BY <1>10, <1>12
<1>14. ASSUME NEW x \in left .. mid - 1
       PROVE  b[x] <= b[mid]
  <2>1. x \in D /\ x # mid
    BY <1>1, <1>12
  <2> QED BY <1>10, <1>13, <2>1
<1>15. ASSUME NEW x \in mid + 1 .. right
       PROVE  b[mid] <= b[x]
  <2>1. x \in D /\ x # mid /\ b[x] \in Int
    BY <1>1, <1>10, <1>12
  <2> QED BY <1>1, <1>10, <1>11, <1>13, <2>1
<1> QED BY <1>10, <1>12, <1>14, <1>15 DEF Divided

-----------------------------------------------------------------------------
(* The tree of tasks *)

Names == Seq({1, 2})

(* u is one of the tasks started below t. *)
Below(t, u) == Len(t) < Len(u) /\ \A i \in 1 .. Len(t) : u[i] = t[i]

LEMMA ChildIs ==
    ASSUME NEW t \in Names, NEW k \in {1, 2}
    PROVE  /\ Append(t, k) \in Names /\ Len(Append(t, k)) = Len(t) + 1
           /\ Append(t, k)[Len(t) + 1] = k
           /\ \A i \in 1 .. Len(t) : Append(t, k)[i] = t[i]
           /\ Append(t, k) # t /\ Below(t, Append(t, k))
BY DEF Names, Below

LEMMA SameNames ==
    ASSUME NEW t \in Names, NEW u \in Names, Len(t) = Len(u), \A i \in 1 .. Len(t) : t[i] = u[i]
    PROVE  t = u
BY SeqEqual DEF Names

LEMMA ChildrenDiffer ==
    ASSUME NEW t \in Names, NEW j \in {1, 2}, NEW u \in Names, NEW k \in {1, 2},
           Append(t, j) = Append(u, k)
    PROVE  t = u /\ j = k
<1>1. Len(t) = Len(u) /\ Len(t) \in Nat
  BY ChildIs DEF Names
<1>2. j = k
  BY <1>1, ChildIs
<1>3. \A i \in 1 .. Len(t) : t[i] = u[i]
  BY <1>1, ChildIs
<1> QED BY <1>1, <1>2, <1>3, SameNames

LEMMA PrefixIsAbove ==
    ASSUME NEW t \in Names, NEW u \in Names
    PROVE  IsStrictPrefix(t, u) <=> Below(t, u)
<1>1. Len(t) \in Nat /\ Len(u) \in Nat
  BY DEF Names
<1>2. SubSeq(t, 1, Len(t)) = t
  BY DEF Names
<1>3. ASSUME Len(t) <= Len(u)
      PROVE  /\ SubSeq(u, 1, Len(t)) \in Names /\ Len(SubSeq(u, 1, Len(t))) = Len(t)
             /\ \A i \in 1 .. Len(t) : SubSeq(u, 1, Len(t))[i] = u[i]
  BY <1>1, <1>3 DEF Names
<1>4. ASSUME Below(t, u)
      PROVE  IsStrictPrefix(t, u)
  <2> DEFINE s == SubSeq(u, 1, Len(t))
  <2>1. Len(t) <= Len(u) /\ \A i \in 1 .. Len(t) : u[i] = t[i]
    BY <1>1, <1>4 DEF Below
  <2>2. s \in Names /\ Len(s) = Len(t) /\ \A i \in 1 .. Len(s) : s[i] = t[i]
    BY <1>3, <2>1
  <2> HIDE DEF s
  <2>3. s = t
    BY <2>2, SameNames
  <2> QED BY <1>1, <1>2, <1>4, <2>1, <2>3 DEF Below, IsStrictPrefix, IsPrefix, s
<1>5. ASSUME IsStrictPrefix(t, u)
      PROVE  Below(t, u)
  <2>1. Len(t) <= Len(u) /\ SubSeq(u, 1, Len(t)) = t /\ t # u
    BY <1>2, <1>5 DEF IsStrictPrefix, IsPrefix
  <2>2. \A i \in 1 .. Len(t) : u[i] = t[i]
    BY <1>3, <2>1
  <2>3. Len(t) # Len(u)
    BY <2>1, <2>2, SameNames
  <2> QED BY <1>1, <2>1, <2>2, <2>3 DEF Below
<1> QED BY <1>4, <1>5

(* What is above a child is its parent or above its parent. *)
LEMMA AboveChild ==
    ASSUME NEW t \in Names, NEW k \in {1, 2}, NEW u \in Names
    PROVE  Below(u, Append(t, k)) <=> u = t \/ Below(u, t)
<1>1. Len(t) \in Nat /\ Len(u) \in Nat
  BY DEF Names
<1>2. ASSUME Below(u, Append(t, k)), u # t
      PROVE  Below(u, t)
  <2>1. Len(u) <= Len(t) /\ \A i \in 1 .. Len(u) : t[i] = u[i]
    BY <1>1, <1>2, ChildIs DEF Below
  <2>2. Len(u) # Len(t)
    BY <1>2, <2>1, SameNames
  <2> QED BY <1>1, <2>1, <2>2 DEF Below
<1>3. ASSUME Below(u, t)
      PROVE  Below(u, Append(t, k))
  BY <1>1, <1>3, ChildIs DEF Below
<1> QED BY <1>2, <1>3, ChildIs

(* What is below a task is one of its children or below one. *)
LEMMA ThroughChild ==
    ASSUME NEW t \in Names, NEW u \in Names, Below(t, u)
    PROVE  \E k \in {1, 2} : u = Append(t, k) \/ Below(Append(t, k), u)
<1> DEFINE k == u[Len(t) + 1]
           c == Append(t, k)
<1>1. Len(t) \in Nat /\ Len(u) \in Nat /\ Len(t) < Len(u)
  BY DEF Names, Below
<1>2. k \in {1, 2}
  BY <1>1 DEF Names
<1> HIDE DEF k
<1>3. c \in Names /\ Len(c) = Len(t) + 1 /\ c[Len(t) + 1] = k /\ \A i \in 1 .. Len(t) : c[i] = t[i]
  BY <1>2, ChildIs
<1> HIDE DEF c
<1>4. \A i \in 1 .. Len(c) : u[i] = c[i]
  BY <1>1, <1>3 DEF Below, k
<1>5. CASE Len(c) = Len(u)
  <2>1. c = u
    BY <1>3, <1>4, <1>5, SameNames
  <2> QED BY <1>2, <2>1 DEF c
<1>6. CASE Len(c) < Len(u)
  <2>1. Below(c, u)
    BY <1>4, <1>6 DEF Below
  <2> QED BY <1>2, <2>1 DEF c
<1> QED BY <1>1, <1>3, <1>5, <1>6

LEMMA BelowTwice ==
    ASSUME NEW t \in Names, NEW u \in Names, NEW v \in Names
    PROVE  /\ Below(t, u) /\ Below(u, v) => Below(t, v)
           /\ ~(Below(t, u) /\ Below(u, t)) /\ ~Below(t, t)
           /\ Below(t, v) /\ Below(u, v) => t = u \/ Below(t, u) \/ Below(u, t)
<1>1. Len(t) \in Nat /\ Len(u) \in Nat /\ Len(v) \in Nat
  BY DEF Names
<1>2. Below(t, u) /\ Below(u, v) => Below(t, v)
  BY <1>1 DEF Below
<1>3. ~(Below(t, u) /\ Below(u, t)) /\ ~Below(t, t)
  BY <1>1 DEF Below
<1>4. ASSUME Below(t, v), Below(u, v)
      PROVE  t = u \/ Below(t, u) \/ Below(u, t)
  <2>1. CASE Len(t) < Len(u)
    BY <1>1, <1>4, <2>1 DEF Below
  <2>2. CASE Len(u) < Len(t)
    BY <1>1, <1>4, <2>2 DEF Below
  <2>3. CASE Len(u) = Len(t)
    BY <1>1, <1>4, <2>3, SameNames DEF Below
  <2> QED BY <1>1, <2>1, <2>2, <2>3
<1> QED BY <1>2, <1>3, <1>4

-----------------------------------------------------------------------------
(* The invariant of the tasks *)

Task == [left : Int, right : Int, mid : Int,
         pc : {"start", "fork", "forked", "join", "merge", "done"}]

(* Every task above a task is there. *)
Tree ==
    /\ tasks \in [DOMAIN tasks -> Task]
    /\ DOMAIN tasks \subseteq Names
    /\ \A u \in DOMAIN tasks : \A t \in Names : Below(t, u) => t \in DOMAIN tasks

(* Where the left child of t ends. *)
LeftEnd(t) == IF program = "Quicksort" THEN tasks[t].mid - 1 ELSE tasks[t].mid

RangesFit ==
    \A t \in DOMAIN tasks :
        /\ RangeIn(tasks[t].left, tasks[t].right, DOMAIN input)
        /\ tasks[t].pc \in {"fork", "forked", "join", "merge"} =>
              tasks[t].mid \in tasks[t].left .. tasks[t].right

ChildRanges ==
    \A t \in DOMAIN tasks :
        /\ Append(t, 1) \in DOMAIN tasks =>
              tasks[Append(t, 1)].left = tasks[t].left /\ tasks[Append(t, 1)].right = LeftEnd(t)
        /\ Append(t, 2) \in DOMAIN tasks =>
              tasks[Append(t, 2)].left = tasks[t].mid + 1 /\ tasks[Append(t, 2)].right = tasks[t].right

Inside(u, t) == tasks[t].left <= tasks[u].left /\ tasks[u].right <= tasks[t].right

Apart(t, u) == tasks[t].right < tasks[u].left \/ tasks[u].right < tasks[t].left

Nested == \A t, u \in DOMAIN tasks : Below(t, u) => Inside(u, t)

Separate == \A t, u \in DOMAIN tasks : t # u /\ ~Below(t, u) /\ ~Below(u, t) => Apart(t, u)

Ranges == RangesFit /\ ChildRanges /\ Nested /\ Separate

(* Which tasks there are below a task, by its position. *)
Progress ==
    /\ \A t, u \in DOMAIN tasks : Below(t, u) => tasks[t].pc \notin {"start", "fork"}
    /\ \A t \in DOMAIN tasks : tasks[t].pc = "forked" =>
          Append(t, 1) \in DOMAIN tasks /\ Append(t, 2) \notin DOMAIN tasks
    /\ \A t \in DOMAIN tasks : tasks[t].pc \in {"join", "merge"} =>
          Append(t, 1) \in DOMAIN tasks /\ Append(t, 2) \in DOMAIN tasks
    /\ \A t, u \in DOMAIN tasks : Below(t, u) /\ tasks[t].pc \in {"merge", "done"} =>
          tasks[u].pc = "done"
    /\ \A t \in DOMAIN tasks : tasks[t].pc = "merge" => program # "Quicksort"

(* t goes on to pc, and no task is started. *)
Moved(t, mid, pc) ==
    /\ t \in DOMAIN tasks /\ mid \in Int
    /\ pc \in {"start", "fork", "forked", "join", "merge", "done"}
    /\ program' = program /\ input' = input
    /\ \/ tasks' = [tasks EXCEPT ![t].mid = mid, ![t].pc = pc]
       \/ tasks' = [tasks EXCEPT ![t].pc = pc] /\ mid = tasks[t].mid

(* t goes on to pc, and its child k is started. *)
Started(t, k, pc, left, right) ==
    /\ t \in DOMAIN tasks /\ k \in {1, 2} /\ left \in Int /\ right \in Int
    /\ pc \in {"start", "fork", "forked", "join", "merge", "done"}
    /\ program' = program /\ input' = input
    /\ Append(t, k) \notin DOMAIN tasks
    /\ tasks' = [u \in DOMAIN tasks \cup {Append(t, k)} |->
                    IF u = Append(t, k) THEN NewTask(left, right)
                    ELSE IF u = t THEN [tasks[t] EXCEPT !.pc = pc] ELSE tasks[u]]

LEMMA MovedIs ==
    ASSUME Tree, NEW t, NEW mid, NEW pc, Moved(t, mid, pc)
    PROVE  /\ program' = program /\ input' = input
           /\ tasks' \in [DOMAIN tasks -> Task] /\ DOMAIN tasks' = DOMAIN tasks
           /\ \A u \in DOMAIN tasks : u # t => tasks'[u] = tasks[u]
           /\ t \in DOMAIN tasks /\ tasks'[t].mid = mid /\ tasks'[t].pc = pc
           /\ \A u \in DOMAIN tasks :
                 tasks'[u].left = tasks[u].left /\ tasks'[u].right = tasks[u].right
<1> DEFINE r == tasks[t]
           new == tasks'[t]
<1>1. /\ tasks \in [DOMAIN tasks -> Task] /\ t \in DOMAIN tasks /\ r \in Task /\ mid \in Int
      /\ pc \in {"start", "fork", "forked", "join", "merge", "done"}
  BY DEF Tree, Moved
<1>2. /\ r = [left |-> r.left, right |-> r.right, mid |-> r.mid, pc |-> r.pc]
      /\ r.left \in Int /\ r.right \in Int /\ r.mid \in Int
  BY <1>1 DEF Task
<1>3. /\ new = [left |-> r.left, right |-> r.right, mid |-> mid, pc |-> pc]
      /\ tasks' = [tasks EXCEPT ![t] = new]
  <2>1. CASE tasks' = [tasks EXCEPT ![t].mid = mid, ![t].pc = pc]
    <3> DEFINE s == [r EXCEPT !.mid = mid]
    <3>1. tasks' = [tasks EXCEPT ![t] = [s EXCEPT !.pc = pc]]
      BY <1>1, <2>1
    <3> HIDE DEF r
    <3>2. s = [left |-> r.left, right |-> r.right, mid |-> mid, pc |-> r.pc]
      BY <1>2
    <3> HIDE DEF s
    <3>3. [s EXCEPT !.pc = pc] = [left |-> r.left, right |-> r.right, mid |-> mid, pc |-> pc]
      BY <3>2
    <3> QED BY <1>1, <3>1, <3>3
  <2>2. CASE tasks' = [tasks EXCEPT ![t].pc = pc] /\ mid = tasks[t].mid
    <3>1. tasks' = [tasks EXCEPT ![t] = [r EXCEPT !.pc = pc]] /\ mid = r.mid
      BY <1>1, <2>2
    <3> HIDE DEF r
    <3>2. [r EXCEPT !.pc = pc] = [left |-> r.left, right |-> r.right, mid |-> mid, pc |-> pc]
      BY <1>2, <3>1
    <3> QED BY <1>1, <3>1, <3>2
  <2> QED BY <2>1, <2>2 DEF Moved
<1>5. /\ new \in Task /\ new.left = tasks[t].left /\ new.right = tasks[t].right
      /\ new.mid = mid /\ new.pc = pc
  <2> HIDE DEF r, new
  <2>1. new \in Task /\ new.left = r.left /\ new.right = r.right /\ new.mid = mid /\ new.pc = pc
    BY <1>1, <1>2, <1>3 DEF Task
  <2> QED BY <2>1 DEF r
<1> HIDE DEF new, r
<1>6. tasks' \in [DOMAIN tasks -> Task] /\ DOMAIN tasks' = DOMAIN tasks /\ tasks'[t] = new
      /\ \A u \in DOMAIN tasks : u # t => tasks'[u] = tasks[u]
  BY <1>1, <1>3, <1>5
<1> QED BY <1>1, <1>5, <1>6 DEF Moved

LEMMA StartedIs ==
    ASSUME Tree, NEW t, NEW k, NEW pc, NEW left, NEW right, Started(t, k, pc, left, right)
    PROVE  /\ program' = program /\ input' = input
           /\ DOMAIN tasks' = DOMAIN tasks \cup {Append(t, k)}
           /\ tasks' \in [DOMAIN tasks \cup {Append(t, k)} -> Task]
           /\ \A u \in DOMAIN tasks : u # t => tasks'[u] = tasks[u]
           /\ t \in DOMAIN tasks /\ tasks'[t].pc = pc
           /\ \A u \in DOMAIN tasks :
                 /\ tasks'[u].left = tasks[u].left /\ tasks'[u].right = tasks[u].right
                 /\ tasks'[u].mid = tasks[u].mid
           /\ tasks'[Append(t, k)] = NewTask(left, right)
           /\ t \in Names /\ k \in {1, 2} /\ Append(t, k) \in Names
           /\ Append(t, k) \notin DOMAIN tasks
<1> DEFINE new == [tasks[t] EXCEPT !.pc = pc]
           c == Append(t, k)
<1>1. tasks \in [DOMAIN tasks -> Task] /\ t \in DOMAIN tasks /\ k \in {1, 2} /\ t \in Names
      /\ c \notin DOMAIN tasks
  BY DEF Tree, Started
<1>2. tasks' = [u \in DOMAIN tasks \cup {c} |->
                   IF u = c THEN NewTask(left, right) ELSE IF u = t THEN new ELSE tasks[u]]
  BY DEF Started
<1>3. tasks[t] \in Task /\ pc \in {"start", "fork", "forked", "join", "merge", "done"}
  BY <1>1 DEF Started
<1>4. new \in Task /\ new.left = tasks[t].left /\ new.right = tasks[t].right
      /\ new.mid = tasks[t].mid /\ new.pc = pc
  BY <1>3 DEF Task
<1>5. NewTask(left, right) \in Task
  BY DEF NewTask, Task, Started
<1>6. c \in Names /\ c # t
  BY <1>1, ChildIs
<1> HIDE DEF new, c
<1>7. /\ DOMAIN tasks' = DOMAIN tasks \cup {c} /\ tasks'[t] = new /\ tasks'[c] = NewTask(left, right)
      /\ \A u \in DOMAIN tasks : u # t => tasks'[u] = tasks[u]
  BY <1>1, <1>2, <1>6
<1>8. tasks' \in [DOMAIN tasks \cup {c} -> Task]
  BY <1>1, <1>2, <1>4, <1>5
<1> QED BY <1>1, <1>4, <1>6, <1>7, <1>8 DEF Started, c

LEMMA MovedKeepsRanges ==
    ASSUME Tree, Ranges, NEW t, NEW mid, NEW pc, Moved(t, mid, pc),
           mid = tasks[t].mid \/ \A u \in DOMAIN tasks : ~Below(t, u),
           pc \in {"fork", "forked", "join", "merge"} => mid \in tasks[t].left .. tasks[t].right
    PROVE  Tree' /\ Ranges'
<1>1. /\ program' = program /\ input' = input
      /\ tasks' \in [DOMAIN tasks -> Task] /\ DOMAIN tasks' = DOMAIN tasks
      /\ \A u \in DOMAIN tasks : u # t => tasks'[u] = tasks[u]
      /\ t \in DOMAIN tasks /\ tasks'[t].mid = mid /\ tasks'[t].pc = pc
      /\ \A u \in DOMAIN tasks :
            tasks'[u].left = tasks[u].left /\ tasks'[u].right = tasks[u].right
  BY MovedIs
<1>2. Tree'
  BY <1>1 DEF Tree
<1>3. RangesFit'
  BY <1>1 DEF Ranges, RangesFit
<1>4. ChildRanges'
  <2>1. ASSUME NEW u \in DOMAIN tasks, NEW k \in {1, 2}, Append(u, k) \in DOMAIN tasks
        PROVE  tasks'[u].mid = tasks[u].mid
    <3>1. Below(u, Append(u, k))
      BY ChildIs DEF Tree
    <3> QED BY <1>1, <2>1, <3>1
  <2> QED BY <1>1, <2>1 DEF Ranges, ChildRanges, LeftEnd
<1>5. Nested'
  BY <1>1 DEF Ranges, Nested, Inside
<1>6. Separate'
  BY <1>1 DEF Ranges, Separate, Apart
<1> QED BY <1>2, <1>3, <1>4, <1>5, <1>6 DEF Ranges

LEMMA StartedKeepsRanges ==
    ASSUME Tree, Ranges, NEW t, NEW k, NEW pc, NEW left, NEW right, Started(t, k, pc, left, right),
           tasks[t].mid \in tasks[t].left .. tasks[t].right,
           k = 1 => left = tasks[t].left /\ right = LeftEnd(t) /\ \A u \in DOMAIN tasks : ~Below(t, u),
           k = 2 => left = tasks[t].mid + 1 /\ right = tasks[t].right
    PROVE  Tree' /\ Ranges'
<1> DEFINE c == Append(t, k)
<1>1. /\ program' = program /\ input' = input
      /\ DOMAIN tasks' = DOMAIN tasks \cup {c}
      /\ tasks' \in [DOMAIN tasks \cup {c} -> Task]
      /\ \A u \in DOMAIN tasks : u # t => tasks'[u] = tasks[u]
      /\ t \in DOMAIN tasks /\ tasks'[t].pc = pc
      /\ \A u \in DOMAIN tasks :
            /\ tasks'[u].left = tasks[u].left /\ tasks'[u].right = tasks[u].right
            /\ tasks'[u].mid = tasks[u].mid
      /\ tasks'[c] = NewTask(left, right)
      /\ t \in Names /\ k \in {1, 2} /\ c \in Names /\ c \notin DOMAIN tasks
  BY StartedIs
<1>2. tasks'[c].left = left /\ tasks'[c].right = right /\ tasks'[c].mid = left /\ tasks'[c].pc = "start"
  BY <1>1 DEF NewTask
<1>3. \A u \in DOMAIN tasks : u \in Names /\ tasks[u] \in Task
  BY DEF Tree
<1>4. /\ \A v \in Names : Below(v, c) <=> v = t \/ Below(v, t)
      /\ \A u \in DOMAIN tasks : ~Below(c, u)
  <2>1. \A v \in Names : Below(v, c) <=> v = t \/ Below(v, t)
    BY <1>1, AboveChild
  <2>2. \A u \in DOMAIN tasks : ~Below(c, u)
    BY <1>1 DEF Tree
  <2> QED BY <2>1, <2>2
<1>5. ~Below(c, c) /\ ~Below(c, t) /\ c # t
  BY <1>1, <1>4, BelowTwice
<1>6. Tree'
  <2>1. ASSUME NEW u \in DOMAIN tasks', NEW v \in Names, Below(v, u)
        PROVE  v \in DOMAIN tasks'
    <3>1. CASE u = c
      BY <1>1, <1>4, <2>1, <3>1 DEF Tree
    <3>2. CASE u # c
      BY <1>1, <2>1, <3>2 DEF Tree
    <3> QED BY <3>1, <3>2
  <2>2. DOMAIN tasks' \subseteq Names /\ tasks' \in [DOMAIN tasks' -> Task]
    BY <1>1, <1>3
  <2> QED BY <2>1, <2>2 DEF Tree
<1>7. /\ RangeIn(tasks[t].left, tasks[t].right, DOMAIN input)
      /\ tasks[t].left \in Int /\ tasks[t].right \in Int /\ tasks[t].mid \in Int
  BY <1>1 DEF Ranges, RangesFit, RangeIn
<1>8. /\ left \in Int /\ right \in Int /\ right >= left - 1
      /\ tasks[t].left <= left /\ right <= tasks[t].right
  BY <1>1, <1>7 DEF LeftEnd
<1>9. RangeIn(left, right, DOMAIN input)
  BY <1>7, <1>8 DEF RangeIn
<1>10. RangesFit'
  <2>1. ASSUME NEW u \in DOMAIN tasks
        PROVE  /\ RangeIn(tasks'[u].left, tasks'[u].right, DOMAIN input)
               /\ tasks'[u].pc \in {"fork", "forked", "join", "merge"} =>
                     tasks'[u].mid \in tasks'[u].left .. tasks'[u].right
    BY <1>1 DEF Ranges, RangesFit
  <2> QED BY <1>1, <1>2, <1>9, <2>1 DEF RangesFit
<1> HIDE DEF c
<1>11. ASSUME NEW u \in DOMAIN tasks, NEW j \in {1, 2}
       PROVE  Append(u, j) = c <=> u = t /\ j = k
  BY <1>1, <1>3, ChildrenDiffer DEF c
<1>12. \A j \in {1, 2} : Append(c, j) \notin DOMAIN tasks'
  BY <1>1, <1>4, <1>5, ChildIs
<1>13. ChildRanges'
  <2>1. ASSUME NEW u \in DOMAIN tasks', NEW j \in {1, 2}, Append(u, j) \in DOMAIN tasks',
               Append(u, j) # c
        PROVE  /\ u \in DOMAIN tasks /\ Append(u, j) \in DOMAIN tasks
    BY <1>1, <1>12, <2>1
  <2>2. LeftEnd(t)' = LeftEnd(t) /\ \A u \in DOMAIN tasks : LeftEnd(u)' = LeftEnd(u)
    BY <1>1 DEF LeftEnd
  <2>3. ASSUME NEW u \in DOMAIN tasks', Append(u, 1) \in DOMAIN tasks'
        PROVE  tasks'[Append(u, 1)].left = tasks'[u].left /\ tasks'[Append(u, 1)].right = LeftEnd(u)'
    <3>1. CASE Append(u, 1) = c
      <4>1. u \in DOMAIN tasks
        BY <1>1, <1>12, <2>3
      <4>2. u = t /\ k = 1
        BY <1>11, <3>1, <4>1
      <4> QED BY <1>1, <1>2, <2>2, <3>1, <4>2
    <3>2. CASE Append(u, 1) # c
      <4>1. u \in DOMAIN tasks /\ Append(u, 1) \in DOMAIN tasks
        BY <2>1, <2>3, <3>2
      <4>2. tasks[Append(u, 1)].left = tasks[u].left /\ tasks[Append(u, 1)].right = LeftEnd(u)
        BY <4>1 DEF Ranges, ChildRanges
      <4> QED BY <1>1, <2>2, <4>1, <4>2
    <3> QED BY <3>1, <3>2
  <2>4. ASSUME NEW u \in DOMAIN tasks', Append(u, 2) \in DOMAIN tasks'
        PROVE  tasks'[Append(u, 2)].left = tasks'[u].mid + 1 /\ tasks'[Append(u, 2)].right = tasks'[u].right
    <3>1. CASE Append(u, 2) = c
      <4>1. u \in DOMAIN tasks
        BY <1>1, <1>12, <2>4
      <4>2. u = t /\ k = 2
        BY <1>11, <3>1, <4>1
      <4> QED BY <1>1, <1>2, <3>1, <4>2
    <3>2. CASE Append(u, 2) # c
      <4>1. u \in DOMAIN tasks /\ Append(u, 2) \in DOMAIN tasks
        BY <2>1, <2>4, <3>2
      <4>2. tasks[Append(u, 2)].left = tasks[u].mid + 1 /\ tasks[Append(u, 2)].right = tasks[u].right
        BY <4>1 DEF Ranges, ChildRanges
      <4> QED BY <1>1, <4>1, <4>2
    <3> QED BY <3>1, <3>2
  <2> QED BY <2>3, <2>4 DEF ChildRanges
<1>14. Nested'
  <2> SUFFICES ASSUME NEW v \in DOMAIN tasks', NEW u \in DOMAIN tasks', Below(v, u)
               PROVE  Inside(u, v)'
    BY DEF Nested
  <2>1. CASE u = c
    <3>1. v \in DOMAIN tasks
      BY <1>1, <1>5, <2>1
    <3>2. v = t \/ Below(v, t)
      BY <1>3, <1>4, <2>1, <3>1
    <3>3. tasks[v].left <= tasks[t].left /\ tasks[t].right <= tasks[v].right
      BY <1>1, <1>7, <3>1, <3>2 DEF Ranges, Nested, Inside
    <3>4. tasks[v].left \in Int /\ tasks[v].right \in Int
      BY <1>3, <3>1 DEF Task
    <3>5. tasks[v].left <= left /\ right <= tasks[v].right
      BY <1>7, <1>8, <3>3, <3>4
    <3> QED BY <1>1, <1>2, <2>1, <3>1, <3>5 DEF Inside
  <2>2. CASE u # c
    <3>1. u \in DOMAIN tasks /\ v \in DOMAIN tasks
      BY <1>1, <1>4, <2>2
    <3>2. Inside(u, v)
      BY <3>1 DEF Ranges, Nested
    <3> QED BY <1>1, <3>1, <3>2 DEF Inside
  <2> QED BY <2>1, <2>2
<1>15. ASSUME NEW u \in DOMAIN tasks, ~Below(u, c)
       PROVE  tasks[u].right < left \/ right < tasks[u].left
  <2>1. u \in Names /\ u # t /\ ~Below(u, t) /\ tasks[u].left \in Int /\ tasks[u].right \in Int
    BY <1>3, <1>4, <1>15 DEF Task
  <2>2. CASE ~Below(t, u)
    <3>1. Apart(t, u)
      BY <1>1, <2>1, <2>2 DEF Ranges, Separate
    <3> QED BY <1>7, <1>8, <2>1, <3>1 DEF Apart
  <2>3. CASE Below(t, u)
    <3>1. k = 2 /\ left = tasks[t].mid + 1
      BY <1>1, <2>3
    <3>2. PICK j \in {1, 2} : u = Append(t, j) \/ Below(Append(t, j), u)
      BY <1>1, <2>1, <2>3, ThroughChild
    <3> DEFINE d == Append(t, j)
    <3>3. d \in Names
      BY <1>1, ChildIs
    <3>4. d \in DOMAIN tasks
      BY <3>2, <3>3 DEF Tree
    <3>5. j = 1
      BY <1>1, <3>1, <3>4 DEF c
    <3>6. tasks[d].right = LeftEnd(t)
      BY <1>1, <3>4, <3>5 DEF Ranges, ChildRanges
    <3>7. tasks[d].right \in Int /\ tasks[u].right <= tasks[d].right
      <4>1. tasks[d].right \in Int
        BY <1>3, <3>4 DEF Task
      <4>2. CASE u = d
        BY <2>1, <4>2
      <4>3. CASE Below(d, u)
        BY <3>4, <4>1, <4>3 DEF Ranges, Nested, Inside
      <4> QED BY <3>2, <4>1, <4>2, <4>3
    <3>8. LeftEnd(t) <= tasks[t].mid
      BY <1>7 DEF LeftEnd
    <3> HIDE DEF d
    <3>9. LeftEnd(t) \in Int
      BY <3>6, <3>7
    <3> QED BY <1>7, <1>8, <2>1, <3>1, <3>6, <3>7, <3>8, <3>9
  <2> QED BY <2>2, <2>3
<1>16. Separate'
  <2> SUFFICES ASSUME NEW v \in DOMAIN tasks', NEW u \in DOMAIN tasks',
                      v # u, ~Below(v, u), ~Below(u, v)
               PROVE  Apart(v, u)'
    BY DEF Separate
  <2>1. CASE u = c
    <3>1. v \in DOMAIN tasks
      BY <1>1, <2>1
    <3>2. tasks[v].right < left \/ right < tasks[v].left
      BY <1>15, <2>1, <3>1
    <3> QED BY <1>1, <1>2, <2>1, <3>1, <3>2 DEF Apart
  <2>2. CASE v = c
    <3>1. u \in DOMAIN tasks
      BY <1>1, <2>2
    <3>2. tasks[u].right < left \/ right < tasks[u].left
      BY <1>15, <2>2, <3>1
    <3> QED BY <1>1, <1>2, <2>2, <3>1, <3>2 DEF Apart
  <2>3. CASE u # c /\ v # c
    <3>1. u \in DOMAIN tasks /\ v \in DOMAIN tasks
      BY <1>1, <2>3
    <3>2. Apart(v, u)
      BY <3>1 DEF Ranges, Separate
    <3> QED BY <1>1, <3>1, <3>2 DEF Apart
  <2> QED BY <2>1, <2>2, <2>3
<1> QED BY <1>6, <1>10, <1>13, <1>14, <1>16 DEF Ranges

LEMMA MovedKeepsProgress ==
    ASSUME Tree, Progress, NEW t, NEW mid, NEW pc, Moved(t, mid, pc),
           tasks[t].pc # "done", pc \in {"fork", "merge", "done"},
           pc = "fork" => tasks[t].pc = "start",
           pc = "merge" => tasks[t].pc = "join" /\ program # "Quicksort",
           pc # "fork" => \A u \in DOMAIN tasks : Below(t, u) => tasks[u].pc = "done"
    PROVE  Progress'
<1>1. /\ program' = program /\ DOMAIN tasks' = DOMAIN tasks
      /\ \A u \in DOMAIN tasks : u # t => tasks'[u] = tasks[u]
      /\ t \in DOMAIN tasks /\ tasks'[t].pc = pc
  BY MovedIs
<1>2. \A u \in DOMAIN tasks : u \in Names
  BY DEF Tree
<1>3. ASSUME NEW v \in DOMAIN tasks, NEW u \in DOMAIN tasks, Below(v, u)
      PROVE  /\ tasks'[v].pc \notin {"start", "fork"}
             /\ tasks'[v].pc \in {"merge", "done"} => tasks'[u].pc = "done"
  <2>1. v # u
    BY <1>2, <1>3, BelowTwice
  <2>2. tasks[v].pc \notin {"start", "fork"} /\ (tasks[v].pc \in {"merge", "done"} => tasks[u].pc = "done")
    BY <1>3 DEF Progress
  <2>3. CASE v = t
    BY <1>1, <1>3, <2>1, <2>2, <2>3
  <2>4. CASE v # t
    BY <1>1, <2>2, <2>4
  <2> QED BY <2>3, <2>4
<1>4. ASSUME NEW u \in DOMAIN tasks
      PROVE  /\ tasks'[u].pc = "forked" =>
                   Append(u, 1) \in DOMAIN tasks' /\ Append(u, 2) \notin DOMAIN tasks'
             /\ tasks'[u].pc \in {"join", "merge"} =>
                   Append(u, 1) \in DOMAIN tasks' /\ Append(u, 2) \in DOMAIN tasks'
             /\ tasks'[u].pc = "merge" => program' # "Quicksort"
  <2>1. CASE u = t
    BY <1>1, <2>1 DEF Progress
  <2>2. CASE u # t
    BY <1>1, <2>2 DEF Progress
  <2> QED BY <2>1, <2>2
<1> QED BY <1>1, <1>3, <1>4 DEF Progress

LEMMA StartedKeepsProgress ==
    ASSUME Tree, Progress, NEW t, NEW k, NEW pc, NEW left, NEW right, Started(t, k, pc, left, right),
           \/ k = 1 /\ tasks[t].pc = "fork" /\ pc = "forked"
           \/ k = 2 /\ tasks[t].pc = "forked" /\ pc = "join"
    PROVE  Progress'
<1> DEFINE c == Append(t, k)
<1>1. /\ program' = program /\ input' = input
      /\ DOMAIN tasks' = DOMAIN tasks \cup {c}
      /\ tasks' \in [DOMAIN tasks \cup {c} -> Task]
      /\ \A u \in DOMAIN tasks : u # t => tasks'[u] = tasks[u]
      /\ t \in DOMAIN tasks /\ tasks'[t].pc = pc
      /\ \A u \in DOMAIN tasks :
            /\ tasks'[u].left = tasks[u].left /\ tasks'[u].right = tasks[u].right
            /\ tasks'[u].mid = tasks[u].mid
      /\ tasks'[c] = NewTask(left, right)
      /\ t \in Names /\ k \in {1, 2} /\ c \in Names /\ c \notin DOMAIN tasks
  BY StartedIs
<1>2. \A u \in DOMAIN tasks : u \in Names
  BY DEF Tree
<1>3. tasks'[c].pc = "start" /\ c # t
  BY <1>1 DEF NewTask
<1>4. /\ \A v \in Names : Below(v, c) <=> v = t \/ Below(v, t)
      /\ \A u \in DOMAIN tasks : ~Below(c, u)
      /\ ~Below(c, c)
  <2>1. \A v \in Names : Below(v, c) <=> v = t \/ Below(v, t)
    BY <1>1, AboveChild
  <2>2. \A u \in DOMAIN tasks : ~Below(c, u)
    BY <1>1 DEF Tree
  <2>3. ~Below(c, c)
    BY <1>1, BelowTwice
  <2> QED BY <2>1, <2>2, <2>3
<1> HIDE DEF c
<1>5. ASSUME NEW v \in DOMAIN tasks', NEW u \in DOMAIN tasks', Below(v, u)
      PROVE  /\ tasks'[v].pc \notin {"start", "fork"}
             /\ tasks'[v].pc \in {"merge", "done"} => tasks'[u].pc = "done"
  <2>1. v \in DOMAIN tasks
    BY <1>1, <1>4, <1>5
  <2>2. CASE u = c
    <3>1. v = t \/ Below(v, t)
      BY <1>2, <1>4, <1>5, <2>1, <2>2
    <3>2. CASE v = t
      BY <1>1, <3>2
    <3>3. CASE v # t
      <4>1. tasks[v].pc \notin {"start", "fork", "merge", "done"}
        BY <1>1, <2>1, <3>1, <3>3 DEF Progress
      <4> QED BY <1>1, <2>1, <3>3, <4>1
    <3> QED BY <3>2, <3>3
  <2>3. CASE u # c
    <3>1. u \in DOMAIN tasks /\ v # u
      BY <1>1, <1>2, <1>5, <2>1, <2>3, BelowTwice
    <3>2. tasks[v].pc \notin {"start", "fork"} /\ (tasks[v].pc \in {"merge", "done"} => tasks[u].pc = "done")
      BY <1>5, <2>1, <3>1 DEF Progress
    <3>3. CASE v = t
      BY <1>1, <3>3
    <3>4. CASE v # t
      <4>1. tasks'[v] = tasks[v]
        BY <1>1, <2>1, <3>4
      <4>2. u = t => tasks[t].pc # "done"
        OBVIOUS
      <4> QED BY <1>1, <3>1, <3>2, <4>1, <4>2
    <3> QED BY <3>3, <3>4
  <2> QED BY <2>2, <2>3
<1>6. Append(t, 1) # Append(t, 2)
  BY <1>1, ChildrenDiffer
<1>7. ASSUME NEW u \in DOMAIN tasks, u # t
      PROVE  Append(u, 1) # c /\ Append(u, 2) # c
  BY <1>1, <1>2, <1>7, ChildrenDiffer DEF c
<1>8. ASSUME NEW u \in DOMAIN tasks'
      PROVE  /\ tasks'[u].pc = "forked" =>
                   Append(u, 1) \in DOMAIN tasks' /\ Append(u, 2) \notin DOMAIN tasks'
             /\ tasks'[u].pc \in {"join", "merge"} =>
                   Append(u, 1) \in DOMAIN tasks' /\ Append(u, 2) \in DOMAIN tasks'
             /\ tasks'[u].pc = "merge" => program' # "Quicksort"
  <2>1. CASE u = c
    BY <1>3, <2>1
  <2>2. CASE u = t
    <3>1. CASE k = 1
      <4>1. pc = "forked" /\ tasks[t].pc = "fork"
        BY <3>1
      <4>2. Append(t, 2) \notin DOMAIN tasks
        <5>1. Below(t, Append(t, 2))
          BY <1>1, ChildIs
        <5> QED BY <1>1, <4>1, <5>1 DEF Progress
      <4> QED BY <1>1, <1>6, <2>2, <3>1, <4>1, <4>2 DEF c
    <3>2. CASE k = 2
      BY <1>1, <2>2, <3>2 DEF Progress, c
    <3> QED BY <1>1, <3>1, <3>2
  <2>3. CASE u # c /\ u # t
    <3>1. u \in DOMAIN tasks /\ tasks'[u] = tasks[u]
      BY <1>1, <2>3
    <3> QED BY <1>1, <1>7, <2>3, <3>1 DEF Progress
  <2> QED BY <2>1, <2>2, <2>3
<1> QED BY <1>1, <1>5, <1>8 DEF Progress

-----------------------------------------------------------------------------
(* What the tasks do to the list *)

Lists ==
    /\ program \in Programs
    /\ \E n \in Nat : DOMAIN input = 0 .. n - 1
    /\ input \in [DOMAIN input -> Values]
    /\ list \in [DOMAIN input -> Values]
    /\ \A v \in Values : HowMany(list, v) = HowMany(input, v)

(* What a task has done of its range. *)
Order ==
    /\ \A t \in DOMAIN tasks : tasks[t].pc = "done" =>
          SortedRange(list, tasks[t].left, tasks[t].right)
    /\ \A t \in DOMAIN tasks :
          program = "Quicksort" /\ tasks[t].pc \in {"fork", "forked", "join"} =>
              Divided(list, tasks[t].left, tasks[t].mid, tasks[t].right)

TasksInv == Lists /\ Tree /\ Ranges /\ Progress /\ Order

(* t rearranges its range. *)
Works(t) == Rearranged(list, list', DOMAIN input, tasks[t].left, tasks[t].right)

LEMMA ListIsInt ==
    ASSUME Lists
    PROVE  /\ list \in [DOMAIN input -> Int]
           /\ IsFiniteSet(DOMAIN input)
<1>1. Values \subseteq Int
  BY ConstantsAssumption
<1>2. list \in [DOMAIN input -> Int]
  BY <1>1 DEF Lists
<1>3. PICK n \in Nat : DOMAIN input = 0 .. n - 1
  BY DEF Lists
<1>4. IsFiniteSet(0 .. n - 1)
  BY <1>3, FS_Interval
<1> QED BY <1>2, <1>3, <1>4

LEMMA WorksKeepsLists ==
    ASSUME Lists, NEW t, Works(t), program' = program, input' = input
    PROVE  Lists'
<1> DEFINE D == DOMAIN input
<1>1. /\ list \in [D -> Int] /\ IsFiniteSet(D) /\ list \in [D -> Values]
      /\ Rearranged(list, list', D, tasks[t].left, tasks[t].right)
  BY ListIsInt DEF Lists, Works
<1>2. /\ list' \in [D -> Int]
      /\ \A x \in D : x \notin tasks[t].left .. tasks[t].right => list'[x] = list[x]
      /\ \A x \in D : x \in tasks[t].left .. tasks[t].right =>
            \E y \in D : y \in tasks[t].left .. tasks[t].right /\ list'[x] = list[y]
  BY <1>1, RearrangedKeeps
<1>3. list' \in [D -> Values]
  BY <1>1, <1>2
<1>4. \A v : HowMany(list', v) = HowMany(list, v)
  BY <1>1, RearrangedCounts
<1>5. \A v : HowMany(list, v)' = HowMany(list', v) /\ HowMany(input, v)' = HowMany(input, v)
  BY DEF HowMany
<1> QED BY <1>3, <1>4, <1>5 DEF Lists

(* A rearrangement below or above the pivot leaves the range divided. *)
LEMMA DividedKept ==
    ASSUME NEW D, NEW a, NEW b, NEW left, NEW right, NEW mid \in left .. right,
           RangeIn(left, right, D), Divided(a, left, mid, right),
           NEW l, NEW r, l .. r \subseteq left .. mid - 1 \/ l .. r \subseteq mid + 1 .. right,
           Rearranged(a, b, D, l, r)
    PROVE  Divided(b, left, mid, right)
<1>1. left \in Int /\ right \in Int /\ left .. right \subseteq D /\ mid \in Int /\ mid \in D
  BY DEF RangeIn
<1>2. /\ \A x \in D : x \notin l .. r => b[x] = a[x]
      /\ \A x \in D : x \in l .. r => \E y \in D : y \in l .. r /\ b[x] = a[y]
  BY RearrangedKeeps
<1>3. mid \notin l .. r
  BY <1>1
<1>4. b[mid] = a[mid]
  BY <1>1, <1>2, <1>3
<1>5. ASSUME NEW x \in left .. mid - 1
      PROVE  b[x] <= b[mid]
  <2>1. x \in D
    BY <1>1
  <2>2. CASE x \notin l .. r
    BY <1>2, <1>4, <2>1, <2>2 DEF Divided
  <2>3. CASE x \in l .. r
    <3>1. PICK y \in D : y \in l .. r /\ b[x] = a[y]
      BY <1>2, <2>1, <2>3
    <3>2. y \in left .. mid - 1
      BY <1>1, <2>3, <3>1
    <3> QED BY <1>4, <3>1, <3>2 DEF Divided
  <2> QED BY <2>2, <2>3
<1>6. ASSUME NEW x \in mid + 1 .. right
      PROVE  b[mid] <= b[x]
  <2>1. x \in D
    BY <1>1
  <2>2. CASE x \notin l .. r
    BY <1>2, <1>4, <2>1, <2>2 DEF Divided
  <2>3. CASE x \in l .. r
    <3>1. PICK y \in D : y \in l .. r /\ b[x] = a[y]
      BY <1>2, <2>1, <2>3
    <3>2. y \in mid + 1 .. right
      BY <1>1, <2>3, <3>1
    <3> QED BY <1>4, <3>1, <3>2 DEF Divided
  <2> QED BY <2>2, <2>3
<1> QED BY <1>5, <1>6 DEF Divided

(* A task that rearranges its range leaves what the others have done. *)
LEMMA WorksKeepsOrder ==
    ASSUME TasksInv, NEW t, NEW mid, NEW pc, Moved(t, mid, pc), Works(t),
           \/ tasks[t].pc = "start" /\ pc \in {"fork", "done"}
           \/ tasks[t].pc = "merge" /\ pc = "done",
           pc = "done" => SortedRange(list', tasks[t].left, tasks[t].right),
           pc = "fork" /\ program = "Quicksort" =>
               Divided(list', tasks[t].left, mid, tasks[t].right)
    PROVE  Order'
<1> DEFINE D == DOMAIN input
<1>1. Lists /\ Tree /\ Ranges /\ Progress /\ Order
  BY DEF TasksInv
<1>2. /\ program' = program /\ input' = input /\ DOMAIN tasks' = DOMAIN tasks
      /\ \A u \in DOMAIN tasks : u # t => tasks'[u] = tasks[u]
      /\ t \in DOMAIN tasks /\ tasks'[t].mid = mid /\ tasks'[t].pc = pc
      /\ \A u \in DOMAIN tasks :
            tasks'[u].left = tasks[u].left /\ tasks'[u].right = tasks[u].right
  BY <1>1, MovedIs
<1>3. \A u \in DOMAIN tasks :
         /\ u \in Names /\ tasks[u].left \in Int /\ tasks[u].right \in Int /\ tasks[u].mid \in Int
         /\ RangeIn(tasks[u].left, tasks[u].right, D)
         /\ \A x \in tasks[u].left .. tasks[u].right : x \in D
  BY <1>1 DEF Tree, Task, Ranges, RangesFit, RangeIn
<1>4. \A x \in D : x \notin tasks[t].left .. tasks[t].right => list'[x] = list[x]
  BY RearrangedKeeps DEF Works
<1>5. ASSUME NEW u \in DOMAIN tasks, u # t, Apart(u, t) \/ Apart(t, u)
      PROVE  \A x \in tasks[u].left .. tasks[u].right : list'[x] = list[x]
  <2> SUFFICES ASSUME NEW x \in tasks[u].left .. tasks[u].right
               PROVE  list'[x] = list[x]
    OBVIOUS
  <2>1. x \notin tasks[t].left .. tasks[t].right /\ x \in D
    BY <1>2, <1>3, <1>5 DEF Apart
  <2> QED BY <1>4, <2>1
<1>6. ASSUME NEW u \in DOMAIN tasks, u # t, tasks[u].pc = "done"
      PROVE  SortedRange(list', tasks[u].left, tasks[u].right)
  <2>1. ~Below(u, t)
    BY <1>1, <1>2, <1>6 DEF Progress
  <2>2. SortedRange(list, tasks[u].left, tasks[u].right)
    BY <1>1, <1>6 DEF Order
  <2>3. CASE Below(t, u)
    <3>1. pc = "done"
      BY <1>1, <1>2, <2>3 DEF Progress
    <3>2. tasks[t].left <= tasks[u].left /\ tasks[u].right <= tasks[t].right
      BY <1>1, <1>2, <2>3 DEF Ranges, Nested, Inside
    <3>3. \A x \in tasks[u].left .. tasks[u].right : x \in tasks[t].left .. tasks[t].right
      BY <1>2, <1>3, <3>2
    <3>4. SortedRange(list', tasks[t].left, tasks[t].right)
      BY <3>1
    <3> QED BY <3>3, <3>4 DEF SortedRange
  <2>4. CASE ~Below(t, u)
    <3>1. Apart(u, t)
      BY <1>1, <1>2, <1>6, <2>1, <2>4 DEF Ranges, Separate
    <3>2. \A x \in tasks[u].left .. tasks[u].right : list'[x] = list[x]
      BY <1>5, <1>6, <3>1
    <3> QED BY <2>2, <3>2 DEF SortedRange
  <2> QED BY <2>3, <2>4
<1>7. ASSUME NEW u \in DOMAIN tasks, u # t, program = "Quicksort",
             tasks[u].pc \in {"fork", "forked", "join"}
      PROVE  Divided(list', tasks[u].left, tasks[u].mid, tasks[u].right)
  <2>1. ~Below(t, u)
    BY <1>1, <1>2, <1>7 DEF Progress
  <2>2. Divided(list, tasks[u].left, tasks[u].mid, tasks[u].right)
    BY <1>1, <1>7 DEF Order
  <2>3. tasks[u].mid \in tasks[u].left .. tasks[u].right
    BY <1>1, <1>7 DEF Ranges, RangesFit
  <2>4. CASE Below(u, t)
    <3>1. PICK k \in {1, 2} : t = Append(u, k) \/ Below(Append(u, k), t)
      BY <1>2, <1>3, <2>4, ThroughChild
    <3> DEFINE c == Append(u, k)
    <3>2. c \in Names
      BY <1>3, ChildIs
    <3>3. c \in DOMAIN tasks
      BY <1>1, <1>2, <3>1, <3>2 DEF Tree
    <3>4. tasks[c].left <= tasks[t].left /\ tasks[t].right <= tasks[c].right
      <4>1. CASE t = c
        BY <1>3, <3>3, <4>1
      <4>2. CASE Below(c, t)
        BY <1>1, <1>2, <3>3, <4>2 DEF Ranges, Nested, Inside
      <4> QED BY <3>1, <4>1, <4>2
    <3>5. \/ tasks[c].left = tasks[u].left /\ tasks[c].right = tasks[u].mid - 1
          \/ tasks[c].left = tasks[u].mid + 1 /\ tasks[c].right = tasks[u].right
      BY <1>1, <1>7, <3>3 DEF Ranges, ChildRanges, LeftEnd
    <3> HIDE DEF c
    <3>6. \/ tasks[t].left .. tasks[t].right \subseteq tasks[u].left .. tasks[u].mid - 1
          \/ tasks[t].left .. tasks[t].right \subseteq tasks[u].mid + 1 .. tasks[u].right
      BY <1>2, <1>3, <3>3, <3>4, <3>5
    <3> QED BY <1>3, <2>2, <2>3, <3>6, DividedKept DEF Works
  <2>5. CASE ~Below(u, t)
    <3>1. Apart(u, t)
      BY <1>1, <1>2, <1>7, <2>1, <2>5 DEF Ranges, Separate
    <3>2. \A x \in tasks[u].left .. tasks[u].right : list'[x] = list[x]
      BY <1>5, <1>7, <3>1
    <3>3. /\ \A x \in tasks[u].left .. tasks[u].mid - 1 : x \in tasks[u].left .. tasks[u].right
          /\ \A x \in tasks[u].mid + 1 .. tasks[u].right : x \in tasks[u].left .. tasks[u].right
      BY <1>3, <2>3
    <3> QED BY <2>2, <2>3, <3>2, <3>3 DEF Divided
  <2> QED BY <2>4, <2>5
<1>8. ASSUME NEW u \in DOMAIN tasks', tasks'[u].pc = "done"
      PROVE  SortedRange(list', tasks'[u].left, tasks'[u].right)
  BY <1>2, <1>6, <1>8
<1>9. ASSUME NEW u \in DOMAIN tasks', program' = "Quicksort",
             tasks'[u].pc \in {"fork", "forked", "join"}
      PROVE  Divided(list', tasks'[u].left, tasks'[u].mid, tasks'[u].right)
  BY <1>2, <1>7, <1>9
<1> QED BY <1>8, <1>9 DEF Order

-----------------------------------------------------------------------------
(* Every step keeps the invariant *)

(* t rearranges its range and splits or finishes it. *)
MovesWithWork(t, mid, pc) ==
    /\ Moved(t, mid, pc) /\ Works(t)
    /\ \/ /\ pc = "done" /\ SortedRange(list', tasks[t].left, tasks[t].right)
          /\ tasks[t].pc = "start" \/ (tasks[t].pc = "merge" /\ mid = tasks[t].mid)
       \/ /\ pc = "fork" /\ tasks[t].pc = "start"
          /\ mid \in tasks[t].left .. tasks[t].right
          /\ program = "Quicksort" => Divided(list', tasks[t].left, mid, tasks[t].right)

LEMMA MovedWithWork ==
    ASSUME TasksInv, NEW t, NEW mid, NEW pc, MovesWithWork(t, mid, pc)
    PROVE  TasksInv'
<1>0. /\ Moved(t, mid, pc) /\ Works(t)
      /\ \/ tasks[t].pc = "start" /\ pc \in {"fork", "done"}
         \/ tasks[t].pc = "merge" /\ pc = "done" /\ mid = tasks[t].mid
      /\ pc = "fork" => mid \in tasks[t].left .. tasks[t].right
      /\ pc = "done" => SortedRange(list', tasks[t].left, tasks[t].right)
      /\ pc = "fork" /\ program = "Quicksort" =>
            Divided(list', tasks[t].left, mid, tasks[t].right)
  BY DEF MovesWithWork
<1>1. Lists /\ Tree /\ Ranges /\ Progress /\ Order
  BY DEF TasksInv
<1>2. t \in DOMAIN tasks /\ program' = program /\ input' = input
  BY <1>0 DEF Moved
<1>3. tasks[t].pc = "start" => \A u \in DOMAIN tasks : ~Below(t, u)
  BY <1>1, <1>2 DEF Progress
<1>4. tasks[t].pc = "merge" => \A u \in DOMAIN tasks : Below(t, u) => tasks[u].pc = "done"
  BY <1>1, <1>2 DEF Progress
<1>5. Lists'
  BY <1>0, <1>1, <1>2, WorksKeepsLists
<1>6. Tree' /\ Ranges'
  BY <1>0, <1>1, <1>3, MovedKeepsRanges
<1>7. Progress'
  BY <1>0, <1>1, <1>3, <1>4, MovedKeepsProgress
<1>8. Order'
  BY <1>0, WorksKeepsOrder
<1> QED BY <1>5, <1>6, <1>7, <1>8 DEF TasksInv

LEMMA SortShortKeeps ==
    ASSUME TasksInv, NEW t \in DOMAIN tasks, SortShort(t)
    PROVE  TasksInv'
<1> DEFINE D == DOMAIN input
           left == tasks[t].left
           right == tasks[t].right
<1>1. Lists /\ Tree /\ Ranges /\ Progress
  BY DEF TasksInv
<1>2. tasks[t] \in Task /\ RangeIn(left, right, D) /\ list \in [D -> Int]
  BY <1>1, ListIsInt DEF Tree, Ranges, RangesFit
<1>3. /\ tasks[t].pc = "start" /\ tasks' = [tasks EXCEPT ![t].pc = "done"]
      /\ program' = program /\ input' = input
  BY DEF SortShort, Goto
<1>4. Moved(t, tasks[t].mid, "done")
  <2>1. tasks[t].mid \in Int
    BY <1>2 DEF Task
  <2> QED BY <1>3, <2>1 DEF Moved
<1>5. Works(t) /\ SortedRange(list', left, right)
  <2>1. CASE program = "mergesort"
    <3>1. list' = list /\ left >= right
      BY <2>1 DEF SortShort, IsShort
    <3>2. Rearranged(list, list', D, left, right)
      BY <1>2, <3>1, SameIsRearranged
    <3>3. SortedRange(list', left, right)
      BY <1>2, <3>1 DEF SortedRange, RangeIn
    <3> QED BY <3>2, <3>3 DEF Works
  <2>2. CASE program # "mergesort"
    <3>1. list' = ExchangeLoop(list, left, right)[(right - left + 1) * (right - left + 1)]
      BY <2>2, ExchangedIsLast DEF SortShort
    <3>2. Rearranged(list, list', D, left, right) /\ SortedRange(list', left, right)
      BY <1>2, <3>1, ExchangeSorts
    <3> QED BY <3>2 DEF Works
  <2> QED BY <2>1, <2>2
<1>6. MovesWithWork(t, tasks[t].mid, "done")
  BY <1>3, <1>4, <1>5 DEF MovesWithWork
<1> QED BY <1>6, MovedWithWork

LEMMA SplitKeeps ==
    ASSUME TasksInv, NEW t \in DOMAIN tasks, Split(t)
    PROVE  TasksInv'
<1> DEFINE D == DOMAIN input
           left == tasks[t].left
           right == tasks[t].right
<1>1. Lists /\ Tree /\ Ranges /\ Progress
  BY DEF TasksInv
<1>2. tasks[t] \in Task /\ RangeIn(left, right, D) /\ list \in [D -> Int] /\ program \in Programs
  BY <1>1, ListIsInt DEF Tree, Ranges, RangesFit, Lists
<1>3. left \in Int /\ right \in Int /\ left < right
  BY <1>2, ConstantsAssumption DEF Split, IsShort, RangeIn
<1>4. tasks[t].pc = "start" /\ program' = program /\ input' = input
  BY DEF Split
<1>5. ASSUME program # "Quicksort"
      PROVE  TasksInv'
  <2> DEFINE mid == (left + right) \div 2
  <2>1. list' = list /\ tasks' = [tasks EXCEPT ![t].mid = mid, ![t].pc = "fork"]
    BY <1>5 DEF Split
  <2>2. mid \in left .. right
    BY <1>3
  <2> HIDE DEF mid
  <2>3. Moved(t, mid, "fork")
    <3>1. mid \in Int
      BY <1>3, <2>2
    <3> QED BY <1>4, <2>1, <3>1 DEF Moved
  <2>4. Works(t)
    BY <1>2, <2>1, SameIsRearranged DEF Works
  <2>5. MovesWithWork(t, mid, "fork")
    BY <1>4, <1>5, <2>2, <2>3, <2>4 DEF MovesWithWork
  <2> QED BY <2>5, MovedWithWork
<1>6. ASSUME program = "Quicksort"
      PROVE  TasksInv'
  <2> DEFINE last == PartitionLoop(list, left, right)[right - left]
             mid == last.p_low
             new == [last.array EXCEPT ![mid] = list[left]]
  <2>1. Partitioned(left, right) = [array |-> new, mid |-> mid]
    BY PartitionedIsLast
  <2>2. mid \in left .. right /\ Rearranged(list, new, D, left, right) /\ Divided(new, left, mid, right)
    <3> HIDE DEF last
    <3> QED BY <1>2, <1>3, PartitionDivides DEF last
  <2> HIDE DEF last, mid, new
  <2>3. list' = new /\ tasks' = [tasks EXCEPT ![t].mid = mid, ![t].pc = "fork"]
    BY <1>6, <2>1 DEF Split
  <2>4. Moved(t, mid, "fork")
    <3>1. mid \in Int
      BY <1>3, <2>2
    <3> QED BY <1>4, <2>3, <3>1 DEF Moved
  <2>5. Works(t)
    BY <2>2, <2>3 DEF Works
  <2>6. Divided(list', left, mid, right)
    BY <2>2, <2>3
  <2>7. MovesWithWork(t, mid, "fork")
    BY <1>4, <2>2, <2>4, <2>5, <2>6 DEF MovesWithWork
  <2> QED BY <2>7, MovedWithWork
<1> QED BY <1>5, <1>6

(* A step that leaves the list alone leaves what it holds. *)
LEMMA ListKept ==
    ASSUME Lists, program' = program, input' = input, list' = list
    PROVE  Lists'
<1>1. \A v : HowMany(list, v)' = HowMany(list, v) /\ HowMany(input, v)' = HowMany(input, v)
  BY DEF HowMany
<1> QED BY <1>1 DEF Lists

LEMMA StartedWithoutWork ==
    ASSUME TasksInv, NEW t \in DOMAIN tasks, NEW k, NEW pc, NEW left, NEW right,
           Started(t, k, pc, left, right), list' = list,
           \/ /\ k = 1 /\ tasks[t].pc = "fork" /\ pc = "forked"
              /\ left = tasks[t].left /\ right = LeftEnd(t)
           \/ /\ k = 2 /\ tasks[t].pc = "forked" /\ pc = "join"
              /\ left = tasks[t].mid + 1 /\ right = tasks[t].right
    PROVE  TasksInv'
<1>1. Lists /\ Tree /\ Ranges /\ Progress /\ Order
  BY DEF TasksInv
<1>2. /\ program' = program /\ input' = input
      /\ DOMAIN tasks' = DOMAIN tasks \cup {Append(t, k)}
      /\ tasks' \in [DOMAIN tasks \cup {Append(t, k)} -> Task]
      /\ \A u \in DOMAIN tasks : u # t => tasks'[u] = tasks[u]
      /\ t \in DOMAIN tasks /\ tasks'[t].pc = pc
      /\ \A u \in DOMAIN tasks :
            /\ tasks'[u].left = tasks[u].left /\ tasks'[u].right = tasks[u].right
            /\ tasks'[u].mid = tasks[u].mid
      /\ tasks'[Append(t, k)] = NewTask(left, right)
      /\ t \in Names /\ k \in {1, 2} /\ Append(t, k) \in Names
      /\ Append(t, k) \notin DOMAIN tasks
  BY <1>1, StartedIs
<1>3. Lists'
  BY <1>1, <1>2, ListKept
<1>4. tasks[t].mid \in tasks[t].left .. tasks[t].right
  BY <1>1 DEF Ranges, RangesFit
<1>5. k = 1 => \A u \in DOMAIN tasks : ~Below(t, u)
  BY <1>1 DEF Progress
<1>6. Tree' /\ Ranges'
  BY <1>1, <1>4, <1>5, StartedKeepsRanges
<1>7. Progress'
  BY <1>1, StartedKeepsProgress
<1>8. tasks'[Append(t, k)].pc = "start"
  BY <1>2 DEF NewTask
<1>9. ASSUME NEW u \in DOMAIN tasks'
      PROVE  /\ tasks'[u].pc = "done" => SortedRange(list', tasks'[u].left, tasks'[u].right)
             /\ program' = "Quicksort" /\ tasks'[u].pc \in {"fork", "forked", "join"} =>
                   Divided(list', tasks'[u].left, tasks'[u].mid, tasks'[u].right)
  <2>1. CASE u \notin DOMAIN tasks
    BY <1>2, <1>8, <2>1
  <2>2. CASE u \in DOMAIN tasks /\ u # t
    BY <1>1, <1>2, <2>2 DEF Order
  <2>3. CASE u = t
    BY <1>1, <1>2, <2>3 DEF Order
  <2> QED BY <2>1, <2>2, <2>3
<1>10. Order'
  BY <1>9 DEF Order
<1> QED BY <1>3, <1>6, <1>7, <1>10 DEF TasksInv

LEMMA ForksKeep ==
    ASSUME TasksInv, NEW t \in DOMAIN tasks, ForkLeft(t) \/ ForkRight(t)
    PROVE  TasksInv'
<1>1. Lists /\ Tree /\ Ranges /\ Progress
  BY DEF TasksInv
<1>2. t \in Names /\ tasks[t] \in Task /\ RangeIn(tasks[t].left, tasks[t].right, DOMAIN input)
  BY <1>1 DEF Tree, Ranges, RangesFit
<1>3. tasks[t].left \in Int /\ tasks[t].right \in Int /\ tasks[t].mid \in Int
  BY <1>2 DEF Task
<1>4. CASE ForkLeft(t)
  <2> DEFINE left == tasks[t].left
             right == LeftEnd(t)
  <2>1. tasks[t].pc = "fork" /\ list' = list
    BY <1>4 DEF ForkLeft, Fork
  <2>2. Append(t, 1) \notin DOMAIN tasks
    <3>1. Below(t, Append(t, 1))
      BY <1>2, ChildIs
    <3> QED BY <1>1, <2>1, <3>1 DEF Progress
  <2>3. right \in Int
    BY <1>3 DEF LeftEnd
  <2>4. Started(t, 1, "forked", left, right)
    <3>1. Fork(t, "fork", "forked", Append(t, 1), left, right)
      BY <1>4 DEF ForkLeft, LeftEnd
    <3> QED BY <1>3, <2>2, <2>3, <3>1 DEF Fork, Started
  <2> QED BY <2>1, <2>4, StartedWithoutWork
<1>5. CASE ForkRight(t)
  <2> DEFINE left == tasks[t].mid + 1
             right == tasks[t].right
  <2>1. tasks[t].pc = "forked" /\ list' = list
    BY <1>5 DEF ForkRight, Fork
  <2>2. Append(t, 2) \notin DOMAIN tasks
    BY <1>1, <2>1 DEF Progress
  <2>3. Started(t, 2, "join", left, right)
    <3>1. Fork(t, "forked", "join", Append(t, 2), left, right)
      BY <1>5 DEF ForkRight
    <3> QED BY <1>3, <2>2, <3>1 DEF Fork, Started
  <2> QED BY <2>1, <2>3, StartedWithoutWork
<1> QED BY <1>4, <1>5

(* What both halves hold when the tasks that sorted them have finished. *)
LEMMA ChildrenSorted ==
    ASSUME TasksInv, NEW t \in DOMAIN tasks, Finished(Append(t, 1)), Finished(Append(t, 2))
    PROVE  /\ SortedRange(list, tasks[t].left, LeftEnd(t))
           /\ SortedRange(list, tasks[t].mid + 1, tasks[t].right)
           /\ \A u \in DOMAIN tasks : Below(t, u) => tasks[u].pc = "done"
<1> DEFINE c == Append(t, 1)
           d == Append(t, 2)
<1>1. Tree /\ Ranges /\ Progress /\ Order
  BY DEF TasksInv
<1>2. t \in Names /\ \A u \in DOMAIN tasks : u \in Names
  BY <1>1 DEF Tree
<1>3. /\ c \in DOMAIN tasks /\ tasks[c].pc = "done"
      /\ d \in DOMAIN tasks /\ tasks[d].pc = "done"
  BY DEF Finished
<1>4. /\ SortedRange(list, tasks[c].left, tasks[c].right)
      /\ SortedRange(list, tasks[d].left, tasks[d].right)
  BY <1>1, <1>3 DEF Order
<1>5. /\ tasks[c].left = tasks[t].left /\ tasks[c].right = LeftEnd(t)
      /\ tasks[d].left = tasks[t].mid + 1 /\ tasks[d].right = tasks[t].right
  BY <1>1, <1>3 DEF Ranges, ChildRanges
<1>6. ASSUME NEW u \in DOMAIN tasks, Below(t, u)
      PROVE  tasks[u].pc = "done"
  <2>1. PICK k \in {1, 2} : u = Append(t, k) \/ Below(Append(t, k), u)
    BY <1>2, <1>6, ThroughChild
  <2>2. Append(t, k) \in DOMAIN tasks /\ tasks[Append(t, k)].pc = "done"
    BY <1>3
  <2> QED BY <1>1, <2>1, <2>2 DEF Progress
<1> HIDE DEF c, d
<1> QED BY <1>4, <1>5, <1>6

LEMMA JoinKeeps ==
    ASSUME TasksInv, NEW t \in DOMAIN tasks, Join(t)
    PROVE  TasksInv'
<1> DEFINE left == tasks[t].left
           right == tasks[t].right
           mid == tasks[t].mid
           pc == IF program = "Quicksort" THEN "done" ELSE "merge"
<1>1. Lists /\ Tree /\ Ranges /\ Progress /\ Order
  BY DEF TasksInv
<1>2. /\ tasks[t].pc = "join" /\ tasks' = [tasks EXCEPT ![t].pc = pc]
      /\ program' = program /\ input' = input /\ list' = list
      /\ Finished(Append(t, 1)) /\ Finished(Append(t, 2))
  BY DEF Join, Goto
<1>3. /\ SortedRange(list, left, LeftEnd(t)) /\ SortedRange(list, mid + 1, right)
      /\ \A u \in DOMAIN tasks : Below(t, u) => tasks[u].pc = "done"
  BY <1>2, ChildrenSorted
<1>4. mid \in left .. right /\ RangeIn(left, right, DOMAIN input) /\ tasks[t] \in Task
  BY <1>1, <1>2 DEF Ranges, RangesFit, Tree
<1>5. /\ left \in Int /\ right \in Int /\ mid \in Int /\ list \in [DOMAIN input -> Int]
      /\ \A x \in left .. right : x \in DOMAIN input
  BY <1>1, <1>4, ListIsInt DEF RangeIn
<1>6. /\ \/ pc = "done" /\ program = "Quicksort"
         \/ pc = "merge" /\ program # "Quicksort"
      /\ pc \in {"merge", "done"}
  OBVIOUS
<1> HIDE DEF pc
<1>7. Moved(t, mid, pc)
  BY <1>2, <1>5, <1>6 DEF Moved
<1>8. Lists'
  BY <1>1, <1>2, ListKept
<1>9. Tree' /\ Ranges'
  BY <1>1, <1>4, <1>6, <1>7, MovedKeepsRanges
<1>10. Progress'
  BY <1>1, <1>2, <1>3, <1>6, <1>7, MovedKeepsProgress
<1>11. pc = "done" => SortedRange(list, left, right)
  <2> SUFFICES ASSUME pc = "done", NEW x \in left .. right, NEW y \in left .. right, x < y
               PROVE  list[x] <= list[y]
    BY DEF SortedRange
  <2>1. program = "Quicksort" /\ LeftEnd(t) = mid - 1
    BY <1>6 DEF LeftEnd
  <2>2. Divided(list, left, mid, right)
    BY <1>1, <1>2, <2>1 DEF Order
  <2> HIDE DEF left, right, mid
  <2>3. \A z \in left .. mid - 1 : list[z] <= list[mid]
    BY <2>2 DEF Divided
  <2>4. \A z \in mid + 1 .. right : list[mid] <= list[z]
    BY <2>2 DEF Divided
  <2>5. list[x] \in Int /\ list[y] \in Int /\ list[mid] \in Int
    BY <1>4, <1>5
  <2>6. CASE y < mid
    <3>1. x \in left .. mid - 1 /\ y \in left .. mid - 1
      BY <1>5, <2>6
    <3> QED BY <1>3, <2>1, <3>1 DEF SortedRange
  <2>7. CASE x > mid
    <3>1. x \in mid + 1 .. right /\ y \in mid + 1 .. right
      BY <1>5, <2>7
    <3> QED BY <1>3, <3>1 DEF SortedRange
  <2>8. CASE x <= mid /\ y >= mid
    <3>1. list[x] <= list[mid]
      BY <1>5, <2>3, <2>5, <2>8
    <3>2. list[mid] <= list[y]
      BY <1>5, <2>4, <2>5, <2>8
    <3> QED BY <2>5, <3>1, <3>2
  <2> QED BY <1>5, <2>6, <2>7, <2>8
<1>12. /\ DOMAIN tasks' = DOMAIN tasks
       /\ \A u \in DOMAIN tasks : u # t => tasks'[u] = tasks[u]
       /\ tasks'[t].pc = pc /\ tasks'[t].left = left /\ tasks'[t].right = right
  BY <1>1, <1>7, MovedIs
<1>13. Order'
  <2>1. ASSUME NEW u \in DOMAIN tasks'
        PROVE  /\ tasks'[u].pc = "done" => SortedRange(list', tasks'[u].left, tasks'[u].right)
               /\ program' = "Quicksort" /\ tasks'[u].pc \in {"fork", "forked", "join"} =>
                     Divided(list', tasks'[u].left, tasks'[u].mid, tasks'[u].right)
    <3>1. CASE u = t
      BY <1>2, <1>6, <1>11, <1>12, <3>1
    <3>2. CASE u # t
      BY <1>1, <1>2, <1>12, <3>2 DEF Order
    <3> QED BY <3>1, <3>2
  <2> QED BY <2>1 DEF Order
<1> QED BY <1>8, <1>9, <1>10, <1>13 DEF TasksInv

LEMMA MergeKeeps ==
    ASSUME TasksInv, NEW t \in DOMAIN tasks, Merge(t)
    PROVE  TasksInv'
<1> DEFINE D == DOMAIN input
           left == tasks[t].left
           right == tasks[t].right
           mid == tasks[t].mid
<1>1. Lists /\ Tree /\ Ranges /\ Progress
  BY DEF TasksInv
<1>2. /\ tasks[t].pc = "merge" /\ tasks' = [tasks EXCEPT ![t].pc = "done"]
      /\ program' = program /\ input' = input
      /\ list' = Merged(left, mid, right)
  BY DEF Merge, Goto
<1>3. t \in Names /\ mid \in left .. right /\ RangeIn(left, right, D) /\ list \in [D -> Int]
  BY <1>1, <1>2, ListIsInt DEF Ranges, RangesFit, Tree
<1>4. left \in Int /\ right \in Int /\ mid \in Int /\ mid \in left - 1 .. right
  BY <1>3 DEF RangeIn
<1>5. Finished(Append(t, 1)) /\ Finished(Append(t, 2)) /\ program # "Quicksort"
  <2>1. /\ Append(t, 1) \in DOMAIN tasks /\ Append(t, 2) \in DOMAIN tasks
        /\ program # "Quicksort"
    BY <1>1, <1>2 DEF Progress
  <2>2. Below(t, Append(t, 1)) /\ Below(t, Append(t, 2))
    BY <1>3, ChildIs
  <2> QED BY <1>1, <1>2, <2>1, <2>2 DEF Progress, Finished
<1>6. SortedRange(list, left, mid) /\ SortedRange(list, mid + 1, right)
  <2>1. LeftEnd(t) = mid
    BY <1>5 DEF LeftEnd
  <2> QED BY <1>5, <2>1, ChildrenSorted
<1>7. list' = MergeLoop(list, left, mid, right)[right - left + 1].tmp
  BY <1>2, MergedIsLast
<1>8. Rearranged(list, list', D, left, right) /\ SortedRange(list', left, right)
  <2> HIDE DEF D, left, right, mid
  <2> QED BY <1>3, <1>4, <1>6, <1>7, MergeSorts
<1>9. Moved(t, mid, "done")
  BY <1>2, <1>4 DEF Moved
<1>10. MovesWithWork(t, mid, "done")
  BY <1>2, <1>8, <1>9 DEF MovesWithWork, Works
<1> QED BY <1>10, MovedWithWork

LEMMA TasksInit ==
    ASSUME Init
    PROVE  TasksInv
<1> DEFINE root == NewTask(0, Cardinality(DOMAIN input) - 1)
<1>1. PICK n \in 1 .. MaxSize : input \in [0 .. n - 1 -> Values]
  BY DEF Init
<1>2. n \in Nat /\ n > 0 /\ DOMAIN input = 0 .. n - 1 /\ program \in Programs /\ list = input
      /\ tasks = [t \in {<<>>} |-> root]
  BY <1>1, ConstantsAssumption DEF Init
<1>3. Cardinality(DOMAIN input) = n
  <2> DEFINE m == n - 1
  <2>1. m \in Int /\ 0 \in Int /\ ~(0 > m) /\ (m - 0) + 1 = n
    BY <1>2
  <2> HIDE DEF m
  <2>2. Cardinality(0 .. m) = (m - 0) + 1
    BY <2>1, FS_Interval
  <2> QED BY <1>2, <2>1, <2>2 DEF m
<1>4. root.left = 0 /\ root.right = n - 1 /\ root.mid = 0 /\ root.pc = "start" /\ root \in Task
  BY <1>2, <1>3 DEF NewTask, Task
<1> HIDE DEF root
<1>5. DOMAIN tasks = {<<>>} /\ tasks \in [DOMAIN tasks -> Task] /\ tasks[<<>>] = root
  BY <1>2, <1>4
<1>6. <<>> \in Names /\ Len(<<>>) = 0 /\ \A t \in Names : Len(t) >= 0
  BY DEF Names
<1>7. \A t \in Names : ~Below(t, <<>>)
  BY <1>6 DEF Below, Names
<1>8. Lists
  BY <1>1, <1>2 DEF Lists
<1>9. Tree
  BY <1>5, <1>6, <1>7 DEF Tree
<1>10. \A t \in DOMAIN tasks : Append(t, 1) \notin DOMAIN tasks /\ Append(t, 2) \notin DOMAIN tasks
  BY <1>5, <1>6, ChildIs
<1>11. RangeIn(0, n - 1, DOMAIN input)
  BY <1>2 DEF RangeIn
<1>12. Ranges
  BY <1>4, <1>5, <1>6, <1>7, <1>10, <1>11 DEF Ranges, RangesFit, ChildRanges, Nested, Separate
<1>13. Progress
  BY <1>4, <1>5, <1>6, <1>7 DEF Progress
<1>14. Order
  BY <1>4, <1>5 DEF Order
<1> QED BY <1>8, <1>9, <1>12, <1>13, <1>14 DEF TasksInv

LEMMA TasksStep ==
    ASSUME TasksInv, [Next]_vars
    PROVE  TasksInv'
<1>1. CASE UNCHANGED vars
  <2>1. /\ program' = program /\ input' = input /\ list' = list /\ tasks' = tasks
    BY <1>1 DEF vars
  <2>2. Lists'
    BY <2>1, ListKept DEF TasksInv
  <2>3. Tree' /\ Ranges' /\ Progress' /\ Order'
    BY <2>1 DEF TasksInv, Tree, Ranges, RangesFit, ChildRanges, LeftEnd, Nested, Inside, Separate,
                Apart, Progress, Order
  <2> QED BY <2>2, <2>3 DEF TasksInv
<1>2. ASSUME NEW t \in DOMAIN tasks, Step(t)
      PROVE  TasksInv'
  BY <1>2, SortShortKeeps, SplitKeeps, ForksKeep, JoinKeeps, MergeKeeps DEF Step
<1> QED BY <1>1, <1>2 DEF Next, Terminated

LEMMA TasksAlways == Spec => []TasksInv
<1>1. Init => TasksInv
  BY TasksInit
<1>2. TasksInv /\ [Next]_vars => TasksInv'
  BY TasksStep
<1> QED BY <1>1, <1>2, PTL DEF Spec

-----------------------------------------------------------------------------
(* The theorems *)

LEMMA RangesExclude ==
    ASSUME TasksInv
    PROVE  RangesAreExclusive
<1>1. Lists /\ Tree /\ Ranges /\ Progress
  BY DEF TasksInv
<1>2. \A t \in DOMAIN tasks : t \in Names /\ tasks[t] \in Task
  BY <1>1 DEF Tree
<1>3. TypeOK
  <2>1. ASSUME NEW t \in DOMAIN tasks, t # <<>>
        PROVE  Front(t) \in DOMAIN tasks
    <3>1. t \in Seq({1, 2}) /\ Len(t) \in Nat /\ Len(t) # 0
      BY <1>2, <2>1 DEF Names
    <3>2. /\ Front(t) \in Names /\ Len(Front(t)) = Len(t) - 1
          /\ \A i \in 1 .. Len(t) - 1 : Front(t)[i] = t[i]
      <4>1. Front(t) = SubSeq(t, 1, Len(t) - 1)
        BY DEF Front
      <4> DEFINE s == SubSeq(t, 1, Len(t) - 1)
      <4>2. s \in Seq({1, 2}) /\ Len(s) = Len(t) - 1 /\ \A i \in 1 .. Len(t) - 1 : s[i] = t[i]
        <5> DEFINE m == Len(t) - 1
        <5>1. m \in 0 .. Len(t) /\ 1 \in 1 .. Len(t) + 1
          BY <3>1
        <5> HIDE DEF m
        <5>2. /\ SubSeq(t, 1, m) \in Seq({1, 2}) /\ Len(SubSeq(t, 1, m)) = m
              /\ \A i \in 1 .. m : SubSeq(t, 1, m)[i] = t[i]
          BY <3>1, <5>1
        <5> QED BY <5>2 DEF m
      <4> HIDE DEF s
      <4> QED BY <4>1, <4>2 DEF Names, s
    <3>3. Below(Front(t), t)
      BY <3>1, <3>2 DEF Below
    <3> QED BY <1>1, <3>2, <3>3 DEF Tree
  <2>2. ASSUME NEW t \in DOMAIN tasks
        PROVE  /\ tasks[t].left .. tasks[t].right \subseteq DOMAIN input
               /\ tasks[t].pc \in {"start", "fork", "forked", "join", "merge", "done"}
    BY <1>1, <1>2 DEF Ranges, RangesFit, RangeIn, Task
  <2> QED BY <1>1, <2>1, <2>2 DEF TypeOK, Lists
<1>4. ASSUME NEW t \in DOMAIN tasks, NEW u \in DOMAIN tasks, t # u, Working(t), Working(u)
      PROVE  tasks[t].right < tasks[u].left \/ tasks[u].right < tasks[t].left
  <2>1. ~Below(t, u) /\ ~Below(u, t)
    BY <1>1, <1>4 DEF Progress, Working
  <2> QED BY <1>1, <1>4, <2>1 DEF Ranges, Separate, Apart
<1>5. ASSUME NEW t \in DOMAIN tasks, tasks[t].pc \in {"merge", "done"},
             NEW u \in DOMAIN tasks, IsStrictPrefix(t, u)
      PROVE  Finished(u)
  <2>1. Below(t, u)
    BY <1>2, <1>5, PrefixIsAbove
  <2> QED BY <1>1, <1>5, <2>1 DEF Progress, Finished
<1> QED BY <1>3, <1>4, <1>5 DEF RangesAreExclusive

(* Two tasks that read or write their ranges at the same time never share  *)
(* a number, and a task merges only when all that were started below it    *)
(* have finished, for lists of any length, any threshold and any of the    *)
(* three programs (mergesort.c:52-66, Mergesort.java:35-41,                *)
(* Quicksort.java:50-55).                                                  *)
THEOREM ExclusionCorrect == Spec => []RangesAreExclusive
<1>1. TasksInv => RangesAreExclusive
  BY RangesExclude
<1> QED BY <1>1, TasksAlways, PTL

(* The loops of the three programs sort: whenever a task is done its range *)
(* is in order, whatever the other tasks are doing, and the list is a      *)
(* rearrangement of the input (mergesort.c:66-92, Mergesort.java:21-63,    *)
(* Quicksort.java:21-49).                                                  *)
THEOREM SortingCorrect == Spec => []FinishedRangesAreSorted
<1>1. TasksInv => FinishedRangesAreSorted
  BY DEF TasksInv, Order, Lists, Finished, FinishedRangesAreSorted, SortedRange
<1> QED BY <1>1, TasksAlways, PTL
=============================================================================
