---------------------------- MODULE ResourceProofs ----------------------------
(***************************************************************************)
(* The two programs that hand out resources on RQ and take them back on    *)
(* RL.  The bank (Project 6), for any number of customers and resources    *)
(* and for every supply and demand: resources are conserved, the test of   *)
(* is_safe is exact, and the bank stays safe.  The memory allocator        *)
(* (Project 7), for every capacity and set of names: the list stays in     *)
(* order and merged, the searches find their holes, at most one unit is    *)
(* lost at a time, and MemoryMap is implemented.                           *)
(***************************************************************************)
EXTENDS Banker, MemoryAllocator, Arithmetic, SequenceTheorems, TLAPS


-----------------------------------------------------------------------------
(* Sums *)

(* The sums over the subsets of X, as SumFunctionOnSet makes them. *)
Sums(f, X) ==
    CHOOSE iter : iter = [Y \in SUBSET X |->
                             IF Y = {} THEN 0
                             ELSE LET x == CHOOSE x \in Y : TRUE
                                  IN  f[x] + iter[Y \ {x}]]

LEMMA SumIsLast == \A f, X : SumFunctionOnSet(f, X) = Sums(f, X)[X]
BY DEF SumFunctionOnSet, FoldFunctionOnSet, MapThenFoldSet, Sums

(* There is such a function. *)
LEMMA SumsUnfold ==
    ASSUME NEW X, IsFiniteSet(X), NEW f, \A x \in X : f[x] \in Int
    PROVE  /\ Sums(f, X) \in [SUBSET X -> Int]
           /\ Sums(f, X)[{}] = 0
           /\ \A Y \in SUBSET X : Y # {} =>
                  LET x == CHOOSE x \in Y : TRUE
                  IN  Sums(f, X)[Y] = f[x] + Sums(f, X)[Y \ {x}]
<1> DEFINE pick == [Y \in SUBSET X |-> CHOOSE x \in Y : TRUE]
           h == [Y \in SUBSET X |-> [e \in Int |-> f[pick[Y]] + e]]
           Eq(g) == g = [Y \in SUBSET X |->
                            IF Y = {} THEN 0
                            ELSE LET x == CHOOSE x \in Y : TRUE
                                 IN  f[x] + g[Y \ {x}]]
<1>1. \A Y \in SUBSET X : Y # {} => pick[Y] \in Y
  OBVIOUS
<1> HIDE DEF pick
<1>2. ASSUME NEW Y \in SUBSET X, Y # {}, NEW e \in Int
      PROVE  h[Y][e] = f[pick[Y]] + e /\ h[Y][e] \in Int
  <2>2. h[Y][e] = f[pick[Y]] + e
    OBVIOUS
  <2>3. f[pick[Y]] \in Int
    BY <1>1, <1>2
  <2> QED BY <2>2, <2>3
<1> HIDE DEF h
<1>3. \A Y \in SUBSET X : Y # {} => \A e \in Int : h[Y][e] \in Int
  BY <1>2
<1>4. \E g \in [SUBSET X -> Int] :
          /\ g[{}] = 0
          /\ \A Y \in SUBSET X : Y # {} => g[Y] = h[Y][g[Y \ {pick[Y]}]]
  <2>1. CanFold(X, Int, 0, pick, h)
    BY <1>1, <1>3 DEF CanFold
  <2>2. PICK g : IsFold(g, X, Int, 0, pick, h)
    BY <2>1, FiniteRecursion
  <2> QED BY <2>2 DEF IsFold
<1>5. PICK g \in [SUBSET X -> Int] :
          /\ g[{}] = 0
          /\ \A Y \in SUBSET X : Y # {} => g[Y] = h[Y][g[Y \ {pick[Y]}]]
  BY <1>4
<1>6. \A Y \in SUBSET X : Y # {} => g[Y] = f[pick[Y]] + g[Y \ {pick[Y]}]
  <2> SUFFICES ASSUME NEW Y \in SUBSET X, Y # {}
               PROVE  g[Y] = f[pick[Y]] + g[Y \ {pick[Y]}]
    OBVIOUS
  <2>1. g[Y \ {pick[Y]}] \in Int
    BY <1>5
  <2> QED BY <1>2, <1>5, <2>1
<1>7. Eq(g)
  BY <1>5, <1>6 DEF pick
<1>8. Eq(Sums(f, X))
  BY <1>7 DEF Sums
<1> DEFINE s == Sums(f, X)
<1> HIDE DEF s
<1>9. /\ s[{}] = 0
      /\ \A Y \in SUBSET X : Y # {} => s[Y] = f[CHOOSE x \in Y : TRUE]
                                                 + s[Y \ {CHOOSE x \in Y : TRUE}]
  BY <1>8 DEF s
<1>10. s \in [SUBSET X -> Int]
  <2> DEFINE T == {Y \in SUBSET X : s[Y] \in Int}
  <2>1. {} \in T
    BY <1>9
  <2>2. ASSUME NEW Y \in SUBSET X, Y # {}, \A x \in Y : Y \ {x} \in T
        PROVE  Y \in T
    <3>1. PICK x \in Y : x = CHOOSE z \in Y : TRUE
      BY <2>2
    <3>2. s[Y] = f[x] + s[Y \ {x}] /\ s[Y \ {x}] \in Int /\ f[x] \in Int
      BY <1>9, <2>2, <3>1
    <3> QED BY <3>2
  <2> HIDE DEF T
  <2>3. SUBSET X \subseteq T
    BY <2>1, <2>2, FiniteInduction
  <2>4. DOMAIN s = SUBSET X /\ s = [Y \in SUBSET X |-> s[Y]]
    BY <1>8 DEF s
  <2> QED BY <2>3, <2>4 DEF T
<1> QED BY <1>9, <1>10 DEF s

(* The sum over a set does not depend on the set it is a subset of. *)
LEMMA SumsAgree ==
    ASSUME NEW X, IsFiniteSet(X), NEW f, \A x \in X : f[x] \in Int,
           NEW Z \in SUBSET X
    PROVE  Sums(f, Z)[Z] = Sums(f, X)[Z]
<1> DEFINE T == {Y \in SUBSET Z : Sums(f, Z)[Y] = Sums(f, X)[Y]}
<1>1. IsFiniteSet(Z) /\ \A x \in Z : f[x] \in Int
  BY FS_Subset
<1>2. /\ Sums(f, X)[{}] = 0
      /\ \A Y \in SUBSET X : Y # {} =>
             LET x == CHOOSE x \in Y : TRUE
             IN  Sums(f, X)[Y] = f[x] + Sums(f, X)[Y \ {x}]
  BY SumsUnfold
<1>3. /\ Sums(f, Z)[{}] = 0
      /\ \A Y \in SUBSET Z : Y # {} =>
             LET x == CHOOSE x \in Y : TRUE
             IN  Sums(f, Z)[Y] = f[x] + Sums(f, Z)[Y \ {x}]
  BY <1>1, SumsUnfold
<1>4. {} \in T
  BY <1>2, <1>3
<1>5. ASSUME NEW Y \in SUBSET Z, Y # {}, \A x \in Y : Y \ {x} \in T
      PROVE  Y \in T
  <2>1. PICK x \in Y : x = CHOOSE z \in Y : TRUE
    BY <1>5
  <2>2. Sums(f, Z)[Y] = f[x] + Sums(f, Z)[Y \ {x}]
    BY <1>3, <1>5, <2>1
  <2>3. Y \in SUBSET X
    OBVIOUS
  <2>4. Sums(f, X)[Y] = f[x] + Sums(f, X)[Y \ {x}]
    BY <1>2, <1>5, <2>1, <2>3
  <2>5. Sums(f, Z)[Y \ {x}] = Sums(f, X)[Y \ {x}]
    BY <1>5
  <2> QED BY <2>2, <2>4, <2>5
<1> HIDE DEF T
<1>6. SUBSET Z \subseteq T
  BY <1>1, <1>4, <1>5, FiniteInduction
<1>7. Z \in T
  BY <1>6
<1> QED BY <1>7 DEF T

(* A sum is a number, and any member of the set may be taken out of it. *)
LEMMA SumAdd ==
    ASSUME NEW X, IsFiniteSet(X), NEW f, \A x \in X : f[x] \in Int
    PROVE  /\ SumFunctionOnSet(f, {}) = 0
           /\ \A Y \in SUBSET X :
                 /\ SumFunctionOnSet(f, Y) \in Int
                 /\ \A y \in Y : SumFunctionOnSet(f, Y) = f[y] + SumFunctionOnSet(f, Y \ {y})
<1> DEFINE S(Y) == SumFunctionOnSet(f, Y)
           T == {Y \in SUBSET X : \A y \in Y : S(Y) = f[y] + S(Y \ {y})}
<1>1. \A Y \in SUBSET X : S(Y) = Sums(f, X)[Y]
  BY SumIsLast, SumsAgree
<1>2. /\ Sums(f, X) \in [SUBSET X -> Int]
      /\ Sums(f, X)[{}] = 0
      /\ \A Y \in SUBSET X : Y # {} =>
             LET x == CHOOSE x \in Y : TRUE
             IN  Sums(f, X)[Y] = f[x] + Sums(f, X)[Y \ {x}]
  BY SumsUnfold
<1> HIDE DEF S
<1>3. S({}) = 0 /\ \A Y \in SUBSET X : S(Y) \in Int
  BY <1>1, <1>2
<1>4. ASSUME NEW Y \in SUBSET X, Y # {}
      PROVE  \E x \in Y : S(Y) = f[x] + S(Y \ {x})
  <2>1. PICK x \in Y : x = CHOOSE z \in Y : TRUE
    BY <1>4
  <2>2. Sums(f, X)[Y] = f[x] + Sums(f, X)[Y \ {x}]
    BY <1>2, <1>4, <2>1
  <2> QED BY <1>1, <2>2
<1>5. {} \in T
  OBVIOUS
<1>6. ASSUME NEW Y \in SUBSET X, Y # {}, \A x \in Y : Y \ {x} \in T
      PROVE  Y \in T
  <2>1. PICK x \in Y : S(Y) = f[x] + S(Y \ {x})
    BY <1>4, <1>6
  <2>2. ASSUME NEW y \in Y, y # x
        PROVE  S(Y) = f[y] + S(Y \ {y})
    <3> DEFINE Z == (Y \ {x}) \ {y}
    <3>1. S(Y \ {x}) = f[y] + S(Z)
      BY <1>6, <2>2
    <3>2. S(Y \ {y}) = f[x] + S((Y \ {y}) \ {x})
      BY <1>6, <2>2
    <3>3. (Y \ {y}) \ {x} = Z
      OBVIOUS
    <3>4. S(Z) \in Int /\ f[x] \in Int /\ f[y] \in Int
      BY <1>3
    <3> HIDE DEF Z
    <3>5. S(Y) = f[x] + (f[y] + S(Z))
      BY <2>1, <3>1
    <3>6. S(Y \ {y}) = f[x] + S(Z)
      BY <3>2, <3>3
    <3> QED BY <3>4, <3>5, <3>6
  <2> QED BY <2>1, <2>2
<1> HIDE DEF T
<1>7. SUBSET X \subseteq T
  BY <1>5, <1>6, FiniteInduction
<1> QED BY <1>3, <1>7 DEF T, S

(* Equal functions have equal sums. *)
LEMMA SumSame ==
    ASSUME NEW X, IsFiniteSet(X), NEW f, NEW g,
           \A x \in X : f[x] \in Int /\ g[x] = f[x]
    PROVE  SumFunctionOnSet(f, X) = SumFunctionOnSet(g, X)
<1> DEFINE T == {Y \in SUBSET X : SumFunctionOnSet(f, Y) = SumFunctionOnSet(g, Y)}
<1>0. \A x \in X : f[x] \in Int /\ g[x] \in Int
  OBVIOUS
<1>1. {} \in T
  BY <1>0, SumAdd
<1>2. ASSUME NEW Y \in SUBSET X, Y # {}, \A x \in Y : Y \ {x} \in T
      PROVE  Y \in T
  <2>1. PICK x : x \in Y
    BY <1>2
  <2>2. SumFunctionOnSet(f, Y) = f[x] + SumFunctionOnSet(f, Y \ {x})
    BY <1>0, <2>1, SumAdd
  <2>3. SumFunctionOnSet(g, Y) = g[x] + SumFunctionOnSet(g, Y \ {x})
    BY <1>0, <2>1, SumAdd
  <2> QED BY <1>2, <2>1, <2>2, <2>3
<1> HIDE DEF T
<1>3. SUBSET X \subseteq T
  BY <1>1, <1>2, FiniteInduction
<1>4. X \in T
  BY <1>3
<1> QED BY <1>4 DEF T

(* When no term is negative a larger set has a larger sum. *)
LEMMA SumGrows ==
    ASSUME NEW X, IsFiniteSet(X), NEW f, \A x \in X : f[x] \in Nat,
           NEW Z \in SUBSET X
    PROVE  /\ SumFunctionOnSet(f, Z) \in Nat
           /\ SumFunctionOnSet(f, Z) <= SumFunctionOnSet(f, X)
<1> DEFINE S(Y) == SumFunctionOnSet(f, Y)
           T == {Y \in SUBSET X : \A V \in SUBSET Y : 0 <= S(V) /\ S(V) <= S(Y)}
<1>0. \A x \in X : f[x] \in Int
  OBVIOUS
<1>1. /\ S({}) = 0
      /\ \A Y \in SUBSET X : S(Y) \in Int
      /\ \A Y \in SUBSET X : \A y \in Y : S(Y) = f[y] + S(Y \ {y})
  BY <1>0, SumAdd
<1> HIDE DEF S
<1>2. {} \in T
  <2>1. \A V \in SUBSET {} : V = {}
    OBVIOUS
  <2>2. \A V \in SUBSET {} : 0 <= S(V) /\ S(V) <= S({})
    <3> SUFFICES ASSUME NEW V \in SUBSET {}
                 PROVE  0 <= S(V) /\ S(V) <= S({})
      OBVIOUS
    <3>1. V = {}
      BY <2>1
    <3> QED BY <1>1, <3>1
  <2> QED BY <2>2
<1>3. ASSUME NEW Y \in SUBSET X, Y # {}, \A x \in Y : Y \ {x} \in T
      PROVE  Y \in T
  <2> SUFFICES ASSUME NEW V \in SUBSET Y
               PROVE  0 <= S(V) /\ S(V) <= S(Y)
    OBVIOUS
  <2>1. ASSUME NEW y \in Y
        PROVE  S(Y) \in Int /\ 0 <= S(Y \ {y}) /\ S(Y \ {y}) <= S(Y)
    <3>1. S(Y \ {y}) \in Int /\ S(Y) = f[y] + S(Y \ {y}) /\ S(Y) \in Int
      BY <1>1
    <3>2. 0 <= S(Y \ {y})
      BY <1>3
    <3>3. f[y] \in Nat
      OBVIOUS
    <3> QED BY <3>1, <3>2, <3>3
  <2>2. CASE V = Y
    <3>1. PICK y : y \in Y
      BY <1>3
    <3>2. S(Y \ {y}) \in Int
      BY <1>1
    <3> QED BY <2>1, <2>2, <3>1, <3>2
  <2>3. CASE V # Y
    <3>1. PICK y \in Y : V \in SUBSET (Y \ {y})
      BY <2>3
    <3>2. 0 <= S(V) /\ S(V) <= S(Y \ {y})
      BY <1>3, <3>1
    <3>3. S(Y \ {y}) \in Int /\ S(V) \in Int /\ S(Y) \in Int
      BY <1>1
    <3> QED BY <2>1, <3>2, <3>3
  <2> QED BY <2>2, <2>3
<1> HIDE DEF T
<1>4. SUBSET X \subseteq T
  BY <1>2, <1>3, FiniteInduction
<1>5. X \in T
  BY <1>4
<1>6. 0 <= S(Z) /\ S(Z) <= S(X) /\ S(Z) \in Int
  BY <1>1, <1>5 DEF T
<1> QED BY <1>6 DEF S

-----------------------------------------------------------------------------
(* The rounds of is_safe *)

LEMMA CustomersAre ==
    /\ NUMBER_OF_CUSTOMERS \in Nat /\ NUMBER_OF_CUSTOMERS > 0
    /\ IsFiniteSet(Customers)
    /\ Cardinality(Customers) = NUMBER_OF_CUSTOMERS
<1>1. NUMBER_OF_CUSTOMERS \in Nat /\ NUMBER_OF_CUSTOMERS > 0
  BY ConstantsAssumption
<1>2. /\ IsFiniteSet(0 .. NUMBER_OF_CUSTOMERS - 1)
      /\ Cardinality(0 .. NUMBER_OF_CUSTOMERS - 1) = (NUMBER_OF_CUSTOMERS - 1) - 0 + 1
  BY <1>1, FS_Interval
<1> QED BY <1>1, <1>2 DEF Customers

(* What a customer's turn in a round makes of the state of the loop. *)
Tried(s, i, need_, allocation_) ==
    IF i \notin s.finish /\ no_greater_than(need_[i], s.work)
    THEN [work |-> plus(s.work, allocation_[i]), finish |-> s.finish \cup {i}]
    ELSE s

(* The states within a round, by the set of the turns already taken. *)
Turns(state, need_, allocation_) ==
    CHOOSE iter : iter = [Y \in SUBSET (1 .. NUMBER_OF_CUSTOMERS) |->
                             IF Y = {} THEN state
                             ELSE LET x == Max(Y)
                                  IN  Tried(iter[Y \ {x}],
                                            [k \in 1 .. NUMBER_OF_CUSTOMERS |-> k - 1][x],
                                            need_, allocation_)]

LEMMA RoundIsLast ==
    ASSUME NEW s, NEW nd, NEW al
    PROVE  Round(s, nd, al) = Turns(s, nd, al)[1 .. NUMBER_OF_CUSTOMERS]
<1>1. DOMAIN [k \in 1 .. NUMBER_OF_CUSTOMERS |-> k - 1] = 1 .. NUMBER_OF_CUSTOMERS
  OBVIOUS
<1> QED BY <1>1 DEF Round, Turns, FoldLeft, MapThenFoldSet, Tried

(* The states of the loop over the rounds. *)
Rounds(work, need_, allocation_) ==
    CHOOSE rounds : rounds = [n \in 0 .. NUMBER_OF_CUSTOMERS |->
                                 IF n = 0 THEN [work |-> work, finish |-> {}]
                                 ELSE Round(rounds[n - 1], need_, allocation_)]

LEMMA SafeIsLast ==
    \A b : AllFinish(b) <=> Rounds(b.available, b.need, b.allocation)
                               [NUMBER_OF_CUSTOMERS].finish = Customers
BY DEF AllFinish, Rounds

Amounts == [Resources -> Int]
States  == [work : Amounts, finish : SUBSET Customers]

LEMMA TriedIsState ==
    ASSUME NEW nd, NEW al \in [Customers -> Vectors], NEW s \in States, NEW i \in Customers
    PROVE  Tried(s, i, nd, al) \in States
<1>1. s.work \in Amounts /\ s.finish \in SUBSET Customers
  BY DEF States
<1>2. plus(s.work, al[i]) \in Amounts
  BY <1>1 DEF plus, Amounts, Vectors
<1>3. [work |-> plus(s.work, al[i]), finish |-> s.finish \cup {i}] \in States
  BY <1>1, <1>2 DEF States
<1> QED BY <1>3 DEF Tried

(* A round tries the customers one after the other: g[k] is its state when *)
(* k of them have been tried.                                              *)
IsRound(g, s, nd, al) ==
    /\ g \in [0 .. NUMBER_OF_CUSTOMERS -> States]
    /\ g[0] = s
    /\ \A k \in 1 .. NUMBER_OF_CUSTOMERS : g[k] = Tried(g[k - 1], k - 1, nd, al)
    /\ Round(s, nd, al) = g[NUMBER_OF_CUSTOMERS]

LEMMA RoundIs ==
    ASSUME NEW nd, NEW al \in [Customers -> Vectors], NEW s \in States
    PROVE  \E g : IsRound(g, s, nd, al)
<1> DEFINE N == NUMBER_OF_CUSTOMERS
           X == 1 .. N
           pick == [Y \in SUBSET X |-> Max(Y)]
           h == [Y \in SUBSET X |-> [e \in States |-> Tried(e, pick[Y] - 1, nd, al)]]
           Eq(f) == f = [Y \in SUBSET X |->
                            IF Y = {} THEN s
                            ELSE LET x == Max(Y)
                                 IN  Tried(f[Y \ {x}], [k \in X |-> k - 1][x], nd, al)]
<1>1. N \in Nat /\ N > 0 /\ IsFiniteSet(X) /\ Customers = 0 .. N - 1
  BY CustomersAre, FS_Interval DEF Customers
<1>2. ASSUME NEW Y \in SUBSET X, Y # {}
      PROVE  Max(Y) \in Y
  <2> DEFINE T == {n \in 0 .. N : \A V \in SUBSET (1 .. n) : V # {} =>
                                     \E x \in V : \A y \in V : x >= y}
  <2>1. 0 \in T
    <3>1. 1 .. 0 = {} /\ 0 \in 0 .. N
      BY <1>1
    <3>2. \A V \in SUBSET (1 .. 0) : V = {}
      BY <3>1
    <3> QED BY <3>1, <3>2
  <2>2. ASSUME NEW k \in 1 .. N, k - 1 \in T
        PROVE  k \in T
    <3> SUFFICES ASSUME NEW V \in SUBSET (1 .. k), V # {}
                 PROVE  \E x \in V : \A y \in V : x >= y
      BY <1>1
    <3>1. CASE k \in V
      BY <1>1, <3>1
    <3>2. CASE k \notin V
      <4>1. V \in SUBSET (1 .. k - 1)
        BY <1>1, <3>2
      <4> QED BY <2>2, <4>1
    <3> QED BY <3>1, <3>2
  <2> HIDE DEF T
  <2>3. 0 .. N \subseteq T
    BY <1>1, <2>1, <2>2, BoundedInduction
  <2>4. N \in T
    BY <1>1, <2>3
  <2>5. \E x \in Y : \A y \in Y : x >= y
    BY <1>2, <2>4 DEF T
  <2> QED BY <2>5 DEF Max
<1>3. \A Y \in SUBSET X : Y # {} => pick[Y] \in Y
  BY <1>2
<1> HIDE DEF pick
<1>4. \A Y \in SUBSET X : Y # {} => \A e \in States :
         h[Y][e] = Tried(e, pick[Y] - 1, nd, al) /\ h[Y][e] \in States
  <2> SUFFICES ASSUME NEW Y \in SUBSET X, Y # {}, NEW e \in States
               PROVE  h[Y][e] = Tried(e, pick[Y] - 1, nd, al) /\ h[Y][e] \in States
    OBVIOUS
  <2>1. pick[Y] - 1 \in Customers
    BY <1>1, <1>3
  <2>2. h[Y][e] = Tried(e, pick[Y] - 1, nd, al)
    OBVIOUS
  <2> QED BY <2>1, <2>2, TriedIsState
<1> HIDE DEF h
<1>5. CanFold(X, States, s, pick, h)
  BY <1>1, <1>3, <1>4 DEF CanFold
<1>6. PICK f : IsFold(f, X, States, s, pick, h)
  BY <1>5, FiniteRecursion
<1>7. Eq(f)
  <2>1. f \in [SUBSET X -> States] /\ f[{}] = s
    BY <1>6 DEF IsFold
  <2>2. \A Y \in SUBSET X : Y # {} => f[Y] = Tried(f[Y \ {Max(Y)}], [k \in X |-> k - 1][Max(Y)], nd, al)
    <3> SUFFICES ASSUME NEW Y \in SUBSET X, Y # {}
                 PROVE  f[Y] = Tried(f[Y \ {Max(Y)}], [k \in X |-> k - 1][Max(Y)], nd, al)
      OBVIOUS
    <3>1. f[Y] = h[Y][f[Y \ {pick[Y]}]]
      BY <1>6 DEF IsFold
    <3>2. f[Y \ {pick[Y]}] \in States
      BY <2>1
    <3>3. pick[Y] = Max(Y) /\ Max(Y) \in X
      BY <1>2 DEF pick
    <3>4. [k \in X |-> k - 1][Max(Y)] = Max(Y) - 1
      BY <3>3
    <3> QED BY <1>4, <3>1, <3>2, <3>3, <3>4
  <2> QED BY <2>1, <2>2
<1>8. Eq(Turns(s, nd, al))
  BY <1>7 DEF Turns
<1> DEFINE t == Turns(s, nd, al)
           g == [k \in 0 .. N |-> t[1 .. k]]
<1> HIDE DEF t
<1>9. g[0] = s
  <2>1. 1 .. 0 = {} /\ 0 \in 0 .. N
    BY <1>1
  <2>2. t[{}] = s
    BY <1>8 DEF t
  <2> QED BY <2>1, <2>2
<1>10. ASSUME NEW k \in 1 .. N
       PROVE  g[k] = Tried(g[k - 1], k - 1, nd, al)
  <2>1. Max(1 .. k) = k
    <3>1. k \in 1 .. k /\ \A y \in 1 .. k : k >= y
      BY <1>1
    <3>2. \A x \in 1 .. k : (\A y \in 1 .. k : x >= y) => x = k
      BY <1>1
    <3> QED BY <3>1, <3>2 DEF Max
  <2>2. (1 .. k) \ {k} = 1 .. k - 1 /\ 1 .. k # {} /\ 1 .. k \in SUBSET X
    <3>1. k \in Int /\ 1 <= k /\ k <= N
      BY <1>1
    <3>2. \A x \in Int : (1 <= x /\ x <= k /\ x # k) <=> (1 <= x /\ x <= k - 1)
      BY <3>1
    <3>3. (1 .. k) \ {k} = 1 .. k - 1
      BY <3>1, <3>2
    <3>4. k \in 1 .. k
      BY <3>1
    <3>5. 1 .. k \in SUBSET X
      BY <1>1, <3>1
    <3> QED BY <3>3, <3>4, <3>5
  <2>3. t[1 .. k] = Tried(t[(1 .. k) \ {k}], [l \in X |-> l - 1][k], nd, al)
    BY <1>8, <2>1, <2>2 DEF t
  <2>4. [l \in X |-> l - 1][k] = k - 1 /\ k \in 0 .. N /\ k - 1 \in 0 .. N
    BY <1>1
  <2>5. t[1 .. k] = Tried(t[1 .. k - 1], k - 1, nd, al)
    BY <2>2, <2>3, <2>4
  <2> QED BY <2>4, <2>5
<1>11. \A k \in 0 .. N : g[k] \in States
  <2> DEFINE T == {k \in 0 .. N : g[k] \in States}
  <2> HIDE DEF g
  <2>1. 0 \in T
    BY <1>1, <1>9
  <2>2. ASSUME NEW k \in 1 .. N, k - 1 \in T
        PROVE  k \in T
    <3>1. k - 1 \in Customers /\ k \in 0 .. N
      BY <1>1
    <3>2. Tried(g[k - 1], k - 1, nd, al) \in States
      BY <2>2, <3>1, TriedIsState
    <3> QED BY <1>10, <3>1, <3>2
  <2> HIDE DEF T
  <2>3. 0 .. N \subseteq T
    BY <1>1, <2>1, <2>2, BoundedInduction
  <2> QED BY <2>3 DEF T
<1>12. Round(s, nd, al) = g[N]
  <2>1. N \in 0 .. N
    BY <1>1
  <2> QED BY <2>1, RoundIsLast DEF t
<1>13. g \in [0 .. N -> States]
  BY <1>11
<1> HIDE DEF g
<1> QED BY <1>9, <1>10, <1>12, <1>13 DEF IsRound

(* Within a round what the customers have finished with only grows, and    *)
(* what holds of the first state and survives a turn holds of the last.    *)
LEMMA RoundKeeps ==
    ASSUME NEW nd, NEW al \in [Customers -> Vectors], NEW G \in SUBSET States,
           \A s \in G : \A i \in Customers : Tried(s, i, nd, al) \in G,
           NEW s \in G
    PROVE  Round(s, nd, al) \in G
<1>0. s \in States
  OBVIOUS
<1>a. PICK g : IsRound(g, s, nd, al)
  BY <1>0, RoundIs
<1>1. /\ g \in [0 .. NUMBER_OF_CUSTOMERS -> States]
      /\ g[0] = s
      /\ \A k \in 1 .. NUMBER_OF_CUSTOMERS : g[k] = Tried(g[k - 1], k - 1, nd, al)
      /\ Round(s, nd, al) = g[NUMBER_OF_CUSTOMERS]
  BY <1>a DEF IsRound
<1> DEFINE T == {k \in 0 .. NUMBER_OF_CUSTOMERS : g[k] \in G}
<1>2. 0 \in T
  BY <1>1, CustomersAre
<1>3. ASSUME NEW k \in 1 .. NUMBER_OF_CUSTOMERS, k - 1 \in T
      PROVE  k \in T
  <2>1. k - 1 \in Customers /\ k \in 0 .. NUMBER_OF_CUSTOMERS
    BY CustomersAre DEF Customers
  <2> QED BY <1>1, <1>3, <2>1
<1> HIDE DEF T
<1>4. 0 .. NUMBER_OF_CUSTOMERS \subseteq T
  BY <1>2, <1>3, CustomersAre, BoundedInduction
<1>5. NUMBER_OF_CUSTOMERS \in T
  BY <1>4, CustomersAre
<1> QED BY <1>1, <1>5 DEF T

(* A round that starts when i's need can be met, because those of P have   *)
(* finished, ends with i finished too; and nobody's finish is undone.      *)
CanFinish(i, P, s, G, nd, al) ==
    /\ G \in SUBSET States
    /\ \A t \in G : \A j \in Customers : Tried(t, j, nd, al) \in G
    /\ P \in SUBSET Customers /\ i \in Customers
    /\ \A t \in G : P \subseteq t.finish => no_greater_than(nd[i], t.work)
    /\ s \in G /\ P \subseteq s.finish

LEMMA RoundFinishes ==
    ASSUME NEW nd, NEW al \in [Customers -> Vectors], NEW G, NEW P, NEW i, NEW s,
           CanFinish(i, P, s, G, nd, al)
    PROVE  P \cup {i} \subseteq Round(s, nd, al).finish
<1>a. /\ G \in SUBSET States
      /\ \A t \in G : \A j \in Customers : Tried(t, j, nd, al) \in G
      /\ P \in SUBSET Customers /\ i \in Customers
      /\ \A t \in G : P \subseteq t.finish => no_greater_than(nd[i], t.work)
      /\ s \in G /\ P \subseteq s.finish
  BY DEF CanFinish
<1>0. s \in States
  BY <1>a
<1>b. PICK g : IsRound(g, s, nd, al)
  BY <1>0, RoundIs
<1>1. /\ g \in [0 .. NUMBER_OF_CUSTOMERS -> States]
      /\ g[0] = s
      /\ \A k \in 1 .. NUMBER_OF_CUSTOMERS : g[k] = Tried(g[k - 1], k - 1, nd, al)
      /\ Round(s, nd, al) = g[NUMBER_OF_CUSTOMERS]
  BY <1>b DEF IsRound
<1> DEFINE N == NUMBER_OF_CUSTOMERS
<1> DEFINE T == {k \in 0 .. N : g[k] \in G /\ P \subseteq g[k].finish
                                   /\ (i < k => i \in g[k].finish)}
<1>2. N \in Nat /\ N > 0 /\ Customers = 0 .. N - 1
  BY CustomersAre DEF Customers
<1>3. 0 \in T
  BY <1>a, <1>1, <1>2
<1>4. ASSUME NEW k \in 1 .. N, k - 1 \in T
      PROVE  k \in T
  <2>1. k - 1 \in Customers /\ k \in 0 .. N /\ k - 1 \in 0 .. N
    BY <1>2
  <2>2. g[k] = Tried(g[k - 1], k - 1, nd, al) /\ g[k] \in G
    BY <1>a, <1>1, <1>4, <2>1
  <2>3. g[k - 1].finish \subseteq g[k].finish
    BY <2>2 DEF Tried
  <2>4. P \subseteq g[k].finish
    BY <1>4, <2>3
  <2>5. ASSUME i < k
        PROVE  i \in g[k].finish
    <3>1. CASE i < k - 1
      BY <1>4, <2>3, <3>1
    <3>2. CASE i = k - 1
      <4>1. no_greater_than(nd[i], g[k - 1].work)
        BY <1>a, <1>4
      <4> QED BY <2>2, <3>2, <4>1 DEF Tried
    <3> QED BY <1>a, <1>2, <2>5, <3>1, <3>2
  <2> QED BY <2>1, <2>2, <2>4, <2>5
<1> HIDE DEF T
<1>5. 0 .. N \subseteq T
  BY <1>2, <1>3, <1>4, BoundedInduction
<1>6. N \in T /\ i < N
  BY <1>a, <1>2, <1>5
<1> QED BY <1>1, <1>6 DEF T

(* The loop over the rounds. *)
LEMMA RoundsAre ==
    ASSUME NEW nd, NEW al \in [Customers -> Vectors], NEW av \in Amounts
    PROVE  /\ Rounds(av, nd, al)[0] = [work |-> av, finish |-> {}]
           /\ \A n \in 1 .. NUMBER_OF_CUSTOMERS :
                 Rounds(av, nd, al)[n] = Round(Rounds(av, nd, al)[n - 1], nd, al)
<1> DEFINE N == NUMBER_OF_CUSTOMERS
           d == [work |-> av, finish |-> {}]
           h == [n \in 1 .. N |-> [s \in States |-> Round(s, nd, al)]]
           Eq(f) == f = [n \in 0 .. N |-> IF n = 0 THEN d ELSE Round(f[n - 1], nd, al)]
<1>1. N \in Nat
  BY CustomersAre
<1>2. \A s \in States : Round(s, nd, al) \in States
  <2>1. \A s \in States : \A i \in Customers : Tried(s, i, nd, al) \in States
    BY TriedIsState
  <2> QED BY <2>1, RoundKeeps
<1>3. d \in States
  BY DEF States
<1>4. h \in [1 .. N -> [States -> States]]
  BY <1>2
<1>5. PICK f \in [0 .. N -> States] : f[0] = d /\ \A k \in 1 .. N : f[k] = h[k][f[k - 1]]
  <2> HIDE DEF h, d
  <2>1. CanIterate(N, States, d, h)
    BY <1>1, <1>3, <1>4 DEF CanIterate
  <2> QED BY <2>1, Recursion DEF IsIteration
<1>6. \A k \in 1 .. N : f[k] = Round(f[k - 1], nd, al)
  <2> SUFFICES ASSUME NEW k \in 1 .. N
               PROVE  f[k] = Round(f[k - 1], nd, al)
    OBVIOUS
  <2>1. f[k - 1] \in States
    BY <1>1
  <2> QED BY <1>5, <2>1
<1>7. Eq(f)
  <2> HIDE DEF d
  <2>1. \A n \in 0 .. N : f[n] = IF n = 0 THEN d ELSE Round(f[n - 1], nd, al)
    <3> SUFFICES ASSUME NEW n \in 0 .. N
                 PROVE  f[n] = IF n = 0 THEN d ELSE Round(f[n - 1], nd, al)
      OBVIOUS
    <3>1. CASE n = 0
      BY <1>5, <3>1
    <3>2. CASE n # 0
      <4>1. n \in 1 .. N
        BY <1>1, <3>2
      <4> QED BY <1>6, <3>2, <4>1
    <3> QED BY <3>1, <3>2
  <2> QED BY <1>5, <2>1
<1>8. Eq(Rounds(av, nd, al))
  BY <1>7 DEF Rounds
<1> DEFINE r == Rounds(av, nd, al)
<1> HIDE DEF r, d
<1>9. r = [n \in 0 .. N |-> IF n = 0 THEN d ELSE Round(r[n - 1], nd, al)]
  BY <1>8 DEF r
<1>10. 0 \in 0 .. N /\ \A n \in 1 .. N : n \in 0 .. N /\ n # 0
  BY <1>1
<1>11. r[0] = d /\ \A n \in 1 .. N : r[n] = Round(r[n - 1], nd, al)
  BY <1>9, <1>10
<1> QED BY <1>11 DEF r, d

-----------------------------------------------------------------------------
(* What is held *)

LEMMA HeldAdds ==
    ASSUME NEW al \in [Customers -> Vectors], NEW j \in Resources
    PROVE  /\ Held(al, {}, j) = 0
           /\ \A S \in SUBSET Customers :
                 /\ Held(al, S, j) \in Int
                 /\ \A c \in S : Held(al, S, j) = al[c][j] + Held(al, S \ {c}, j)
<1> DEFINE f == [c \in Customers |-> al[c][j]]
<1>1. \A c \in Customers : f[c] = al[c][j] /\ f[c] \in Int
  BY DEF Vectors
<1> HIDE DEF f
<1>2. /\ SumFunctionOnSet(f, {}) = 0
      /\ \A Y \in SUBSET Customers :
            /\ SumFunctionOnSet(f, Y) \in Int
            /\ \A y \in Y : SumFunctionOnSet(f, Y) = f[y] + SumFunctionOnSet(f, Y \ {y})
  BY <1>1, CustomersAre, SumAdd
<1>3. \A S : Held(al, S, j) = SumFunctionOnSet(f, S)
  BY DEF Held, f
<1> QED BY <1>1, <1>2, <1>3

LEMMA HeldGrows ==
    ASSUME NEW al \in [Customers -> Vectors], NEW j \in Resources,
           NEW S \in SUBSET Customers, NEW P \in SUBSET S
    PROVE  Held(al, P, j) <= Held(al, S, j)
<1> DEFINE f == [c \in Customers |-> al[c][j]]
<1>1. \A c \in S : f[c] \in Nat
  BY DEF Vectors
<1>2. IsFiniteSet(S)
  BY CustomersAre, FS_Subset
<1> HIDE DEF f
<1>3. SumFunctionOnSet(f, P) <= SumFunctionOnSet(f, S)
  BY <1>1, <1>2, SumGrows
<1> QED BY <1>3 DEF Held, f

(* What is held of a resource when customer c's share of it becomes v. *)
ShareChanges(new, al, c, v) ==
    /\ al \in [Customers -> Vectors] /\ c \in Customers /\ v \in Vectors
    /\ new = [al EXCEPT ![c] = v]

LEMMA HeldChanges ==
    ASSUME NEW al, NEW c, NEW v, NEW new, ShareChanges(new, al, c, v),
           NEW j \in Resources, NEW S \in SUBSET Customers
    PROVE  /\ c \in S => Held(new, S, j) = Held(al, S, j) - al[c][j] + v[j]
           /\ c \notin S => Held(new, S, j) = Held(al, S, j)
<1>0. /\ al \in [Customers -> Vectors] /\ c \in Customers /\ v \in Vectors
      /\ new \in [Customers -> Vectors] /\ new[c] = v /\ \A i \in Customers \ {c} : new[i] = al[i]
  BY DEF ShareChanges
<1>1. ASSUME NEW P \in SUBSET Customers, c \notin P
      PROVE  Held(new, P, j) = Held(al, P, j)
  <2> DEFINE f == [i \in Customers |-> al[i][j]]
             g == [i \in Customers |-> new[i][j]]
  <2>1. \A i \in P : f[i] \in Int /\ g[i] = f[i]
    BY <1>0, <1>1 DEF Vectors
  <2>2. IsFiniteSet(P)
    BY CustomersAre, FS_Subset
  <2> HIDE DEF f, g
  <2>3. SumFunctionOnSet(f, P) = SumFunctionOnSet(g, P)
    BY <2>1, <2>2, SumSame
  <2> QED BY <2>3 DEF Held, f, g
<1>2. ASSUME c \in S
      PROVE  Held(new, S, j) = Held(al, S, j) - al[c][j] + v[j]
  <2>1. Held(new, S, j) = new[c][j] + Held(new, S \ {c}, j)
    BY <1>0, <1>2, HeldAdds
  <2>2. Held(al, S, j) = al[c][j] + Held(al, S \ {c}, j)
    BY <1>0, <1>2, HeldAdds
  <2>3. Held(new, S \ {c}, j) = Held(al, S \ {c}, j)
    BY <1>0, <1>1
  <2>4. Held(al, S \ {c}, j) \in Int /\ Held(al, S, j) \in Int
    BY <1>0, HeldAdds
  <2>5. al[c][j] \in Int /\ v[j] \in Int
    BY <1>0 DEF Vectors
  <2> QED BY <1>0, <2>1, <2>2, <2>3, <2>4, <2>5
<1> QED BY <1>1, <1>2

-----------------------------------------------------------------------------
(* The test is exact *)

(* The loop is right about work: it is what is available and what those    *)
(* that have finished hold.                                                *)
Conserving(av, al) ==
    {s \in States : \A j \in Resources : s.work[j] = av[j] + Held(al, s.finish, j)}

LEMMA WorkIsConserved ==
    ASSUME NEW nd, NEW al \in [Customers -> Vectors], NEW av \in Amounts,
           NEW s \in Conserving(av, al), NEW i \in Customers
    PROVE  Tried(s, i, nd, al) \in Conserving(av, al)
<1> DEFINE t == Tried(s, i, nd, al)
<1>1. s \in States /\ \A j \in Resources : s.work[j] = av[j] + Held(al, s.finish, j)
  BY DEF Conserving
<1>2. t \in States
  BY <1>1, TriedIsState
<1>3. CASE t = s
  BY <1>3
<1>4. CASE t # s
  <2>1. /\ i \notin s.finish
        /\ t.work = plus(s.work, al[i])
        /\ t.finish = s.finish \cup {i}
    BY <1>4 DEF Tried
  <2> HIDE DEF t
  <2>2. ASSUME NEW j \in Resources
        PROVE  t.work[j] = av[j] + Held(al, t.finish, j)
    <3>1. s.finish \in SUBSET Customers /\ s.work \in Amounts
      BY <1>1 DEF States
    <3>2. Held(al, t.finish, j) = al[i][j] + Held(al, t.finish \ {i}, j)
      BY <1>2, <2>1, HeldAdds DEF States
    <3>3. t.finish \ {i} = s.finish
      BY <2>1
    <3>4. t.work[j] = s.work[j] + al[i][j]
      BY <2>1 DEF plus
    <3>5. Held(al, s.finish, j) \in Int
      BY <3>1, HeldAdds
    <3>6. al[i][j] \in Int /\ av[j] \in Int
      BY DEF Vectors, Amounts
    <3>7. s.work[j] = av[j] + Held(al, s.finish, j)
      BY <1>1
    <3>8. t.work[j] = (av[j] + Held(al, s.finish, j)) + al[i][j]
      BY <3>4, <3>7
    <3>9. av[j] + Held(al, t.finish, j) = av[j] + (al[i][j] + Held(al, s.finish, j))
      BY <3>2, <3>3
    <3> QED BY <3>5, <3>6, <3>8, <3>9
  <2>3. t \in Conserving(av, al)
    BY <1>2, <2>2 DEF Conserving
  <2> QED BY <2>3 DEF t
<1> QED BY <1>3, <1>4

LEMMA NothingIsHeld ==
    ASSUME NEW al \in [Customers -> Vectors], NEW av \in Amounts
    PROVE  [work |-> av, finish |-> {}] \in Conserving(av, al)
<1>1. [work |-> av, finish |-> {}] \in States
  BY DEF States
<1>2. \A j \in Resources : av[j] = av[j] + Held(al, {}, j)
  BY HeldAdds DEF Amounts
<1> QED BY <1>1, <1>2 DEF Conserving

(* The loop is right about the customers: those that have finished could   *)
(* finish in the order in which it found them.                             *)
Ordered(order, m, F, av, nd, al) ==
    /\ order \in [1 .. m -> Customers]
    /\ \A k, l \in 1 .. m : order[k] = order[l] => k = l
    /\ \A k \in 1 .. m : order[k] \in F
    /\ \A c \in F : \E k \in 1 .. m : order[k] = c
    /\ \A k \in 1 .. m : \A j \in Resources :
          nd[order[k]][j] <= av[j] + Held(al, {order[l] : l \in 1 .. k - 1}, j)

Found(av, nd, al) ==
    {s \in Conserving(av, al) : \E order : Ordered(order, Cardinality(s.finish), s.finish, av, nd, al)}

LEMMA OrderGrows ==
    ASSUME NEW nd, NEW al \in [Customers -> Vectors], NEW av \in Amounts,
           NEW s \in Found(av, nd, al), NEW i \in Customers
    PROVE  Tried(s, i, nd, al) \in Found(av, nd, al)
<1> DEFINE t == Tried(s, i, nd, al)
<1>1. /\ s \in Conserving(av, al) /\ s \in States
      /\ s.finish \in SUBSET Customers
      /\ \A j \in Resources : s.work[j] = av[j] + Held(al, s.finish, j)
  BY DEF Found, Conserving, States
<1>2. t \in Conserving(av, al)
  BY <1>1, WorkIsConserved
<1>3. CASE t = s
  BY <1>3
<1>4. CASE t # s
  <2>1. /\ i \notin s.finish
        /\ no_greater_than(nd[i], s.work)
        /\ t.finish = s.finish \cup {i}
    BY <1>4 DEF Tried
  <2> HIDE DEF t
  <2> DEFINE m == Cardinality(s.finish)
  <2>2. m \in Nat /\ Cardinality(t.finish) = m + 1
    <3>1. IsFiniteSet(s.finish)
      BY <1>1, CustomersAre, FS_Subset
    <3> QED BY <2>1, <3>1, FS_CardinalityType, FS_AddElement
  <2> HIDE DEF m
  <2>3. PICK order : Ordered(order, m, s.finish, av, nd, al)
    BY DEF Found, m
  <2> DEFINE o == [k \in 1 .. m + 1 |-> IF k = m + 1 THEN i ELSE order[k]]
  <2>4. /\ o[m + 1] = i
        /\ \A k \in 1 .. m : o[k] = order[k] /\ order[k] \in s.finish
    BY <2>2, <2>3 DEF Ordered
  <2>5. \A k \in 1 .. m + 1 : k \in 1 .. m \/ k = m + 1
    BY <2>2
  <2>6. 1 .. m \subseteq 1 .. m + 1 /\ m + 1 \in 1 .. m + 1
    BY <2>2
  <2>7. DOMAIN o = 1 .. m + 1 /\ o = [k \in 1 .. m + 1 |-> o[k]]
    OBVIOUS
  <2> HIDE DEF o
  <2>8. o \in [1 .. m + 1 -> Customers]
    BY <1>1, <2>4, <2>5, <2>7
  <2>9. ASSUME NEW k \in 1 .. m + 1, NEW l \in 1 .. m + 1, o[k] = o[l]
        PROVE  k = l
    BY <2>1, <2>3, <2>4, <2>5, <2>9 DEF Ordered
  <2>10. \A k \in 1 .. m + 1 : o[k] \in t.finish
    BY <2>1, <2>4, <2>5
  <2>11. \A c \in t.finish : \E k \in 1 .. m + 1 : o[k] = c
    <3> SUFFICES ASSUME NEW c \in t.finish
                 PROVE  \E k \in 1 .. m + 1 : o[k] = c
      OBVIOUS
    <3>1. CASE c = i
      BY <2>4, <2>6, <3>1
    <3>2. CASE c \in s.finish
      <4>1. PICK k \in 1 .. m : order[k] = c
        BY <2>3, <3>2 DEF Ordered
      <4> QED BY <2>4, <2>6, <4>1
    <3> QED BY <2>1, <3>1, <3>2
  <2>12. ASSUME NEW k \in 1 .. m + 1, NEW j \in Resources
         PROVE  nd[o[k]][j] <= av[j] + Held(al, {o[l] : l \in 1 .. k - 1}, j)
    <3>1. CASE k \in 1 .. m
      <4>1. \A l \in 1 .. k - 1 : l \in 1 .. m
        BY <2>2, <3>1
      <4>2. {o[l] : l \in 1 .. k - 1} = {order[l] : l \in 1 .. k - 1}
        BY <2>4, <4>1
      <4> QED BY <2>3, <2>4, <3>1, <4>2 DEF Ordered
    <3>2. CASE k = m + 1
      <4>1. 1 .. k - 1 = 1 .. m
        BY <2>2, <3>2
      <4>2. {o[l] : l \in 1 .. m} = s.finish
        BY <2>3, <2>4 DEF Ordered
      <4>3. nd[i][j] <= s.work[j]
        BY <2>1 DEF no_greater_than
      <4> QED BY <1>1, <2>4, <3>2, <4>1, <4>2, <4>3
    <3> QED BY <2>5, <3>1, <3>2
  <2>13. Ordered(o, m + 1, t.finish, av, nd, al)
    BY <2>8, <2>9, <2>10, <2>11, <2>12 DEF Ordered
  <2>14. t \in Found(av, nd, al)
    BY <1>2, <2>2, <2>13 DEF Found
  <2> QED BY <2>14 DEF t
<1> QED BY <1>3, <1>4

(* If the loop finishes everybody, the state it was given is safe. *)
LEMMA Soundness ==
    ASSUME NEW nd, NEW al \in [Customers -> Vectors], NEW av \in Amounts,
           Rounds(av, nd, al)[NUMBER_OF_CUSTOMERS].finish = Customers
    PROVE  SafeState(av, nd, al)
<1> DEFINE N == NUMBER_OF_CUSTOMERS
           G == Found(av, nd, al)
           r == Rounds(av, nd, al)
           T == {n \in 0 .. N : r[n] \in G}
<1>1. r[0] = [work |-> av, finish |-> {}] /\ \A n \in 1 .. N : r[n] = Round(r[n - 1], nd, al)
  BY RoundsAre
<1>2. N \in Nat /\ Cardinality(Customers) = N
  BY CustomersAre
<1>3. G \in SUBSET States /\ \A s \in G : \A i \in Customers : Tried(s, i, nd, al) \in G
  <2>1. G \in SUBSET States
    BY DEF Found, Conserving
  <2>2. \A s \in G : \A i \in Customers : Tried(s, i, nd, al) \in G
    BY OrderGrows
  <2> QED BY <2>1, <2>2
<1>4. [work |-> av, finish |-> {}] \in G
  <2> DEFINE s == [work |-> av, finish |-> {}]
  <2>1. s \in Conserving(av, al)
    BY NothingIsHeld
  <2>2. s.finish = {} /\ Cardinality({}) = 0
    BY FS_EmptySet
  <2>3. Ordered([k \in 1 .. 0 |-> 0], 0, {}, av, nd, al)
    <3>1. 1 .. 0 = {}
      OBVIOUS
    <3> QED BY <3>1 DEF Ordered
  <2> HIDE DEF s
  <2>4. s \in G
    BY <2>1, <2>2, <2>3 DEF Found
  <2> QED BY <2>4 DEF s
<1> HIDE DEF r, G
<1>5. 0 \in T
  BY <1>1, <1>2, <1>4
<1>6. ASSUME NEW n \in 1 .. N, n - 1 \in T
      PROVE  n \in T
  <2>1. r[n - 1] \in G /\ r[n] = Round(r[n - 1], nd, al) /\ n \in 0 .. N
    BY <1>1, <1>2, <1>6
  <2> QED BY <1>3, <2>1, RoundKeeps
<1> HIDE DEF T
<1>7. 0 .. N \subseteq T
  BY <1>2, <1>5, <1>6, BoundedInduction
<1>8. r[N] \in G
  BY <1>2, <1>7 DEF T
<1>9. PICK order : Ordered(order, N, Customers, av, nd, al)
  BY <1>2, <1>8 DEF G, Found, r
<1> QED BY <1>9 DEF Ordered, SafeState

(* If the state the loop is given is safe, it finishes everybody: round n  *)
(* finishes at the latest the customer that is n-th in the safe order.     *)
LEMMA Completeness ==
    ASSUME NEW nd, NEW al \in [Customers -> Vectors], NEW av \in Amounts,
           nd \in [Customers -> Vectors],
           SafeState(av, nd, al)
    PROVE  Rounds(av, nd, al)[NUMBER_OF_CUSTOMERS].finish = Customers
<1> DEFINE N == NUMBER_OF_CUSTOMERS
           G == Conserving(av, al)
           r == Rounds(av, nd, al)
<1>1. PICK order \in [1 .. N -> Customers] :
          /\ \A k, l \in 1 .. N : order[k] = order[l] => k = l
          /\ \A k \in 1 .. N : \A j \in Resources :
                nd[order[k]][j] <= av[j] + Held(al, {order[l] : l \in 1 .. k - 1}, j)
  BY DEF SafeState
<1>2. r[0] = [work |-> av, finish |-> {}] /\ \A n \in 1 .. N : r[n] = Round(r[n - 1], nd, al)
  BY RoundsAre
<1>3. N \in Nat /\ Cardinality(Customers) = N /\ IsFiniteSet(Customers)
  BY CustomersAre
<1>4. G \in SUBSET States /\ \A s \in G : \A i \in Customers : Tried(s, i, nd, al) \in G
  <2>1. G \in SUBSET States
    BY DEF Conserving
  <2>2. \A s \in G : \A i \in Customers : Tried(s, i, nd, al) \in G
    BY WorkIsConserved
  <2> QED BY <2>1, <2>2
<1> DEFINE First(n) == {order[l] : l \in 1 .. n}
           T == {n \in 0 .. N : r[n] \in G /\ First(n) \subseteq r[n].finish}
<1>5. 0 \in T
  <2>1. First(0) = {} /\ 0 \in 0 .. N
    BY <1>3
  <2>2. r[0] \in G
    BY <1>2, NothingIsHeld
  <2> QED BY <2>1, <2>2
<1> HIDE DEF r
<1>6. ASSUME NEW n \in 1 .. N, n - 1 \in T
      PROVE  n \in T
  <2>1. n \in 0 .. N /\ n - 1 \in 0 .. N /\ \A l \in 1 .. n - 1 : l \in 1 .. N
    BY <1>3
  <2>2. First(n - 1) \in SUBSET Customers /\ order[n] \in Customers
    BY <2>1
  <2>3. ASSUME NEW s \in G, First(n - 1) \subseteq s.finish
        PROVE  no_greater_than(nd[order[n]], s.work)
    <3> SUFFICES ASSUME NEW j \in Resources
                 PROVE  nd[order[n]][j] <= s.work[j]
      BY DEF no_greater_than
    <3>1. s.finish \in SUBSET Customers /\ s.work[j] = av[j] + Held(al, s.finish, j)
      BY DEF Conserving, States
    <3>2. nd[order[n]][j] <= av[j] + Held(al, First(n - 1), j)
      BY <1>1
    <3> DEFINE P == First(n - 1)
    <3> HIDE DEF First
    <3>3. Held(al, P, j) <= Held(al, s.finish, j)
      BY <2>3, <3>1, HeldGrows
    <3>4. Held(al, P, j) \in Int /\ Held(al, s.finish, j) \in Int
      BY <2>2, <3>1, HeldAdds
    <3>5. av[j] \in Int /\ nd[order[n]][j] \in Int
      BY <2>2 DEF Amounts, Vectors
    <3> QED BY <3>1, <3>2, <3>3, <3>4, <3>5
  <2>4. r[n - 1] \in G /\ r[n] = Round(r[n - 1], nd, al) /\ First(n - 1) \subseteq r[n - 1].finish
    BY <1>2, <1>6
  <2>5. First(n) = First(n - 1) \cup {order[n]}
    <3>1. \A l \in 1 .. n : l \in 1 .. n - 1 \/ l = n
      BY <1>3
    <3>2. n \in 1 .. n /\ \A l \in 1 .. n - 1 : l \in 1 .. n
      BY <1>3
    <3> QED BY <3>1, <3>2
  <2> HIDE DEF G, First
  <2>6. r[n] \in G
    BY <1>4, <2>4, RoundKeeps
  <2>7. First(n - 1) \cup {order[n]} \subseteq r[n].finish
    <3> DEFINE P == First(n - 1)
               i == order[n]
               s == r[n - 1]
    <3>1. CanFinish(i, P, s, G, nd, al)
      BY <1>4, <2>2, <2>3, <2>4 DEF CanFinish
    <3> HIDE DEF P, i, s
    <3>2. P \cup {i} \subseteq Round(s, nd, al).finish
      BY <3>1, RoundFinishes
    <3> QED BY <2>4, <3>2 DEF P, i, s
  <2> QED BY <2>1, <2>5, <2>6, <2>7
<1> HIDE DEF T
<1>7. 0 .. N \subseteq T
  BY <1>3, <1>5, <1>6, BoundedInduction
<1>8. r[N] \in G /\ First(N) \subseteq r[N].finish
  BY <1>3, <1>7 DEF T
<1>9. Customers \subseteq First(N)
  <2> SUFFICES ASSUME NEW c \in Customers, c \notin First(N)
               PROVE  FALSE
    OBVIOUS
  <2>1. order \in [1 .. N -> Customers \ {c}]
    OBVIOUS
  <2>2. IsFiniteSet(1 .. N) /\ Cardinality(1 .. N) = N
    BY <1>3, FS_Interval
  <2>3. IsFiniteSet(Customers \ {c}) /\ Cardinality(Customers \ {c}) = N - 1
    BY <1>3, FS_RemoveElement
  <2>4. \E k, l \in 1 .. N : k # l /\ order[k] = order[l]
    BY <1>3, <2>1, <2>2, <2>3, FS_PigeonHole
  <2> QED BY <1>1, <2>4
<1>10. r[N].finish \in SUBSET Customers
  BY <1>8 DEF Conserving, States
<1> QED BY <1>8, <1>9, <1>10 DEF r

LEMMA PartsAreVectors == Parts \subseteq Vectors
<1> SUFFICES ASSUME NEW d \in Demands,
                    NEW r \in [Resources -> UNION {0 .. d[j] : j \in Resources}]
             PROVE  r \in Vectors
  BY DEF Parts
<1>1. d \in [Resources -> Nat]
  BY ConstantsAssumption DEF Vectors
<1>2. UNION {0 .. d[j] : j \in Resources} \subseteq Nat
  BY <1>1
<1> QED BY <1>2 DEF Vectors

(* What a grant makes of the bank, the test's and the command's alike. *)
LEMMA GrantTypes ==
    ASSUME TypeOK, NEW c \in Customers, NEW r \in Vectors, no_greater_than(r, need[c])
    PROVE  /\ minus(available, r) \in Amounts
           /\ [need EXCEPT ![c] = minus(@, r)] \in [Customers -> Vectors]
           /\ [allocation EXCEPT ![c] = plus(@, r)] \in [Customers -> Vectors]
<1>1. minus(available, r) \in Amounts
  BY DEF TypeOK, Vectors, Amounts, minus
<1>2. minus(need[c], r) \in Vectors
  <2>1. need[c] \in Vectors
    BY DEF TypeOK
  <2>2. \A j \in Resources : need[c][j] - r[j] \in Nat
    BY <2>1 DEF no_greater_than, Vectors
  <2> QED BY <2>2 DEF minus, Vectors
<1>3. plus(allocation[c], r) \in Vectors
  BY DEF TypeOK, Vectors, plus
<1> QED BY <1>1, <1>2, <1>3 DEF TypeOK

LEMMA TestTells ==
    ASSUME TypeOK, NEW c \in Customers, NEW r \in Vectors, no_greater_than(r, need[c])
    PROVE  is_safe(bank, c, r).safe
             <=> SafeState(minus(available, r), [need EXCEPT ![c] = minus(@, r)],
                           [allocation EXCEPT ![c] = plus(@, r)])
<1> DEFINE av == minus(available, r)
           nd == [need EXCEPT ![c] = minus(@, r)]
           al == [allocation EXCEPT ![c] = plus(@, r)]
<1>1. av \in Amounts /\ nd \in [Customers -> Vectors] /\ al \in [Customers -> Vectors]
  BY GrantTypes
<1>2. allocate_resources(bank, c, r) = [available |-> av, allocation |-> al, need |-> nd]
  BY DEF allocate_resources, bank
<1> HIDE DEF av, nd, al
<1>3. AllFinish(allocate_resources(bank, c, r))
        <=> Rounds(av, nd, al)[NUMBER_OF_CUSTOMERS].finish = Customers
  BY <1>2, SafeIsLast
<1>4. AllFinish(allocate_resources(bank, c, r)) <=> SafeState(av, nd, al)
  BY <1>1, <1>3, Soundness, Completeness
<1>5. is_safe(bank, c, r).safe <=> AllFinish(allocate_resources(bank, c, r))
  BY DEF is_safe
<1> QED BY <1>4, <1>5 DEF av, nd, al

(* A table whose entry is changed and changed back. *)
LEMMA UpdateTakenBack ==
    ASSUME NEW S, NEW V, NEW f \in [S -> V], NEW c \in S, NEW x, NEW g,
           g = [f EXCEPT ![c] = x]
    PROVE  [g EXCEPT ![c] = f[c]] = f /\ g[c] = x
OBVIOUS

(* The test has allocated the request in all three tables and takes it     *)
(* back from all three, whether it succeeded or not.                       *)
LEMMA TestIsUndone ==
    ASSUME TypeOK, NEW c \in Customers, NEW r \in Vectors
    PROVE  is_safe(bank, c, r).bank = bank
<1> DEFINE granted == allocate_resources(bank, c, r)
           undone == deallocate_resources(granted, c, r)
<1>1. /\ available \in Vectors /\ need[c] \in Vectors /\ allocation[c] \in Vectors
      /\ need \in [Customers -> Vectors] /\ allocation \in [Customers -> Vectors]
  BY DEF TypeOK
<1>2. ASSUME NEW v \in Vectors
      PROVE  plus(minus(v, r), r) = v /\ minus(plus(v, r), r) = v
  <2>1. \A j \in Resources : (v[j] - r[j]) + r[j] = v[j] /\ (v[j] + r[j]) - r[j] = v[j]
    BY DEF Vectors
  <2>2. plus(minus(v, r), r) = [j \in Resources |-> v[j]]
    BY <2>1 DEF plus, minus
  <2>3. minus(plus(v, r), r) = [j \in Resources |-> v[j]]
    BY <2>1 DEF plus, minus
  <2> QED BY <2>2, <2>3 DEF Vectors
<1>3. granted = [available  |-> minus(available, r),
                 allocation |-> [allocation EXCEPT ![c] = plus(@, r)],
                 need       |-> [need EXCEPT ![c] = minus(@, r)]]
  BY DEF allocate_resources, bank
<1>4. undone = [available  |-> plus(granted.available, r),
                allocation |-> [granted.allocation EXCEPT ![c] = minus(@, r)],
                need       |-> [granted.need EXCEPT ![c] = plus(@, r)]]
  BY DEF deallocate_resources
<1>5. is_safe(bank, c, r).bank = undone
  BY DEF is_safe
<1> HIDE DEF granted, undone
<1>6. undone.available = available
  BY <1>1, <1>2, <1>3, <1>4
<1>7. undone.allocation = allocation
  <2>1. PICK a : a = granted.allocation
    OBVIOUS
  <2>2. a = [allocation EXCEPT ![c] = plus(@, r)] /\ undone.allocation = [a EXCEPT ![c] = minus(@, r)]
    BY <1>3, <1>4, <2>1
  <2>3. a[c] = plus(allocation[c], r) /\ minus(a[c], r) = allocation[c]
    BY <1>1, <1>2, <2>2
  <2>4. undone.allocation = [a EXCEPT ![c] = allocation[c]]
    BY <2>2, <2>3
  <2>5. a = [allocation EXCEPT ![c] = plus(allocation[c], r)]
    BY <2>2
  <2>6. [a EXCEPT ![c] = allocation[c]] = allocation
    BY <1>1, <2>5, UpdateTakenBack
  <2> QED BY <2>4, <2>6
<1>8. undone.need = need
  <2>1. PICK n : n = granted.need
    OBVIOUS
  <2>2. n = [need EXCEPT ![c] = minus(@, r)] /\ undone.need = [n EXCEPT ![c] = plus(@, r)]
    BY <1>3, <1>4, <2>1
  <2>3. n[c] = minus(need[c], r) /\ plus(n[c], r) = need[c]
    BY <1>1, <1>2, <2>2
  <2>4. undone.need = [n EXCEPT ![c] = need[c]]
    BY <2>2, <2>3
  <2>5. n = [need EXCEPT ![c] = minus(need[c], r)]
    BY <2>2
  <2>6. [n EXCEPT ![c] = need[c]] = need
    BY <1>1, <2>5, UpdateTakenBack
  <2> QED BY <2>4, <2>6
<1> QED BY <1>4, <1>5, <1>6, <1>7, <1>8 DEF bank

(* So that a request is granted, when its test succeeds, or changes        *)
(* nothing.                                                                *)
LEMMA RequestChanges ==
    ASSUME TypeOK, NEW c \in Customers, NEW r \in Vectors, request_resources(c, r)
    PROVE  \/ /\ is_safe(bank, c, r).safe
              /\ available' = minus(available, r)
              /\ need' = [need EXCEPT ![c] = minus(@, r)]
              /\ allocation' = [allocation EXCEPT ![c] = plus(@, r)]
           \/ UNCHANGED <<available, need, allocation>>
<1>1. is_safe(bank, c, r).bank = bank
  BY TestIsUndone
<1>2. BankBecomes(IF is_safe(bank, c, r).safe THEN allocate_resources(bank, c, r) ELSE bank)
  BY <1>1 DEF request_resources
<1>3. CASE is_safe(bank, c, r).safe
  BY <1>2, <1>3 DEF BankBecomes, allocate_resources, bank
<1>4. CASE ~is_safe(bank, c, r).safe
  BY <1>2, <1>4 DEF BankBecomes, bank
<1> QED BY <1>3, <1>4

-----------------------------------------------------------------------------
(* The bank *)

(* A safe state has nothing negative available: whoever finishes first     *)
(* finishes with that.                                                     *)
LEMMA SafeIsCovered ==
    ASSUME NEW av \in Amounts, NEW nd \in [Customers -> Vectors],
           NEW al \in [Customers -> Vectors], SafeState(av, nd, al)
    PROVE  av \in Vectors
<1>1. PICK order \in [1 .. NUMBER_OF_CUSTOMERS -> Customers] :
          \A k \in 1 .. NUMBER_OF_CUSTOMERS : \A j \in Resources :
             nd[order[k]][j] <= av[j] + Held(al, {order[l] : l \in 1 .. k - 1}, j)
  BY DEF SafeState
<1>2. 1 \in 1 .. NUMBER_OF_CUSTOMERS /\ {order[l] : l \in 1 .. 1 - 1} = {}
  BY CustomersAre
<1>3. ASSUME NEW j \in Resources
      PROVE  av[j] \in Nat
  <2>1. nd[order[1]][j] <= av[j] + Held(al, {}, j)
    BY <1>1, <1>2
  <2>2. Held(al, {}, j) = 0
    BY HeldAdds
  <2>3. av[j] \in Int /\ nd[order[1]][j] \in Nat
    BY <1>2 DEF Amounts, Vectors
  <2> QED BY <2>1, <2>2, <2>3
<1> QED BY <1>3 DEF Amounts, Vectors

LEMMA InitConserves ==
    ASSUME Init
    PROVE  ResourcesConserved /\ AlwaysSafe
<1>1. \A c \in Customers : maximum[c] \in Vectors
  BY ConstantsAssumption DEF Init
<1>2. allocation \in [Customers -> Vectors] /\ \A c \in Customers, j \in Resources : allocation[c][j] = 0
  BY DEF Init, Vectors
<1>3. total \in Vectors /\ available = total /\ need = maximum /\ DOMAIN maximum = Customers
  BY ConstantsAssumption DEF Init
<1>4. maximum \in [Customers -> Vectors]
  BY ConstantsAssumption DEF Init
<1>5. TypeOK
  BY <1>2, <1>3, <1>4 DEF Init, TypeOK
<1>6. ASSUME NEW j \in Resources
      PROVE  available[j] + Held(allocation, Customers, j) = total[j]
  <2> DEFINE T == {S \in SUBSET Customers : Held(allocation, S, j) = 0}
  <2>1. {} \in T
    BY <1>2, HeldAdds
  <2>2. ASSUME NEW S \in SUBSET Customers, S # {}, \A c \in S : S \ {c} \in T
        PROVE  S \in T
    <3>1. PICK c : c \in S
      BY <2>2
    <3>2. Held(allocation, S, j) = allocation[c][j] + Held(allocation, S \ {c}, j)
      BY <1>2, <3>1, HeldAdds
    <3>3. allocation[c][j] = 0 /\ Held(allocation, S \ {c}, j) = 0
      BY <1>2, <2>2, <3>1
    <3> QED BY <3>2, <3>3
  <2> HIDE DEF T
  <2>3. SUBSET Customers \subseteq T
    BY <2>1, <2>2, CustomersAre, FiniteInduction
  <2>4. Held(allocation, Customers, j) = 0
    BY <2>3 DEF T
  <2>5. available[j] = total[j] /\ total[j] \in Nat
    BY <1>3 DEF Vectors
  <2> QED BY <2>4, <2>5
<1>7. ASSUME NEW c \in Customers
      PROVE  plus(need[c], allocation[c]) = maximum[c]
  <2>1. \A j \in Resources : need[c][j] + allocation[c][j] = maximum[c][j]
    BY <1>1, <1>2, <1>3 DEF Vectors
  <2> QED BY <1>1, <2>1 DEF plus, Vectors
<1> QED BY <1>2, <1>5, <1>6, <1>7 DEF ResourcesConserved, AlwaysSafe

LEMMA RequestConserves ==
    ASSUME ResourcesConserved, AlwaysSafe, NEW c \in Customers, NEW r \in Parts,
           request_resources(c, r)
    PROVE  (ResourcesConserved /\ AlwaysSafe)'
<1>1. TypeOK /\ r \in Vectors /\ no_greater_than(r, need[c])
  BY PartsAreVectors DEF ResourcesConserved, request_resources
<1>a. total' = total /\ maximum' = maximum /\ running' = running
  BY DEF request_resources
<1>b. CASE UNCHANGED <<available, need, allocation>>
  BY <1>a, <1>b DEF ResourcesConserved, AlwaysSafe, TypeOK
<1> SUFFICES ASSUME ~UNCHANGED <<available, need, allocation>>
             PROVE  (ResourcesConserved /\ AlwaysSafe)'
  BY <1>b
<1>2. /\ is_safe(bank, c, r).safe
      /\ available' = minus(available, r)
      /\ need' = [need EXCEPT ![c] = minus(@, r)]
      /\ allocation' = [allocation EXCEPT ![c] = plus(@, r)]
      /\ total' = total /\ maximum' = maximum /\ running' = running
  BY <1>1, <1>a, RequestChanges
<1>3. /\ available' \in Amounts
      /\ need' \in [Customers -> Vectors]
      /\ allocation' \in [Customers -> Vectors]
  BY <1>1, <1>2, GrantTypes
<1>4. SafeState(available', need', allocation')
  BY <1>1, <1>2, TestTells
<1>5. available' \in Vectors
  BY <1>3, <1>4, SafeIsCovered
<1>6. TypeOK'
  BY <1>1, <1>2, <1>3, <1>5 DEF TypeOK
<1>7. ASSUME NEW j \in Resources
      PROVE  available'[j] + Held(allocation', Customers, j) = total'[j]
  <2> DEFINE v == plus(allocation[c], r)
  <2>1. /\ allocation \in [Customers -> Vectors] /\ v \in Vectors
        /\ v[j] = allocation[c][j] + r[j]
        /\ available[j] \in Int /\ r[j] \in Int /\ allocation[c][j] \in Int
    BY <1>1 DEF TypeOK, Vectors, plus
  <2>2. ShareChanges(allocation', allocation, c, v)
    BY <1>2, <2>1 DEF ShareChanges
  <2> HIDE DEF v
  <2>3. Held(allocation', Customers, j) = Held(allocation, Customers, j) - allocation[c][j] + v[j]
    BY <2>2, HeldChanges
  <2>4. available'[j] = available[j] - r[j]
    BY <1>2 DEF minus
  <2>5. Held(allocation, Customers, j) \in Int
    BY <2>1, HeldAdds
  <2>6. available[j] + Held(allocation, Customers, j) = total[j]
    BY DEF ResourcesConserved
  <2>7. Held(allocation', Customers, j) = Held(allocation, Customers, j) + r[j]
    BY <2>1, <2>3, <2>5
  <2> QED BY <1>2, <2>1, <2>4, <2>5, <2>6, <2>7
<1>8. ASSUME NEW i \in Customers
      PROVE  plus(need'[i], allocation'[i]) = maximum'[i]
  <2>1. plus(need[i], allocation[i]) = maximum[i]
    BY DEF ResourcesConserved
  <2>2. CASE i = c
    <3>1. need'[c] = minus(need[c], r) /\ allocation'[c] = plus(allocation[c], r)
      BY <1>1, <1>2 DEF TypeOK
    <3>2. \A j \in Resources : (need[c][j] - r[j]) + (allocation[c][j] + r[j])
                                   = need[c][j] + allocation[c][j]
      BY <1>1 DEF TypeOK, Vectors
    <3> QED BY <1>2, <2>1, <2>2, <3>1, <3>2 DEF plus, minus
  <2>3. CASE i # c
    <3>1. need'[i] = need[i] /\ allocation'[i] = allocation[i]
      BY <1>1, <1>2, <2>3 DEF TypeOK
    <3> QED BY <1>2, <2>1, <3>1
  <2> QED BY <2>2, <2>3
<1> QED BY <1>4, <1>6, <1>7, <1>8 DEF ResourcesConserved, AlwaysSafe

(* A release leaves the order good: who comes after the customer finds as  *)
(* much, who comes before it finds more, and itself finds what more it     *)
(* needs.                                                                  *)
LEMMA ReleaseKeepsSafe ==
    ASSUME NEW av \in Vectors, NEW nd \in [Customers -> Vectors],
           NEW al \in [Customers -> Vectors], NEW c \in Customers, NEW r \in Vectors,
           no_greater_than(r, al[c]), SafeState(av, nd, al)
    PROVE  SafeState(plus(av, r), [nd EXCEPT ![c] = plus(@, r)], [al EXCEPT ![c] = minus(@, r)])
<1> DEFINE v == minus(al[c], r)
           av2 == plus(av, r)
           nd2 == [nd EXCEPT ![c] = plus(@, r)]
           al2 == [al EXCEPT ![c] = v]
<1>1. PICK order \in [1 .. NUMBER_OF_CUSTOMERS -> Customers] :
          /\ \A k, l \in 1 .. NUMBER_OF_CUSTOMERS : order[k] = order[l] => k = l
          /\ \A k \in 1 .. NUMBER_OF_CUSTOMERS : \A j \in Resources :
                nd[order[k]][j] <= av[j] + Held(al, {order[l] : l \in 1 .. k - 1}, j)
  BY DEF SafeState
<1>2. v \in Vectors
  <2>1. al[c] \in Vectors
    OBVIOUS
  <2>2. \A j \in Resources : al[c][j] - r[j] \in Nat
    BY <2>1 DEF no_greater_than, Vectors
  <2> QED BY <2>2 DEF minus, Vectors
<1>3. ASSUME NEW k \in 1 .. NUMBER_OF_CUSTOMERS, NEW j \in Resources
      PROVE  nd2[order[k]][j] <= av2[j] + Held(al2, {order[l] : l \in 1 .. k - 1}, j)
  <2> DEFINE P == {order[l] : l \in 1 .. k - 1}
             i == order[k]
  <2>1. P \in SUBSET Customers /\ i \in Customers
    <3>1. \A l \in 1 .. k - 1 : l \in 1 .. NUMBER_OF_CUSTOMERS
      BY CustomersAre
    <3> QED BY <3>1
  <2>2. c \in P => i # c
    <3>1. \A l \in 1 .. k - 1 : l \in 1 .. NUMBER_OF_CUSTOMERS /\ l # k
      BY CustomersAre
    <3> QED BY <1>1, <3>1
  <2>3. nd[i][j] <= av[j] + Held(al, P, j)
    BY <1>1
  <2>4. v[j] = al[c][j] - r[j] /\ av2[j] = av[j] + r[j]
    BY DEF minus, plus
  <2>5. /\ i # c => nd2[i][j] = nd[i][j]
        /\ i = c => nd2[i][j] = nd[i][j] + r[j]
    BY <2>1 DEF plus
  <2>6. /\ av[j] \in Nat /\ r[j] \in Nat /\ nd[i][j] \in Nat /\ al[c][j] \in Nat
        /\ Held(al, P, j) \in Int
    <3>1. Held(al, P, j) \in Int
      BY <2>1, HeldAdds
    <3> QED BY <2>1, <3>1 DEF Vectors
  <2> HIDE DEF P, i, av2, nd2, v
  <2>7. ShareChanges(al2, al, c, v)
    BY <1>2 DEF ShareChanges, al2
  <2>8. /\ c \in P => Held(al2, P, j) = Held(al, P, j) - al[c][j] + v[j]
        /\ c \notin P => Held(al2, P, j) = Held(al, P, j)
    BY <2>1, <2>7, HeldChanges
  <2> HIDE DEF al2
  <2>9. nd2[i][j] <= av2[j] + Held(al2, P, j)
    <3>1. CASE c \in P
      <4>1. Held(al2, P, j) = Held(al, P, j) - r[j]
        BY <2>4, <2>6, <2>8, <3>1
      <4>2. av2[j] + Held(al2, P, j) = av[j] + Held(al, P, j)
        BY <2>4, <2>6, <4>1
      <4>3. nd2[i][j] = nd[i][j]
        BY <2>2, <2>5, <3>1
      <4> QED BY <2>3, <4>2, <4>3
    <3>2. CASE c \notin P
      <4>1. av2[j] + Held(al2, P, j) = av[j] + Held(al, P, j) + r[j]
        BY <2>4, <2>6, <2>8, <3>2
      <4>2. nd2[i][j] <= nd[i][j] + r[j]
        BY <2>5, <2>6
      <4>3. nd2[i][j] \in Int
        BY <2>5, <2>6
      <4> QED BY <2>3, <2>6, <4>1, <4>2, <4>3
    <3> QED BY <3>1, <3>2
  <2> QED BY <2>9 DEF P, i
<1> HIDE DEF av2, nd2, al2
<1>4. SafeState(av2, nd2, al2)
  BY <1>1, <1>3 DEF SafeState
<1> QED BY <1>4 DEF av2, nd2, al2, v

LEMMA ReleaseConserves ==
    ASSUME ResourcesConserved, AlwaysSafe, NEW c \in Customers, NEW r \in Parts,
           release_resources(c, r)
    PROVE  (ResourcesConserved /\ AlwaysSafe)'
<1>1. TypeOK /\ r \in Vectors /\ no_greater_than(r, allocation[c])
  BY PartsAreVectors DEF ResourcesConserved, release_resources
<1>2. /\ available' = plus(available, r)
      /\ need' = [need EXCEPT ![c] = plus(@, r)]
      /\ allocation' = [allocation EXCEPT ![c] = minus(@, r)]
      /\ total' = total /\ maximum' = maximum /\ running' = running
  BY DEF release_resources, deallocate_resources, BankBecomes, bank
<1>3. allocation[c] \in Vectors /\ need[c] \in Vectors
  BY <1>1 DEF TypeOK
<1>4. minus(allocation[c], r) \in Vectors
  <2>1. \A j \in Resources : allocation[c][j] - r[j] \in Nat
    BY <1>1, <1>3 DEF no_greater_than, Vectors
  <2> QED BY <2>1 DEF minus, Vectors
<1>5. plus(need[c], r) \in Vectors /\ available' \in Vectors
  BY <1>1, <1>2, <1>3 DEF TypeOK, plus, Vectors
<1>6. TypeOK'
  BY <1>1, <1>2, <1>4, <1>5 DEF TypeOK
<1>7. ASSUME NEW j \in Resources
      PROVE  available'[j] + Held(allocation', Customers, j) = total'[j]
  <2> DEFINE v == minus(allocation[c], r)
  <2>1. /\ allocation \in [Customers -> Vectors]
        /\ v[j] = allocation[c][j] - r[j]
        /\ available[j] \in Int /\ r[j] \in Int /\ allocation[c][j] \in Int
    BY <1>1, <1>3 DEF TypeOK, Vectors, minus
  <2>2. ShareChanges(allocation', allocation, c, v)
    BY <1>2, <1>4, <2>1 DEF ShareChanges
  <2> HIDE DEF v
  <2>3. Held(allocation', Customers, j) = Held(allocation, Customers, j) - allocation[c][j] + v[j]
    BY <2>2, HeldChanges
  <2>4. available'[j] = available[j] + r[j]
    BY <1>2 DEF plus
  <2>5. Held(allocation, Customers, j) \in Int
    BY <2>1, HeldAdds
  <2>6. available[j] + Held(allocation, Customers, j) = total[j]
    BY DEF ResourcesConserved
  <2>7. Held(allocation', Customers, j) = Held(allocation, Customers, j) - r[j]
    BY <2>1, <2>3, <2>5
  <2> QED BY <1>2, <2>1, <2>4, <2>5, <2>6, <2>7
<1>8. ASSUME NEW i \in Customers
      PROVE  plus(need'[i], allocation'[i]) = maximum'[i]
  <2>1. plus(need[i], allocation[i]) = maximum[i]
    BY DEF ResourcesConserved
  <2>2. CASE i = c
    <3>1. need'[c] = plus(need[c], r) /\ allocation'[c] = minus(allocation[c], r)
      BY <1>1, <1>2 DEF TypeOK
    <3>2. \A j \in Resources : (need[c][j] + r[j]) + (allocation[c][j] - r[j])
                                   = need[c][j] + allocation[c][j]
      BY <1>1, <1>3 DEF Vectors
    <3> QED BY <1>2, <2>1, <2>2, <3>1, <3>2 DEF plus, minus
  <2>3. CASE i # c
    <3>1. need'[i] = need[i] /\ allocation'[i] = allocation[i]
      BY <1>1, <1>2, <2>3 DEF TypeOK
    <3> QED BY <1>2, <2>1, <3>1
  <2> QED BY <2>2, <2>3
<1>9. AlwaysSafe'
  <2>1. CASE SafeState(available, need, allocation)
    <3>1. /\ available \in Vectors /\ need \in [Customers -> Vectors]
          /\ allocation \in [Customers -> Vectors]
      BY <1>1 DEF TypeOK
    <3>2. SafeState(plus(available, r), [need EXCEPT ![c] = plus(@, r)],
                    [allocation EXCEPT ![c] = minus(@, r)])
      BY <1>1, <2>1, <3>1, ReleaseKeepsSafe
    <3> QED BY <1>2, <3>2 DEF AlwaysSafe
  <2>2. CASE \A i \in Customers, j \in Resources : allocation[i][j] = 0
    <3>1. \A j \in Resources : r[j] = 0 /\ allocation[c][j] = 0
      BY <1>1, <1>3, <2>2 DEF no_greater_than, Vectors
    <3>2. \A j \in Resources : minus(allocation[c], r)[j] = 0
      BY <3>1 DEF minus
    <3>3. \A i \in Customers, j \in Resources : allocation'[i][j] = 0
      BY <1>1, <1>2, <2>2, <3>2 DEF TypeOK
    <3> QED BY <3>3 DEF AlwaysSafe
  <2> QED BY <2>1, <2>2 DEF AlwaysSafe
<1> QED BY <1>6, <1>7, <1>8, <1>9 DEF ResourcesConserved

LEMMA BankIsSafe == Spec => [](ResourcesConserved /\ AlwaysSafe)
<1>1. Init => ResourcesConserved /\ AlwaysSafe
  BY InitConserves
<1>2. ResourcesConserved /\ AlwaysSafe /\ [Next]_vars => (ResourcesConserved /\ AlwaysSafe)'
  <2> SUFFICES ASSUME ResourcesConserved, AlwaysSafe, [Next]_vars
               PROVE  (ResourcesConserved /\ AlwaysSafe)'
    OBVIOUS
  <2>1. ASSUME NEW c \in Customers, NEW r \in Parts, request_resources(c, r)
        PROVE  (ResourcesConserved /\ AlwaysSafe)'
    BY <2>1, RequestConserves
  <2>2. ASSUME NEW c \in Customers, NEW r \in Parts, release_resources(c, r)
        PROVE  (ResourcesConserved /\ AlwaysSafe)'
    BY <2>2, ReleaseConserves
  <2>3. CASE Exit
    BY <2>3 DEF Exit, ResourcesConserved, AlwaysSafe, TypeOK
  <2>4. CASE UNCHANGED vars
    BY <2>4 DEF vars, ResourcesConserved, AlwaysSafe, TypeOK
  <2> QED BY <2>1, <2>2, <2>3, <2>4 DEF Next, Terminated
<1> QED BY <1>1, <1>2, PTL DEF Spec

(* Resources are neither made nor lost, nothing is ever negative, and no   *)
(* customer holds more than its maximum, whatever is requested and         *)
(* released (banker.c:69-83, 92-120).                                      *)
THEOREM ConservationCorrect == Spec => []ResourcesConserved
BY BankIsSafe, PTL

(* No grant and no release leaves the safe states (banker.c:124-144).      *)
THEOREM SafetyCorrect == Spec => []AlwaysSafe
BY BankIsSafe, PTL

(* The test grants exactly the requests that leave a safe state: it goes   *)
(* through the customers in their order and takes no choice back, and that *)
(* loses nothing (banker.c:92-120).                                        *)
THEOREM TestCorrect == Spec => []TestIsExact
<1>1. ResourcesConserved => TestIsExact
  <2> SUFFICES ASSUME TypeOK, NEW c \in Customers, NEW r \in Parts, no_greater_than(r, need[c])
               PROVE  is_safe(bank, c, r).safe
                        <=> SafeState(minus(available, r), [need EXCEPT ![c] = minus(@, r)],
                                      [allocation EXCEPT ![c] = plus(@, r)])
    BY DEF ResourcesConserved, TestIsExact
  <2> QED BY PartsAreVectors, TestTells
<1> QED BY <1>1, BankIsSafe, PTL

-----------------------------------------------------------------------------
(* The memory allocator: lists put together from pieces *)

(* r is s with its part from m + 1 to n replaced by t. *)
Splice(s, t, m, n) == SubSeq(s, 1, m) \o t \o SubSeq(s, n + 1, Len(s))

IsSplice(r, S, s, t, m, n) ==
    /\ r \in Seq(S)
    /\ Len(r) = m + Len(t) + (Len(s) - n)
    /\ \A i \in 1 .. m : r[i] = s[i]
    /\ \A i \in 1 .. Len(t) : r[m + i] = t[i]
    /\ \A i \in n + 1 .. Len(s) : r[m + Len(t) + (i - n)] = s[i]

LEMMA SpliceIs ==
    ASSUME NEW S, NEW s \in Seq(S), NEW t \in Seq(S), NEW m \in 0 .. Len(s), NEW n \in m .. Len(s)
    PROVE  IsSplice(Splice(s, t, m, n), S, s, t, m, n)
<1> DEFINE u == SubSeq(s, 1, m)
           v == SubSeq(s, n + 1, Len(s))
           w == u \o t
<1>0. Len(s) \in Nat /\ Len(t) \in Nat /\ \A i \in 1 .. Len(s) : s[i] \in S
  BY LenProperties, ElementOfSeq
<1>1. u \in Seq(S) /\ Len(u) = m /\ \A i \in 1 .. m : u[i] = s[i]
  <2>1. \A i \in 1 .. m : s[i] \in S
    BY <1>0
  <2>2. /\ u \in Seq(S)
        /\ Len(u) = IF 1 <= m THEN m - 1 + 1 ELSE 0
        /\ \A i \in 1 .. m - 1 + 1 : u[i] = s[1 + i - 1]
    BY <2>1, SubSeqProperties
  <2>3. m - 1 + 1 = m /\ \A i \in 1 .. m : 1 + i - 1 = i
    OBVIOUS
  <2> HIDE DEF u
  <2> QED BY <2>2, <2>3
<1>2. v \in Seq(S) /\ Len(v) = Len(s) - n /\ \A i \in n + 1 .. Len(s) : v[i - n] = s[i]
  <2>1. \A i \in n + 1 .. Len(s) : s[i] \in S
    BY <1>0
  <2>2. /\ v \in Seq(S)
        /\ Len(v) = IF n + 1 <= Len(s) THEN Len(s) - (n + 1) + 1 ELSE 0
        /\ \A i \in 1 .. Len(s) - (n + 1) + 1 : v[i] = s[(n + 1) + i - 1]
    BY <1>0, <2>1, SubSeqProperties
  <2> HIDE DEF v
  <2>3. ASSUME NEW i \in n + 1 .. Len(s)
        PROVE  v[i - n] = s[i]
    <3>1. i - n \in 1 .. Len(s) - (n + 1) + 1 /\ (n + 1) + (i - n) - 1 = i
      BY <1>0
    <3> QED BY <2>2, <3>1
  <2> QED BY <1>0, <2>2, <2>3
<1> HIDE DEF u, v
<1>3. /\ w \in Seq(S) /\ Len(w) = m + Len(t)
      /\ \A i \in 1 .. m : w[i] = s[i]
      /\ \A i \in 1 .. Len(t) : w[m + i] = t[i]
  <2>1. /\ w \in Seq(S) /\ Len(w) = m + Len(t)
        /\ \A i \in 1 .. m + Len(t) : w[i] = IF i <= m THEN u[i] ELSE t[i - m]
    BY <1>1, ConcatProperties
  <2> HIDE DEF w
  <2>2. ASSUME NEW i \in 1 .. Len(t)
        PROVE  w[m + i] = t[i]
    <3>1. m + i \in 1 .. m + Len(t) /\ ~(m + i <= m) /\ (m + i) - m = i
      BY <1>0
    <3> QED BY <2>1, <3>1
  <2> QED BY <1>0, <1>1, <2>1, <2>2
<1> HIDE DEF w
<1> DEFINE r == w \o v
<1>4. /\ r \in Seq(S) /\ Len(r) = m + Len(t) + (Len(s) - n)
      /\ \A i \in 1 .. m + Len(t) + (Len(s) - n) :
            r[i] = IF i <= m + Len(t) THEN w[i] ELSE v[i - (m + Len(t))]
  <2>1. /\ r \in Seq(S) /\ Len(r) = Len(w) + Len(v)
        /\ \A i \in 1 .. Len(w) + Len(v) : r[i] = IF i <= Len(w) THEN w[i] ELSE v[i - Len(w)]
    <3>1. w \in Seq(S) /\ v \in Seq(S)
      BY <1>2, <1>3
    <3> QED BY <3>1, ConcatProperties
  <2> HIDE DEF r
  <2> QED BY <1>2, <1>3, <2>1
<1> HIDE DEF r
<1>5. \A i \in 1 .. m : r[i] = s[i]
  BY <1>0, <1>3, <1>4
<1>6. ASSUME NEW i \in 1 .. Len(t)
      PROVE  r[m + i] = t[i]
  <2>1. m + i \in 1 .. m + Len(t) + (Len(s) - n) /\ m + i <= m + Len(t)
    BY <1>0
  <2> QED BY <1>3, <1>4, <2>1
<1>7. ASSUME NEW i \in n + 1 .. Len(s)
      PROVE  r[m + Len(t) + (i - n)] = s[i]
  <2> DEFINE j == m + Len(t) + (i - n)
  <2>1. j \in 1 .. m + Len(t) + (Len(s) - n) /\ ~(j <= m + Len(t)) /\ j - (m + Len(t)) = i - n
    BY <1>0
  <2> HIDE DEF j
  <2>2. r[j] = s[i]
    BY <1>2, <1>4, <2>1
  <2> QED BY <2>2 DEF j
<1>8. r = Splice(s, t, m, n)
  BY DEF r, w, u, v, Splice
<1> QED BY <1>4, <1>5, <1>6, <1>7, <1>8 DEF IsSplice

-----------------------------------------------------------------------------
Blocks == [info : Names \cup {Unused}, begin : 0 .. capacity, end : 0 .. capacity - 1]

(* 1 when a hole remains behind a new block of this length, 0 otherwise. *)
Remains(hole, length) == IF hole.begin + length >= hole.end THEN 0 ELSE 1

(* s is the list with a block of the name put into hole b + 1. *)
IsInsertion(s, name, b, length) ==
    LET hole == blocks[b + 1]
        d    == Remains(hole, length)
    IN  /\ s \in Seq(Blocks)
        /\ Len(s) = Len(blocks) + d
        /\ \A i \in 1 .. b : s[i] = blocks[i]
        /\ s[b + 1] = [info |-> name, begin |-> hole.begin, end |-> hole.begin + length - 1]
        /\ d = 1 => s[b + 2] = [info |-> Unused, begin |-> hole.begin + length, end |-> hole.end]
        /\ \A i \in b + 2 .. Len(blocks) : s[i + d] = blocks[i]

(* s is the list with the blocks from first to last made one hole. *)
IsRemoval(s, first, last) ==
    /\ s \in Seq(Blocks)
    /\ Len(s) = Len(blocks) - (last - first)
    /\ \A i \in 1 .. first - 1 : s[i] = blocks[i]
    /\ s[first] = [info |-> Unused, begin |-> blocks[first].begin, end |-> blocks[last].end]
    /\ \A i \in last + 1 .. Len(blocks) : s[i - (last - first)] = blocks[i]

LEMMA BlockTypes ==
    ASSUME AllocatorTypeOK
    PROVE  /\ capacity \in Nat \ {0} /\ Unused \notin Names
           /\ blocks \in Seq(Blocks) /\ Len(blocks) \in Nat \ {0} /\ DOMAIN blocks = 1 .. Len(blocks)
           /\ \A i \in 1 .. Len(blocks) :
                 /\ blocks[i] \in Blocks
                 /\ blocks[i].info \in Names \cup {Unused}
                 /\ blocks[i].begin \in 0 .. capacity /\ blocks[i].end \in 0 .. capacity - 1
<1>1. blocks \in Seq(Blocks) /\ Len(blocks) \in Nat \ {0} /\ capacity \in Nat \ {0} /\ Unused \notin Names
  BY AllocatorAssumption DEF AllocatorTypeOK, Blocks
<1>2. DOMAIN blocks = 1 .. Len(blocks) /\ \A i \in 1 .. Len(blocks) : blocks[i] \in Blocks
  BY <1>1, ElementOfSeq, LenProperties
<1> QED BY <1>1, <1>2 DEF Blocks

LEMMA InsertionIs ==
    ASSUME AllocatorTypeOK, NEW name \in Names, NEW b \in 0 .. Len(blocks) - 1,
           NEW length \in Lengths, Holds(b + 1, length)
    PROVE  IsInsertion(insert_block(name, b, length), name, b, length)
<1> DEFINE hole  == blocks[b + 1]
           block == [info |-> name, begin |-> hole.begin, end |-> hole.begin + length - 1]
           rest  == [info |-> Unused, begin |-> hole.begin + length, end |-> hole.end]
           s     == insert_block(name, b, length)
           d     == Remains(hole, length)
<1>1. /\ capacity \in Nat \ {0} /\ blocks \in Seq(Blocks) /\ Len(blocks) \in Nat \ {0}
      /\ b + 1 \in 1 .. Len(blocks) /\ hole \in Blocks /\ hole.info = Unused
      /\ hole.begin \in 0 .. capacity /\ hole.end \in 0 .. capacity - 1
      /\ length \in Nat \ {0} /\ hole.end - hole.begin + 1 >= length
  <2>1. b + 1 \in 1 .. Len(blocks)
    BY BlockTypes
  <2> QED BY <2>1, BlockTypes DEF Holds, Length, Lengths
<1>2. block \in Blocks /\ rest \in Blocks
  <2> HIDE DEF hole
  <2>0. /\ capacity \in Nat /\ hole.begin \in 0 .. capacity /\ hole.end \in 0 .. capacity - 1
        /\ length \in Nat \ {0} /\ hole.end - hole.begin + 1 >= length
    BY <1>1
  <2>1. hole.begin + length - 1 \in 0 .. capacity - 1 /\ hole.begin + length \in 0 .. capacity
    BY <2>0
  <2>2. name \in Names \cup {Unused} /\ Unused \in Names \cup {Unused}
    OBVIOUS
  <2> QED BY <2>0, <2>1, <2>2 DEF Blocks
<1>3. [hole EXCEPT !.begin = block.end + 1] = rest
  <2> HIDE DEF hole
  <2>1. block.end + 1 = hole.begin + length
    BY <1>1
  <2>2. hole = [info |-> Unused, begin |-> hole.begin, end |-> hole.end]
    BY <1>1 DEF Blocks
  <2> QED BY <2>1, <2>2
<1>4. s = SubSeq(blocks, 1, b) \o <<block>> \o (IF d = 0 THEN <<>> ELSE <<rest>>)
             \o SubSeq(blocks, b + 2, Len(blocks))
  <2>1. block.end + 1 = hole.begin + length
    <3> HIDE DEF hole
    <3> QED BY <1>1
  <2>2. s = SubSeq(blocks, 1, b) \o <<block>>
               \o (IF rest.begin >= rest.end THEN <<>> ELSE <<rest>>)
               \o SubSeq(blocks, b + 2, Len(blocks))
    BY <1>3 DEF insert_block
  <2>3. rest.begin >= rest.end <=> d = 0
    BY DEF Remains
  <2> HIDE DEF s, block, rest, d
  <2> QED BY <2>2, <2>3
<1>5. CASE d = 0
  <2>1. s = SubSeq(blocks, 1, b) \o <<block>> \o SubSeq(blocks, (b + 1) + 1, Len(blocks))
    <3>1. SubSeq(blocks, 1, b) \o <<block>> \in Seq(Blocks)
      <4>1. \A i \in 1 .. b : blocks[i] \in Blocks
        BY <1>1, BlockTypes
      <4> QED BY <1>2, <4>1, SubSeqProperties
    <3>2. (SubSeq(blocks, 1, b) \o <<block>>) \o <<>> = SubSeq(blocks, 1, b) \o <<block>>
      BY <3>1, ConcatEmptySeq
    <3>3. b + 2 = (b + 1) + 1
      OBVIOUS
    <3> HIDE DEF block, rest, hole, s, d
    <3> QED BY <1>4, <1>5, <3>2, <3>3
  <2>2. <<block>> \in Seq(Blocks) /\ Len(<<block>>) = 1 /\ <<block>>[1] = block
    BY <1>2
  <2> HIDE DEF s, block, d
  <2>3. /\ s \in Seq(Blocks)
        /\ Len(s) = b + 1 + (Len(blocks) - (b + 1))
        /\ \A i \in 1 .. b : s[i] = blocks[i]
        /\ \A i \in 1 .. 1 : s[b + i] = <<block>>[i]
        /\ \A i \in (b + 1) + 1 .. Len(blocks) : s[b + 1 + (i - (b + 1))] = blocks[i]
    <3>1. b \in 0 .. Len(blocks) /\ b + 1 \in b .. Len(blocks)
      BY <1>1
    <3>2. IsSplice(Splice(blocks, <<block>>, b, b + 1), Blocks, blocks, <<block>>, b, b + 1)
      BY <1>1, <2>2, <3>1, SpliceIs
    <3>3. s = Splice(blocks, <<block>>, b, b + 1)
      BY <2>1 DEF Splice
    <3> QED BY <2>2, <3>2, <3>3 DEF IsSplice
  <2>4. Len(s) = Len(blocks) + 0 /\ s[b + 1] = block
    BY <1>1, <2>2, <2>3
  <2>5. \A i \in b + 2 .. Len(blocks) : s[i + 0] = blocks[i]
    <3> SUFFICES ASSUME NEW i \in b + 2 .. Len(blocks)
                 PROVE  s[i + 0] = blocks[i]
      OBVIOUS
    <3>1. i + 0 = b + 1 + (i - (b + 1)) /\ i \in (b + 1) + 1 .. Len(blocks)
      BY <1>1
    <3> QED BY <2>3, <3>1
  <2> QED BY <1>5, <2>3, <2>4, <2>5 DEF IsInsertion, d, s, block
<1>6. CASE d = 1
  <2> DEFINE t == <<block>> \o <<rest>>
  <2>1. t \in Seq(Blocks) /\ Len(t) = 2 /\ t[1] = block /\ t[2] = rest
    <3> HIDE DEF block, rest
    <3>1. /\ <<block>> \in Seq(Blocks) /\ Len(<<block>>) = 1 /\ <<block>>[1] = block
          /\ <<rest>> \in Seq(Blocks) /\ Len(<<rest>>) = 1 /\ <<rest>>[1] = rest
      BY <1>2
    <3>2. /\ t \in Seq(Blocks) /\ Len(t) = Len(<<block>>) + Len(<<rest>>)
          /\ \A i \in 1 .. Len(<<block>>) + Len(<<rest>>) :
                t[i] = IF i <= Len(<<block>>) THEN <<block>>[i] ELSE <<rest>>[i - Len(<<block>>)]
      BY <3>1, ConcatProperties
    <3> HIDE DEF t
    <3> QED BY <3>1, <3>2
  <2>2. s = SubSeq(blocks, 1, b) \o t \o SubSeq(blocks, (b + 1) + 1, Len(blocks))
    <3>1. SubSeq(blocks, 1, b) \in Seq(Blocks) /\ <<block>> \in Seq(Blocks) /\ <<rest>> \in Seq(Blocks)
      <4>1. \A i \in 1 .. b : blocks[i] \in Blocks
        BY <1>1, BlockTypes
      <4> QED BY <1>2, <4>1, SubSeqProperties
    <3>2. (SubSeq(blocks, 1, b) \o <<block>>) \o <<rest>> = SubSeq(blocks, 1, b) \o t
      <4> DEFINE u == SubSeq(blocks, 1, b)
                 v == <<block>>
                 w == <<rest>>
      <4> HIDE DEF u, v, w
      <4>1. (u \o v) \o w = u \o (v \o w)
        BY <3>1, ConcatAssociative DEF u, v, w
      <4> QED BY <4>1 DEF u, v, w
    <3>3. b + 2 = (b + 1) + 1
      OBVIOUS
    <3>4. (IF d = 0 THEN <<>> ELSE <<rest>>) = <<rest>>
      BY <1>6
    <3> HIDE DEF block, rest, hole, s, d, t
    <3> QED BY <1>4, <3>2, <3>3, <3>4
  <2> HIDE DEF s, block, d, rest, t
  <2>3. /\ s \in Seq(Blocks)
        /\ Len(s) = b + 2 + (Len(blocks) - (b + 1))
        /\ \A i \in 1 .. b : s[i] = blocks[i]
        /\ \A i \in 1 .. 2 : s[b + i] = t[i]
        /\ \A i \in (b + 1) + 1 .. Len(blocks) : s[b + 2 + (i - (b + 1))] = blocks[i]
    <3>1. b \in 0 .. Len(blocks) /\ b + 1 \in b .. Len(blocks)
      BY <1>1
    <3>2. IsSplice(Splice(blocks, t, b, b + 1), Blocks, blocks, t, b, b + 1)
      BY <1>1, <2>1, <3>1, SpliceIs
    <3>3. s = Splice(blocks, t, b, b + 1)
      BY <2>2 DEF Splice
    <3> QED BY <2>1, <3>2, <3>3 DEF IsSplice
  <2>4. Len(s) = Len(blocks) + 1 /\ s[b + 1] = block /\ s[b + 2] = rest
    BY <1>1, <2>1, <2>3
  <2>5. \A i \in b + 2 .. Len(blocks) : s[i + 1] = blocks[i]
    <3> SUFFICES ASSUME NEW i \in b + 2 .. Len(blocks)
                 PROVE  s[i + 1] = blocks[i]
      OBVIOUS
    <3>1. i + 1 = b + 2 + (i - (b + 1)) /\ i \in (b + 1) + 1 .. Len(blocks)
      BY <1>1
    <3> QED BY <2>3, <3>1
  <2> QED BY <1>6, <2>3, <2>4, <2>5 DEF IsInsertion, d, s, block, rest
<1> QED BY <1>5, <1>6 DEF Remains

LEMMA RemovalIs ==
    ASSUME AllocatorTypeOK, NEW b \in 0 .. Len(blocks) - 1
    PROVE  \E first \in {b, b + 1}, last \in {b + 1, b + 2} :
               /\ first = IF b > 0 /\ blocks[b].info = Unused THEN b ELSE b + 1
               /\ last = IF b + 2 <= Len(blocks) /\ blocks[b + 2].info = Unused THEN b + 2 ELSE b + 1
               /\ first \in 1 .. Len(blocks) /\ last \in first .. Len(blocks)
               /\ IsRemoval(remove_block(b), first, last)
<1>1. Len(blocks) \in Nat \ {0} /\ blocks \in Seq(Blocks)
  BY BlockTypes
<1>2. PICK first \in {b, b + 1} : first = IF b > 0 /\ blocks[b].info = Unused THEN b ELSE b + 1
  OBVIOUS
<1>3. PICK last \in {b + 1, b + 2} :
         last = IF b + 2 <= Len(blocks) /\ blocks[b + 2].info = Unused THEN b + 2 ELSE b + 1
  OBVIOUS
<1>4. first \in 1 .. Len(blocks) /\ last \in first .. Len(blocks)
  BY <1>1, <1>2, <1>3
<1> DEFINE hole == [info |-> Unused, begin |-> blocks[first].begin, end |-> blocks[last].end]
           s == remove_block(b)
           m == first - 1
<1>5. s = SubSeq(blocks, 1, m) \o <<hole>> \o SubSeq(blocks, last + 1, Len(blocks))
  BY <1>2, <1>3 DEF remove_block
<1>6. hole \in Blocks
  BY <1>4, BlockTypes DEF Blocks
<1>7. <<hole>> \in Seq(Blocks) /\ Len(<<hole>>) = 1 /\ <<hole>>[1] = hole
  BY <1>6
<1>8. m \in 0 .. Len(blocks) /\ last \in m .. Len(blocks)
  BY <1>4
<1> HIDE DEF hole, s, m
<1>9. /\ s \in Seq(Blocks)
      /\ Len(s) = m + 1 + (Len(blocks) - last)
      /\ \A i \in 1 .. m : s[i] = blocks[i]
      /\ \A i \in 1 .. 1 : s[m + i] = <<hole>>[i]
      /\ \A i \in last + 1 .. Len(blocks) : s[m + 1 + (i - last)] = blocks[i]
  <2>1. IsSplice(Splice(blocks, <<hole>>, m, last), Blocks, blocks, <<hole>>, m, last)
    BY <1>1, <1>7, <1>8, SpliceIs
  <2>2. s = Splice(blocks, <<hole>>, m, last)
    BY <1>5 DEF Splice
  <2> QED BY <1>7, <2>1, <2>2 DEF IsSplice
<1>10. m + 1 = first /\ s[first] = hole
  <2>1. m + 1 = first
    BY <1>4 DEF m
  <2> QED BY <1>7, <1>9, <2>1
<1>11. \A i \in last + 1 .. Len(blocks) : s[i - (last - first)] = blocks[i]
  <2> SUFFICES ASSUME NEW i \in last + 1 .. Len(blocks)
               PROVE  s[i - (last - first)] = blocks[i]
    OBVIOUS
  <2>1. i - (last - first) = m + 1 + (i - last)
    BY <1>1, <1>4 DEF m
  <2> QED BY <1>9, <2>1
<1>12. Len(s) = Len(blocks) - (last - first)
  BY <1>1, <1>4, <1>9 DEF m
<1>13. IsRemoval(s, first, last)
  BY <1>9, <1>10, <1>11, <1>12 DEF IsRemoval, hole, m
<1> QED BY <1>2, <1>3, <1>4, <1>13 DEF s

-----------------------------------------------------------------------------
(* The list stays in order *)

(* BlocksInOrder and HolesAreMerged, of any list. *)
InOrder(s) ==
    /\ s \in Seq(Blocks) /\ Len(s) # 0
    /\ \A i \in 1 .. Len(s) - 1 : s[i].end < s[i + 1].begin
    /\ \A i \in 1 .. Len(s) :
          \/ Length(s[i]) > 0
          \/ i = Len(s) /\ Length(s[i]) = 0 /\ s[i].info = Unused
    /\ \A i \in 1 .. Len(s) - 1 : ~(s[i].info = Unused /\ s[i + 1].info = Unused)

LEMMA ListTypes ==
    ASSUME NEW s, InOrder(s)
    PROVE  /\ Len(s) \in Nat \ {0} /\ DOMAIN s = 1 .. Len(s)
           /\ \A i \in 1 .. Len(s) :
                 /\ s[i] \in Blocks
                 /\ s[i].info \in Names \cup {Unused}
                 /\ s[i].begin \in 0 .. capacity /\ s[i].end \in 0 .. capacity - 1
<1>1. s \in Seq(Blocks) /\ Len(s) # 0
  BY DEF InOrder
<1>2. Len(s) \in Nat \ {0} /\ DOMAIN s = 1 .. Len(s) /\ \A i \in 1 .. Len(s) : s[i] \in Blocks
  BY <1>1, ElementOfSeq, LenProperties
<1> QED BY <1>2 DEF Blocks

(* Every block is below every later one. *)
LEMMA AllInOrder ==
    ASSUME NEW s, InOrder(s)
    PROVE  \A i, j \in 1 .. Len(s) : i < j => s[i].end < s[j].begin
<1> SUFFICES ASSUME NEW i \in 1 .. Len(s)
             PROVE  \A j \in 1 .. Len(s) : i < j => s[i].end < s[j].begin
  OBVIOUS
<1> DEFINE S == {j \in 0 .. Len(s) : i < j => s[i].end < s[j].begin}
<1>1. 0 \in S
  BY ListTypes
<1>2. ASSUME NEW j \in 1 .. Len(s), j - 1 \in S
      PROVE  j \in S
  <2> SUFFICES ASSUME i < j
               PROVE  s[i].end < s[j].begin
    BY ListTypes
  <2>1. j - 1 \in 1 .. Len(s) - 1 /\ (j - 1) + 1 = j
    BY ListTypes
  <2>2. s[j - 1].end < s[j].begin
    BY <2>1 DEF InOrder
  <2>3. CASE i = j - 1
    BY <2>2, <2>3
  <2>4. CASE i < j - 1
    <3>1. s[i].end < s[j - 1].begin
      BY <1>2, <2>4
    <3>2. Length(s[j - 1]) > 0
      <4>1. j - 1 \in 1 .. Len(s) /\ j - 1 # Len(s)
        BY <2>1, ListTypes
      <4> QED BY <4>1 DEF InOrder
    <3>3. /\ s[i].end \in Int /\ s[j].begin \in Int
          /\ s[j - 1].begin \in Int /\ s[j - 1].end \in Int
      <4>1. j - 1 \in 1 .. Len(s)
        BY <2>1, ListTypes
      <4> QED BY <4>1, ListTypes
    <3> QED BY <2>2, <3>1, <3>2, <3>3 DEF Length
  <2>5. i \in Int /\ j \in Int
    BY ListTypes
  <2> QED BY <2>3, <2>4, <2>5
<1> HIDE DEF S
<1>3. 0 .. Len(s) \subseteq S
  <2>1. Len(s) \in Nat
    BY ListTypes
  <2> QED BY <1>1, <1>2, <2>1, BoundedInduction
<1> QED BY <1>3, ListTypes DEF S

(* The list cannot be longer than the memory, but for an empty hole. *)
LEMMA ListIsShort ==
    ASSUME NEW s, InOrder(s)
    PROVE  Len(s) \in 1 .. capacity + 1
<1> DEFINE S == {j \in 0 .. Len(s) : j > 0 => s[j].begin >= j - 1}
<1>1. 0 \in S
  BY ListTypes
<1>2. ASSUME NEW j \in 1 .. Len(s), j - 1 \in S
      PROVE  j \in S
  <2>0. s[j].begin \in Int /\ s[j].begin >= 0 /\ j \in Int /\ j \in 0 .. Len(s)
    BY ListTypes
  <2>1. CASE j = 1
    BY <2>0, <2>1
  <2>2. CASE j > 1
    <3>1. j - 1 \in 1 .. Len(s) - 1 /\ (j - 1) + 1 = j /\ j - 1 \in 1 .. Len(s) /\ j - 1 # Len(s)
      BY <2>2, ListTypes
    <3>2. s[j - 1].end < s[j].begin /\ Length(s[j - 1]) > 0
      BY <3>1 DEF InOrder
    <3>3. s[j - 1].begin >= (j - 1) - 1
      BY <1>2, <2>2
    <3>4. s[j - 1].begin \in Int /\ s[j - 1].end \in Int
      BY <3>1, ListTypes
    <3> QED BY <2>0, <3>2, <3>3, <3>4 DEF Length
  <2> QED BY <2>0, <2>1, <2>2
<1> HIDE DEF S
<1>3. 0 .. Len(s) \subseteq S
  <2>1. Len(s) \in Nat
    BY ListTypes
  <2> QED BY <1>1, <1>2, <2>1, BoundedInduction
<1>4. Len(s) \in Nat \ {0} /\ Len(s) \in 1 .. Len(s) /\ capacity \in Nat
  BY ListTypes, AllocatorAssumption
<1>5. s[Len(s)].begin >= Len(s) - 1
  BY <1>3, <1>4 DEF S
<1>6. s[Len(s)].begin \in 0 .. capacity
  BY <1>4, ListTypes
<1> QED BY <1>4, <1>5, <1>6

LEMMA InvariantIsInOrder ==
    /\ BlocksInOrder /\ HolesAreMerged => InOrder(blocks)
    /\ InOrder(blocks) /\ status \in {"running", "crashed", "exited"} => BlocksInOrder /\ HolesAreMerged
<1>1. ASSUME BlocksInOrder, HolesAreMerged
      PROVE  InOrder(blocks)
  <2>1. blocks \in Seq(Blocks) /\ Len(blocks) # 0 /\ DOMAIN blocks = 1 .. Len(blocks)
    BY <1>1, BlockTypes DEF BlocksInOrder
  <2> QED BY <1>1, <2>1 DEF BlocksInOrder, HolesAreMerged, InOrder
<1>2. ASSUME InOrder(blocks), status \in {"running", "crashed", "exited"}
      PROVE  BlocksInOrder /\ HolesAreMerged
  <2>1. AllocatorTypeOK
    BY <1>2, ListIsShort DEF InOrder, AllocatorTypeOK, Blocks
  <2>2. DOMAIN blocks = 1 .. Len(blocks)
    BY <1>2, ListTypes
  <2> QED BY <1>2, <2>1, <2>2 DEF BlocksInOrder, HolesAreMerged, InOrder
<1> QED BY <1>1, <1>2

(* Every block after an insertion, by its position. *)
LEMMA InsertionAt ==
    ASSUME AllocatorTypeOK, NEW name \in Names, NEW b \in 0 .. Len(blocks) - 1,
           NEW length \in Lengths, Holds(b + 1, length),
           NEW s, IsInsertion(s, name, b, length)
    PROVE  LET hole == blocks[b + 1]
               d    == Remains(hole, length)
           IN  /\ d \in {0, 1} /\ Len(s) \in Nat
               /\ d = 0 => hole.begin + length >= hole.end
               /\ d = 1 => hole.begin + length < hole.end
               /\ \A j \in 1 .. Len(s) :
                     \/ j <= b /\ s[j] = blocks[j]
                     \/ /\ j = b + 1
                        /\ s[j] = [info |-> name, begin |-> hole.begin, end |-> hole.begin + length - 1]
                     \/ /\ d = 1 /\ j = b + 2
                        /\ s[j] = [info |-> Unused, begin |-> hole.begin + length, end |-> hole.end]
                     \/ j - d \in b + 2 .. Len(blocks) /\ s[j] = blocks[j - d]
<1> DEFINE hole == blocks[b + 1]
           d == Remains(hole, length)
<1>1. Len(blocks) \in Nat \ {0} /\ hole.begin \in Int /\ hole.end \in Int /\ length \in Int
  <2>1. b + 1 \in 1 .. Len(blocks) /\ capacity \in Nat /\ Len(blocks) \in Nat \ {0}
    BY BlockTypes
  <2>2. hole.begin \in 0 .. capacity /\ hole.end \in 0 .. capacity - 1
    BY <2>1, BlockTypes
  <2> QED BY <2>1, <2>2 DEF Lengths
<1>2. /\ d \in {0, 1}
      /\ d = 0 => hole.begin + length >= hole.end
      /\ d = 1 => hole.begin + length < hole.end
  <2> HIDE DEF hole
  <2> QED BY <1>1 DEF Remains
<1>3. /\ Len(s) = Len(blocks) + d
      /\ \A i \in 1 .. b : s[i] = blocks[i]
      /\ s[b + 1] = [info |-> name, begin |-> hole.begin, end |-> hole.begin + length - 1]
      /\ d = 1 => s[b + 2] = [info |-> Unused, begin |-> hole.begin + length, end |-> hole.end]
      /\ \A i \in b + 2 .. Len(blocks) : s[i + d] = blocks[i]
  BY DEF IsInsertion
<1> HIDE DEF d, hole
<1>4. ASSUME NEW j \in 1 .. Len(s)
      PROVE  \/ j <= b /\ s[j] = blocks[j]
             \/ /\ j = b + 1
                /\ s[j] = [info |-> name, begin |-> hole.begin, end |-> hole.begin + length - 1]
             \/ /\ d = 1 /\ j = b + 2
                /\ s[j] = [info |-> Unused, begin |-> hole.begin + length, end |-> hole.end]
             \/ j - d \in b + 2 .. Len(blocks) /\ s[j] = blocks[j - d]
  <2>1. j <= b => j \in 1 .. b
    BY <1>1, <1>2, <1>3
  <2>2. CASE ~(j <= b) /\ j # b + 1 /\ ~(d = 1 /\ j = b + 2)
    <3>0. j \in 1 .. Len(blocks) + d /\ Len(blocks) \in Nat /\ d \in {0, 1} /\ j \in Int
      BY <1>1, <1>2, <1>3
    <3>1. j - d \in b + 2 .. Len(blocks) /\ (j - d) + d = j
      BY <2>2, <3>0
    <3> QED BY <1>3, <3>1
  <2> QED BY <1>3, <2>1, <2>2
<1>5. Len(s) \in Nat
  BY <1>1, <1>2, <1>3
<1> QED BY <1>2, <1>4, <1>5 DEF d, hole

LEMMA InsertionInOrder ==
    ASSUME BlocksInOrder, HolesAreMerged, NEW name \in Names, NEW b \in 0 .. Len(blocks) - 1,
           NEW length \in Lengths, Holds(b + 1, length),
           NEW s, IsInsertion(s, name, b, length)
    PROVE  InOrder(s)
<1> DEFINE hole  == blocks[b + 1]
           d     == Remains(hole, length)
           block == [info |-> name, begin |-> hole.begin, end |-> hole.begin + length - 1]
           rest  == [info |-> Unused, begin |-> hole.begin + length, end |-> hole.end]
           n     == Len(blocks)
<1>1. AllocatorTypeOK /\ InOrder(blocks)
  BY InvariantIsInOrder DEF BlocksInOrder
<1>2. /\ n \in Nat \ {0} /\ b + 1 \in 1 .. n /\ length \in Nat \ {0} /\ name # Unused
      /\ hole.begin \in Int /\ hole.end \in Int /\ hole.info = Unused
      /\ hole.end - hole.begin + 1 >= length
      /\ \A i \in 1 .. n : blocks[i].begin \in Int /\ blocks[i].end \in Int
  <2>1. n \in Nat \ {0} /\ b + 1 \in 1 .. n /\ length \in Nat \ {0} /\ name # Unused
    BY <1>1, BlockTypes DEF Lengths
  <2>2. \A i \in 1 .. n : blocks[i].begin \in Int /\ blocks[i].end \in Int
    BY <1>1, BlockTypes
  <2> QED BY <2>1, <2>2 DEF Holds, Length
<1>3. /\ d \in {0, 1} /\ Len(s) \in Nat
      /\ d = 1 => hole.begin + length < hole.end
      /\ \A j \in 1 .. Len(s) :
            \/ j <= b /\ s[j] = blocks[j]
            \/ j = b + 1 /\ s[j] = block
            \/ d = 1 /\ j = b + 2 /\ s[j] = rest
            \/ j - d \in b + 2 .. n /\ s[j] = blocks[j - d]
  BY <1>1, InsertionAt
<1>4. s \in Seq(Blocks) /\ Len(s) = n + d
  BY DEF IsInsertion
<1>5. /\ block.info # Unused /\ block.begin = hole.begin /\ block.end = hole.begin + length - 1
      /\ rest.info = Unused /\ rest.begin = hole.begin + length /\ rest.end = hole.end
  BY <1>2
<1>6. /\ \A i \in 1 .. n - 1 : blocks[i].end < blocks[i + 1].begin
      /\ \A i \in 1 .. n : \/ Length(blocks[i]) > 0
                           \/ i = n /\ Length(blocks[i]) = 0 /\ blocks[i].info = Unused
      /\ \A i \in 1 .. n - 1 : ~(blocks[i].info = Unused /\ blocks[i + 1].info = Unused)
  BY <1>1 DEF InOrder
<1>7. /\ b >= 1 => blocks[b].end < hole.begin /\ blocks[b].info # Unused
      /\ b + 2 <= n => hole.end < blocks[b + 2].begin /\ blocks[b + 2].info # Unused
  <2>1. ASSUME b >= 1
        PROVE  blocks[b].end < hole.begin /\ blocks[b].info # Unused
    <3>1. b \in 1 .. n - 1
      BY <1>2, <2>1
    <3> QED BY <1>2, <1>6, <3>1
  <2>2. ASSUME b + 2 <= n
        PROVE  hole.end < blocks[b + 2].begin /\ blocks[b + 2].info # Unused
    <3>1. b + 1 \in 1 .. n - 1 /\ (b + 1) + 1 = b + 2
      BY <1>2, <2>2
    <3>2. blocks[b + 1].end < blocks[(b + 1) + 1].begin /\ ~(blocks[b + 1].info = Unused /\ blocks[(b + 1) + 1].info = Unused)
      BY <1>6, <3>1
    <3> QED BY <1>2, <3>1, <3>2
  <2> QED BY <2>1, <2>2
<1> HIDE DEF hole, d, block, rest, n
<1>8. ASSUME NEW j \in 1 .. Len(s) - 1
      PROVE  s[j].end < s[j + 1].begin /\ ~(s[j].info = Unused /\ s[j + 1].info = Unused)
  <2>0. /\ j \in 1 .. Len(s) /\ j + 1 \in 1 .. Len(s)
        /\ \/ j + 1 <= b /\ s[j + 1] = blocks[j + 1]
           \/ j + 1 = b + 1 /\ s[j + 1] = block
           \/ d = 1 /\ j + 1 = b + 2 /\ s[j + 1] = rest
           \/ j + 1 - d \in b + 2 .. n /\ s[j + 1] = blocks[j + 1 - d]
    BY <1>3
  <2>1. CASE j <= b /\ s[j] = blocks[j]
    <3>1. CASE j < b
      <4>1. s[j + 1] = blocks[j + 1] /\ j \in 1 .. n - 1
        BY <1>2, <1>3, <2>0, <3>1
      <4> QED BY <1>6, <2>1, <4>1
    <3>2. CASE j = b
      <4>1. s[j + 1] = block
        BY <1>2, <1>3, <2>0, <3>2
      <4> QED BY <1>2, <1>5, <1>7, <2>1, <3>2, <4>1
    <3> QED BY <1>2, <2>1, <3>1, <3>2
  <2>2. CASE j = b + 1 /\ s[j] = block
    <3>1. CASE d = 1
      <4>1. s[j + 1] = rest
        BY <1>2, <2>0, <2>2, <3>1
      <4> QED BY <1>2, <1>5, <2>2, <4>1
    <3>2. CASE d = 0
      <4>1. s[j + 1] = blocks[b + 2] /\ b + 2 <= n
        BY <1>2, <2>0, <2>2, <3>2
      <4>2. blocks[b + 2].begin \in Int
        BY <1>2, <4>1
      <4>3. block.end < blocks[b + 2].begin
        <5>1. hole.end < blocks[b + 2].begin
          BY <1>7, <4>1
        <5>2. block.end <= hole.end
          BY <1>2, <1>5
        <5>3. block.end \in Int
          BY <1>2, <1>5
        <5> QED BY <1>2, <4>2, <5>1, <5>2, <5>3
      <4> QED BY <1>5, <2>2, <4>1, <4>3
    <3> QED BY <1>3, <3>1, <3>2
  <2>3. CASE d = 1 /\ j = b + 2 /\ s[j] = rest
    <3>1. s[j + 1] = blocks[b + 2] /\ b + 2 <= n
      BY <1>2, <2>0, <2>3
    <3> QED BY <1>2, <1>5, <1>7, <2>3, <3>1
  <2>4. CASE j - d \in b + 2 .. n /\ s[j] = blocks[j - d]
    <3>1. /\ s[j + 1] = blocks[(j - d) + 1] /\ j - d \in 1 .. n - 1
      BY <1>2, <1>3, <2>0, <2>4
    <3> QED BY <1>6, <2>4, <3>1
  <2> QED BY <1>3, <2>0, <2>1, <2>2, <2>3, <2>4
<1>9. ASSUME NEW j \in 1 .. Len(s)
      PROVE  \/ Length(s[j]) > 0
             \/ j = Len(s) /\ Length(s[j]) = 0 /\ s[j].info = Unused
  <2>1. CASE j <= b /\ s[j] = blocks[j]
    <3>1. j \in 1 .. n /\ j # n
      BY <1>2, <2>1
    <3> QED BY <1>6, <2>1, <3>1
  <2>2. CASE j = b + 1 /\ s[j] = block
    BY <1>2, <1>5, <2>2 DEF Length
  <2>3. CASE d = 1 /\ j = b + 2 /\ s[j] = rest
    BY <1>2, <1>3, <1>5, <2>3 DEF Length
  <2>4. CASE j - d \in b + 2 .. n /\ s[j] = blocks[j - d]
    <3>1. j - d \in 1 .. n /\ (j - d = n => j = Len(s))
      BY <1>2, <1>3, <1>4, <2>4
    <3> QED BY <1>6, <2>4, <3>1
  <2> QED BY <1>3, <2>1, <2>2, <2>3, <2>4
<1>10. Len(s) # 0
  BY <1>2, <1>3, <1>4
<1> QED BY <1>4, <1>8, <1>9, <1>10 DEF InOrder

(* The blocks that remove_block(b) makes one. *)
First(b) == IF b > 0 /\ blocks[b].info = Unused THEN b ELSE b + 1
End(b)   == IF b + 2 <= Len(blocks) /\ blocks[b + 2].info = Unused THEN b + 2 ELSE b + 1

LEMMA RemovalBounds ==
    ASSUME AllocatorTypeOK, NEW b \in 0 .. Len(blocks) - 1
    PROVE  /\ First(b) \in 1 .. Len(blocks) /\ First(b) \in {b, b + 1}
           /\ End(b) \in First(b) .. Len(blocks) /\ End(b) \in {b + 1, b + 2}
           /\ IsRemoval(remove_block(b), First(b), End(b))
BY RemovalIs DEF First, End

LEMMA RemovalInOrder ==
    ASSUME BlocksInOrder, HolesAreMerged, NEW b \in 0 .. Len(blocks) - 1,
           blocks[b + 1].info # Unused
    PROVE  InOrder(remove_block(b))
<1> DEFINE first == First(b)
           last  == End(b)
           s     == remove_block(b)
           k     == last - first
           n     == Len(blocks)
           hole  == [info |-> Unused, begin |-> blocks[first].begin, end |-> blocks[last].end]
<1>1. AllocatorTypeOK /\ InOrder(blocks)
  BY InvariantIsInOrder DEF BlocksInOrder
<1>2. /\ first \in 1 .. n /\ last \in first .. n /\ first \in {b, b + 1} /\ last \in {b + 1, b + 2}
      /\ IsRemoval(s, first, last)
  BY <1>1, RemovalBounds
<1>3. /\ n \in Nat \ {0} /\ b + 1 \in 1 .. n
      /\ \A i \in 1 .. n : blocks[i].begin \in Int /\ blocks[i].end \in Int
  BY <1>1, BlockTypes
<1>4. /\ \A i \in 1 .. n - 1 : blocks[i].end < blocks[i + 1].begin
      /\ \A i \in 1 .. n : \/ Length(blocks[i]) > 0
                           \/ i = n /\ Length(blocks[i]) = 0 /\ blocks[i].info = Unused
      /\ \A i \in 1 .. n - 1 : ~(blocks[i].info = Unused /\ blocks[i + 1].info = Unused)
  BY <1>1 DEF InOrder
<1>5. /\ first = IF b > 0 /\ blocks[b].info = Unused THEN b ELSE b + 1
      /\ last = IF b + 2 <= n /\ blocks[b + 2].info = Unused THEN b + 2 ELSE b + 1
  BY DEF First, End
<1>6. /\ s \in Seq(Blocks) /\ Len(s) = n - k
      /\ \A i \in 1 .. first - 1 : s[i] = blocks[i]
      /\ s[first] = hole
      /\ \A i \in last + 1 .. n : s[i - k] = blocks[i]
  BY <1>2 DEF IsRemoval
<1>7. hole.info = Unused /\ hole.begin = blocks[first].begin /\ hole.end = blocks[last].end
  OBVIOUS
<1>8. k \in Nat /\ first \in Nat /\ last \in Nat /\ k = last - first
  BY <1>2, <1>3
<1> HIDE DEF first, last, s, k, n, hole
<1>9. Length(hole) > 0
  <2>1. blocks[first].begin <= blocks[b + 1].begin
    <3>1. CASE first = b
      <4>1. b \in 1 .. n - 1
        BY <1>2, <1>3, <3>1
      <4>2. blocks[b].end < blocks[b + 1].begin /\ Length(blocks[b]) > 0
        BY <1>3, <1>4, <4>1
      <4>3. blocks[b].begin \in Int /\ blocks[b].end \in Int /\ blocks[b + 1].begin \in Int
        BY <1>3, <4>1
      <4> QED BY <3>1, <4>2, <4>3 DEF Length
    <3> QED BY <1>2, <1>3, <3>1
  <2>2. Length(blocks[b + 1]) > 0
    BY <1>3, <1>4
  <2>3. blocks[last].end >= blocks[b + 1].end
    <3>1. CASE last = b + 2
      <4>1. b + 1 \in 1 .. n - 1 /\ (b + 1) + 1 = b + 2
        BY <1>2, <1>3, <3>1
      <4>2. blocks[b + 1].end < blocks[b + 2].begin
        <5>1. blocks[b + 1].end < blocks[(b + 1) + 1].begin
          BY <1>4, <4>1
        <5> QED BY <4>1, <5>1
      <4>3. b + 2 \in 1 .. n
        BY <1>3, <4>1
      <4>4. Length(blocks[b + 2]) >= 0
        BY <1>3, <1>4, <4>3 DEF Length
      <4>5. blocks[b + 2].begin \in Int /\ blocks[b + 2].end \in Int /\ blocks[b + 1].end \in Int
        BY <1>3, <4>3
      <4> QED BY <3>1, <4>2, <4>4, <4>5 DEF Length
    <3> QED BY <1>2, <1>3, <3>1
  <2>4. /\ blocks[first].begin \in Int /\ blocks[last].end \in Int
        /\ blocks[b + 1].begin \in Int /\ blocks[b + 1].end \in Int
    BY <1>2, <1>3, <1>8
  <2> QED BY <1>7, <2>1, <2>2, <2>3, <2>4 DEF Length
<1>10. ASSUME NEW j \in 1 .. Len(s)
       PROVE  \/ j < first /\ s[j] = blocks[j]
              \/ j = first /\ s[j] = hole
              \/ j > first /\ j + k \in last + 1 .. n /\ s[j] = blocks[j + k]
  <2>1. j < first => j \in 1 .. first - 1
    BY <1>8
  <2>2. CASE j > first
    <3>1. j + k \in last + 1 .. n /\ (j + k) - k = j
      BY <1>3, <1>6, <1>8, <2>2
    <3> QED BY <1>6, <2>2, <3>1
  <2> QED BY <1>6, <1>8, <2>1, <2>2
<1>11. /\ first > 1 => blocks[first - 1].info # Unused /\ blocks[first - 1].end < hole.begin
       /\ last < n => blocks[last + 1].info # Unused /\ hole.end < blocks[last + 1].begin
  <2>1. ASSUME first > 1
        PROVE  blocks[first - 1].info # Unused /\ blocks[first - 1].end < hole.begin
    <3>1. first - 1 \in 1 .. n - 1 /\ (first - 1) + 1 = first
      BY <1>2, <1>3, <2>1
    <3>2. blocks[first - 1].end < blocks[first].begin
      BY <1>4, <3>1
    <3>3. CASE first = b
      <4>1. blocks[first].info = Unused
        BY <1>5, <3>3
      <4> QED BY <1>4, <1>7, <3>1, <3>2, <4>1
    <3>4. CASE first = b + 1
      <4>1. first - 1 = b /\ b > 0
        BY <1>3, <2>1, <3>4
      <4> QED BY <1>5, <1>7, <3>2, <3>4, <4>1
    <3> QED BY <1>2, <3>3, <3>4
  <2>2. ASSUME last < n
        PROVE  blocks[last + 1].info # Unused /\ hole.end < blocks[last + 1].begin
    <3>1. last \in 1 .. n - 1
      BY <1>2, <1>3, <2>2
    <3>2. blocks[last].end < blocks[last + 1].begin
      BY <1>4, <3>1
    <3>3. CASE last = b + 2
      <4>1. blocks[last].info = Unused
        BY <1>5, <3>3
      <4> QED BY <1>4, <1>7, <3>1, <3>2, <4>1
    <3>4. CASE last = b + 1
      <4>1. last + 1 = b + 2 /\ b + 2 <= n
        BY <1>3, <2>2, <3>4
      <4> QED BY <1>5, <1>7, <3>2, <3>4, <4>1
    <3> QED BY <1>2, <3>3, <3>4
  <2> QED BY <2>1, <2>2
<1>12. Len(s) \in Nat \ {0}
  BY <1>2, <1>3, <1>6, <1>8
<1>13. ASSUME NEW j \in 1 .. Len(s) - 1
       PROVE  s[j].end < s[j + 1].begin /\ ~(s[j].info = Unused /\ s[j + 1].info = Unused)
  <2>0. /\ j \in 1 .. Len(s) /\ j + 1 \in 1 .. Len(s) /\ j \in Int
        /\ \/ j + 1 < first /\ s[j + 1] = blocks[j + 1]
           \/ j + 1 = first /\ s[j + 1] = hole
           \/ j + 1 > first /\ j + 1 + k \in last + 1 .. n /\ s[j + 1] = blocks[j + 1 + k]
    BY <1>10, <1>12
  <2>1. CASE j < first /\ s[j] = blocks[j]
    <3>1. CASE j + 1 < first
      <4>1. s[j + 1] = blocks[j + 1] /\ j \in 1 .. n - 1
        BY <1>2, <1>3, <1>8, <2>0, <3>1
      <4> QED BY <1>4, <2>1, <4>1
    <3>2. CASE j + 1 = first
      <4>1. s[j + 1] = hole /\ j = first - 1 /\ first > 1
        BY <1>8, <2>0, <3>2
      <4> QED BY <1>7, <1>11, <2>1, <4>1
    <3> QED BY <1>8, <2>0, <2>1, <3>1, <3>2
  <2>2. CASE j = first /\ s[j] = hole
    <3>1. s[j + 1] = blocks[last + 1] /\ last < n
      <4>1. j + 1 + k = last + 1 /\ j + 1 + k \in last + 1 .. n /\ s[j + 1] = blocks[j + 1 + k]
        BY <1>8, <2>0, <2>2
      <4> QED BY <1>3, <1>8, <4>1
    <3> QED BY <1>11, <2>2, <3>1
  <2>3. CASE j > first /\ j + k \in last + 1 .. n /\ s[j] = blocks[j + k]
    <3>1. j + k \in 1 .. n - 1 /\ s[j + 1] = blocks[(j + k) + 1]
      <4>1. j + 1 + k = (j + k) + 1 /\ j + 1 + k \in last + 1 .. n /\ s[j + 1] = blocks[j + 1 + k]
        BY <1>8, <2>0, <2>3
      <4> QED BY <1>3, <1>8, <2>3, <4>1
    <3> QED BY <1>4, <2>3, <3>1
  <2> QED BY <1>10, <2>0, <2>1, <2>2, <2>3
<1>14. ASSUME NEW j \in 1 .. Len(s)
       PROVE  \/ Length(s[j]) > 0
              \/ j = Len(s) /\ Length(s[j]) = 0 /\ s[j].info = Unused
  <2>1. CASE j < first /\ s[j] = blocks[j]
    <3>1. j \in 1 .. n /\ j # n
      BY <1>2, <1>3, <2>1
    <3> QED BY <1>4, <2>1, <3>1
  <2>2. CASE j = first /\ s[j] = hole
    BY <1>9, <2>2
  <2>3. CASE j > first /\ j + k \in last + 1 .. n /\ s[j] = blocks[j + k]
    <3>1. j + k \in 1 .. n /\ (j + k = n => j = Len(s))
      BY <1>3, <1>6, <1>8, <2>3
    <3> QED BY <1>4, <2>3, <3>1
  <2> QED BY <1>10, <2>1, <2>2, <2>3
<1>15. InOrder(s)
  BY <1>6, <1>12, <1>13, <1>14 DEF InOrder
<1> QED BY <1>15 DEF s

-----------------------------------------------------------------------------
(* Compaction *)

(* What the loop of compact has moved after each block. *)
Moved ==
    LET moved[b \in 0 .. Len(blocks)] ==
          IF b = 0 THEN <<>>
          ELSE IF blocks[b].info = Unused THEN moved[b - 1]
          ELSE LET m == moved[b - 1]
               IN  Append(m, [info |-> blocks[b].info, begin |-> next_begin(m),
                              end |-> blocks[b].end - blocks[b].begin + next_begin(m)])
    IN  moved

LEMMA GatheredIsLast == Gathered = Moved[Len(blocks)]
BY DEF Gathered, Moved

MoveOne(m, block) ==
    IF block.info = Unused THEN m
    ELSE Append(m, [info |-> block.info, begin |-> next_begin(m),
                    end |-> block.end - block.begin + next_begin(m)])

LEMMA MovedIs ==
    ASSUME AllocatorTypeOK
    PROVE  /\ Moved[0] = <<>>
           /\ \A b \in 1 .. Len(blocks) : Moved[b] = MoveOne(Moved[b - 1], blocks[b])
<1> DEFINE n == Len(blocks)
           D == Seq([info : Names \cup {Unused}, begin : Int, end : Int])
           h == [b \in 1 .. n |-> [m \in D |-> MoveOne(m, blocks[b])]]
           Eq(f) == f = [b \in 0 .. n |->
                            IF b = 0 THEN <<>>
                            ELSE IF blocks[b].info = Unused THEN f[b - 1]
                            ELSE LET m == f[b - 1]
                                 IN  Append(m, [info |-> blocks[b].info, begin |-> next_begin(m),
                                                end |-> blocks[b].end - blocks[b].begin + next_begin(m)])]
<1>1. n \in Nat /\ <<>> \in D
  BY BlockTypes
<1>2. ASSUME NEW b \in 1 .. n, NEW m \in D
      PROVE  MoveOne(m, blocks[b]) \in D
  <2>1. next_begin(m) \in Int
    <3>1. CASE m = <<>>
      BY <3>1 DEF next_begin
    <3>2. CASE m # <<>>
      <4>1. Len(m) \in 1 .. Len(m)
        BY <3>2, EmptySeq
      <4>2. m[Len(m)] \in [info : Names \cup {Unused}, begin : Int, end : Int]
        BY <4>1, ElementOfSeq
      <4> QED BY <3>2, <4>2 DEF next_begin, Last
    <3> QED BY <3>1, <3>2
  <2>2. /\ blocks[b].info \in Names \cup {Unused}
        /\ blocks[b].begin \in Int /\ blocks[b].end \in Int
    BY BlockTypes
  <2>3. [info |-> blocks[b].info, begin |-> next_begin(m),
         end |-> blocks[b].end - blocks[b].begin + next_begin(m)]
            \in [info : Names \cup {Unused}, begin : Int, end : Int]
    BY <2>1, <2>2
  <2> QED BY <2>3, AppendProperties DEF MoveOne
<1> HIDE DEF n, D
<1>3. h \in [1 .. n -> [D -> D]]
  BY <1>2
<1>4. CanIterate(n, D, <<>>, h)
  BY <1>1, <1>3 DEF CanIterate
<1>5. PICK f : IsIteration(f, n, D, <<>>, h)
  BY <1>4, Recursion
<1>6. f \in [0 .. n -> D] /\ f[0] = <<>> /\ \A b \in 1 .. n : f[b] = h[b][f[b - 1]]
  BY <1>5 DEF IsIteration
<1>7. ASSUME NEW b \in 1 .. n
      PROVE  f[b] = MoveOne(f[b - 1], blocks[b])
  <2>1. f[b - 1] \in D
    BY <1>1, <1>6
  <2> QED BY <1>6, <2>1
<1>8. \A b \in 0 .. n : f[b] = IF b = 0 THEN <<>> ELSE MoveOne(f[b - 1], blocks[b])
  <2> SUFFICES ASSUME NEW b \in 0 .. n, b # 0
               PROVE  f[b] = MoveOne(f[b - 1], blocks[b])
    BY <1>6
  <2>1. b \in 1 .. n
    BY <1>1
  <2> QED BY <1>7, <2>1
<1> HIDE DEF h
<1>9. Eq(f)
  BY <1>6, <1>8 DEF MoveOne
<1>10. Eq(Moved)
  BY <1>9 DEF Moved, n
<1> DEFINE g == Moved
<1> HIDE DEF g
<1>11. g = [b \in 0 .. n |-> IF b = 0 THEN <<>> ELSE MoveOne(g[b - 1], blocks[b])]
  BY <1>10 DEF MoveOne, g
<1>12. 0 \in 0 .. n /\ \A b \in 1 .. n : b \in 0 .. n /\ b # 0
  BY <1>1
<1>13. g[0] = <<>> /\ \A b \in 1 .. n : g[b] = MoveOne(g[b - 1], blocks[b])
  BY <1>11, <1>12
<1> QED BY <1>13 DEF g, n

(* m are the processes' blocks among the first b, from the bottom upwards. *)
IsGathered(m, b) ==
    /\ m \in Seq(Blocks)
    /\ next_begin(m) \in Nat
    /\ next_begin(m) <= IF b = 0 THEN 0 ELSE blocks[b].end + 1
    /\ \A i \in 1 .. Len(m) : m[i].info # Unused /\ Length(m[i]) > 0 /\ m[i].end < next_begin(m)
    /\ \A i \in 1 .. Len(m) - 1 : m[i].end < m[i + 1].begin
    /\ \A x \in 0 .. next_begin(m) - 1 : \E i \in 1 .. Len(m) : x \in m[i].begin .. m[i].end

LEMMA MovedIsGathered ==
    ASSUME InOrder(blocks), AllocatorTypeOK
    PROVE  \A b \in 0 .. Len(blocks) : IsGathered(Moved[b], b)
<1> DEFINE S == {b \in 0 .. Len(blocks) : IsGathered(Moved[b], b)}
<1>0. Len(blocks) \in Nat \ {0} /\ capacity \in Nat \ {0}
  BY BlockTypes
<1>1. 0 \in S
  <2>1. Moved[0] = <<>>
    BY MovedIs
  <2>2. next_begin(<<>>) = 0 /\ <<>> \in Seq(Blocks) /\ Len(<<>>) = 0
    BY DEF next_begin
  <2>3. 1 .. 0 = {} /\ 1 .. 0 - 1 = {} /\ 0 .. 0 - 1 = {}
    OBVIOUS
  <2>4. IsGathered(<<>>, 0)
    BY <2>2, <2>3 DEF IsGathered
  <2> QED BY <1>0, <2>1, <2>4
<1>2. ASSUME NEW b \in 1 .. Len(blocks), b - 1 \in S
      PROVE  b \in S
  <2> DEFINE m == Moved[b - 1]
             nb == next_begin(m)
             e == [info |-> blocks[b].info, begin |-> nb,
                   end |-> blocks[b].end - blocks[b].begin + nb]
             r == Append(m, e)
             l == Len(m)
  <2>1. /\ m \in Seq(Blocks)
        /\ nb \in Nat
        /\ nb <= IF b - 1 = 0 THEN 0 ELSE blocks[b - 1].end + 1
        /\ \A i \in 1 .. l : m[i].info # Unused /\ Length(m[i]) > 0 /\ m[i].end < nb
        /\ \A i \in 1 .. l - 1 : m[i].end < m[i + 1].begin
        /\ \A x \in 0 .. nb - 1 : \E i \in 1 .. l : x \in m[i].begin .. m[i].end
    BY <1>2 DEF IsGathered
  <2>2. /\ blocks[b].info \in Names \cup {Unused}
        /\ blocks[b].begin \in 0 .. capacity /\ blocks[b].end \in 0 .. capacity - 1
    BY BlockTypes
  <2>3. nb <= blocks[b].begin
    <3>1. CASE b = 1
      BY <2>1, <2>2, <3>1
    <3>2. CASE b > 1
      <4>1. b - 1 \in 1 .. Len(blocks) - 1 /\ (b - 1) + 1 = b /\ b - 1 # 0 /\ b - 1 \in 1 .. Len(blocks)
        BY <1>0, <3>2
      <4>2. blocks[b - 1].end < blocks[b].begin
        BY <4>1 DEF InOrder
      <4>3. blocks[b - 1].end \in Int
        BY <4>1, BlockTypes
      <4>4. nb <= blocks[b - 1].end + 1
        BY <2>1, <4>1
      <4> HIDE DEF nb, m
      <4> QED BY <2>1, <2>2, <4>2, <4>3, <4>4
    <3> QED BY <3>1, <3>2
  <2>4. Length(blocks[b]) >= 0 /\ (blocks[b].info # Unused => Length(blocks[b]) > 0)
    BY <2>2 DEF InOrder, Length
  <2>5. Moved[b] = IF blocks[b].info = Unused THEN m ELSE r
    BY MovedIs DEF MoveOne
  <2>6. CASE blocks[b].info = Unused
    <3>1. nb <= blocks[b].end + 1
      <4> HIDE DEF nb, m
      <4> QED BY <2>1, <2>2, <2>3, <2>4 DEF Length
    <3> HIDE DEF m
    <3>2. IsGathered(m, b)
      BY <2>1, <3>1 DEF IsGathered
    <3> QED BY <2>5, <2>6, <3>2
  <2>7. CASE blocks[b].info # Unused
    <3> HIDE DEF nb, m
    <3>1. /\ e.info # Unused /\ e.begin = nb /\ e.end \in nb .. blocks[b].end
          /\ Length(e) > 0
      BY <2>1, <2>2, <2>3, <2>4, <2>7 DEF Length
    <3>2. e \in Blocks
      <4>1. e.begin \in 0 .. capacity /\ e.end \in 0 .. capacity - 1
        BY <1>0, <2>1, <2>2, <2>3, <3>1
      <4> QED BY <2>2, <4>1 DEF Blocks
    <3>3. l \in Nat /\ e.end \in Nat
      BY <2>1, <2>2, <3>1
    <3> HIDE DEF e
    <3>4. /\ r \in Seq(Blocks) /\ r # <<>> /\ Len(r) = l + 1
          /\ \A i \in 1 .. l : r[i] = m[i]
          /\ r[l + 1] = e
      <4>1. m \in Seq(Blocks)
        BY <2>1
      <4> QED BY <3>2, <4>1, AppendProperties
    <3> HIDE DEF r, l
    <3>5. next_begin(r) = e.end + 1
      BY <3>4 DEF next_begin, Last
    <3>6. ASSUME NEW i \in 1 .. Len(r)
          PROVE  r[i].info # Unused /\ Length(r[i]) > 0 /\ r[i].end < next_begin(r)
      <4>1. CASE i = l + 1
        BY <3>1, <3>3, <3>4, <3>5, <4>1
      <4>2. CASE i \in 1 .. l
        <5>1. m[i] \in Blocks /\ r[i] = m[i]
          BY <2>1, <3>4, <4>2, ElementOfSeq DEF l
        <5>2. m[i].end \in Int /\ m[i].end < nb
          BY <2>1, <2>2, <4>2, <5>1, <1>0 DEF Blocks
        <5> QED BY <2>1, <3>1, <3>3, <3>5, <4>2, <5>1, <5>2
      <4> QED BY <3>3, <3>4, <4>1, <4>2
    <3>7. ASSUME NEW i \in 1 .. Len(r) - 1
          PROVE  r[i].end < r[i + 1].begin
      <4>1. CASE i = l
        <5>1. i \in 1 .. l /\ r[i + 1] = e
          BY <3>3, <3>4, <4>1
        <5> QED BY <2>1, <3>1, <3>4, <5>1
      <4>2. CASE i \in 1 .. l - 1
        <5>1. i \in 1 .. l /\ i + 1 \in 1 .. l
          BY <3>3, <4>2
        <5> QED BY <2>1, <3>4, <4>2, <5>1
      <4> QED BY <3>3, <3>4, <4>1, <4>2
    <3>8. ASSUME NEW x \in 0 .. next_begin(r) - 1
          PROVE  \E i \in 1 .. Len(r) : x \in r[i].begin .. r[i].end
      <4>1. CASE x < nb
        <5>1. x \in 0 .. nb - 1
          BY <2>1, <3>3, <3>5, <4>1
        <5>2. PICK i \in 1 .. l : x \in m[i].begin .. m[i].end
          BY <2>1, <5>1
        <5>3. i \in 1 .. Len(r) /\ r[i] = m[i]
          BY <3>3, <3>4
        <5> QED BY <5>2, <5>3
      <4>2. CASE x >= nb
        <5>1. x \in e.begin .. e.end
          BY <2>1, <3>1, <3>3, <3>5, <4>2
        <5>2. l + 1 \in 1 .. Len(r)
          BY <3>3, <3>4
        <5> QED BY <3>4, <5>1, <5>2
      <4> QED BY <2>1, <3>3, <3>5, <4>1, <4>2
    <3>9. next_begin(r) \in Nat /\ next_begin(r) <= blocks[b].end + 1 /\ b # 0
      BY <2>2, <3>1, <3>3, <3>5
    <3>10. IsGathered(r, b)
      BY <3>4, <3>6, <3>7, <3>8, <3>9 DEF IsGathered
    <3> QED BY <2>5, <2>7, <3>10
  <2> QED BY <2>6, <2>7
<1> HIDE DEF S
<1>3. 0 .. Len(blocks) \subseteq S
  BY <1>0, <1>1, <1>2, BoundedInduction
<1> QED BY <1>3 DEF S

Compacted == Append(Gathered, [info |-> Unused, begin |-> next_begin(Gathered), end |-> capacity - 1])

LEMMA CompactionInOrder ==
    ASSUME BlocksInOrder, HolesAreMerged
    PROVE  /\ InOrder(Compacted)
           /\ UNION {Compacted[i].begin .. Compacted[i].end : i \in DOMAIN Compacted} = 0 .. capacity - 1
<1> DEFINE m == Gathered
           nb == next_begin(m)
           e == [info |-> Unused, begin |-> nb, end |-> capacity - 1]
           r == Compacted
           l == Len(m)
<1>0. AllocatorTypeOK /\ InOrder(blocks)
  BY InvariantIsInOrder DEF BlocksInOrder
<1>1. capacity \in Nat \ {0} /\ Len(blocks) \in Nat \ {0} /\ blocks[Len(blocks)].end \in 0 .. capacity - 1
  <2>1. Len(blocks) \in 1 .. Len(blocks)
    BY <1>0, BlockTypes
  <2> QED BY <1>0, <2>1, BlockTypes
<1>2. IsGathered(m, Len(blocks))
  <2>1. Len(blocks) \in 0 .. Len(blocks)
    BY <1>1
  <2> QED BY <1>0, <2>1, MovedIsGathered, GatheredIsLast
<1>3. /\ m \in Seq(Blocks)
      /\ nb \in 0 .. capacity
      /\ \A i \in 1 .. l : m[i].info # Unused /\ Length(m[i]) > 0 /\ m[i].end < nb
      /\ \A i \in 1 .. l - 1 : m[i].end < m[i + 1].begin
      /\ \A x \in 0 .. nb - 1 : \E i \in 1 .. l : x \in m[i].begin .. m[i].end
  <2> HIDE DEF m
  <2> QED BY <1>1, <1>2 DEF IsGathered
<1>4. r = Append(m, e)
  BY DEF Compacted
<1> HIDE DEF m, r
<1>5. e \in Blocks /\ l \in Nat
  BY <1>1, <1>3 DEF Blocks
<1>6. e.info = Unused /\ e.begin = nb /\ e.end = capacity - 1
  OBVIOUS
<1>7. /\ r \in Seq(Blocks) /\ Len(r) = l + 1
      /\ \A i \in 1 .. l : r[i] = m[i]
      /\ r[l + 1] = e
  <2> HIDE DEF e
  <2> QED BY <1>3, <1>4, <1>5, AppendProperties
<1> HIDE DEF nb, e, l
<1>8. ASSUME NEW i \in 1 .. Len(r) - 1
      PROVE  r[i].end < r[i + 1].begin /\ r[i].info # Unused
  <2>1. CASE i = l
    <3>1. i \in 1 .. l /\ r[i + 1] = e
      BY <1>5, <1>7, <2>1
    <3> QED BY <1>3, <1>6, <1>7, <3>1
  <2>2. CASE i \in 1 .. l - 1
    <3>1. i \in 1 .. l /\ i + 1 \in 1 .. l
      BY <1>5, <2>2
    <3> QED BY <1>3, <1>7, <2>2, <3>1
  <2> QED BY <1>5, <1>7, <2>1, <2>2
<1>9. ASSUME NEW i \in 1 .. Len(r)
      PROVE  \/ Length(r[i]) > 0
             \/ i = Len(r) /\ Length(r[i]) = 0 /\ r[i].info = Unused
  <2>1. CASE i = l + 1
    BY <1>1, <1>3, <1>6, <1>7, <2>1 DEF Length
  <2>2. CASE i \in 1 .. l
    BY <1>3, <1>7, <2>2
  <2> QED BY <1>5, <1>7, <2>1, <2>2
<1>10. Len(r) # 0
  BY <1>5, <1>7
<1>11. InOrder(r)
  BY <1>7, <1>8, <1>9, <1>10 DEF InOrder
<1>12. DOMAIN r = 1 .. Len(r) /\ \A i \in 1 .. Len(r) : r[i].begin \in 0 .. capacity /\ r[i].end \in 0 .. capacity - 1
  BY <1>11, ListTypes
<1>13. ASSUME NEW x \in 0 .. capacity - 1
       PROVE  \E i \in 1 .. Len(r) : x \in r[i].begin .. r[i].end
  <2>1. CASE x < nb
    <3>1. x \in 0 .. nb - 1
      BY <1>1, <1>3, <2>1
    <3>2. PICK i \in 1 .. l : x \in m[i].begin .. m[i].end
      BY <1>3, <3>1
    <3>3. i \in 1 .. Len(r) /\ r[i] = m[i]
      BY <1>5, <1>7
    <3> QED BY <3>2, <3>3
  <2>2. CASE x >= nb
    <3>1. x \in e.begin .. e.end
      BY <1>1, <1>3, <1>6, <2>2
    <3>2. l + 1 \in 1 .. Len(r)
      BY <1>5, <1>7
    <3> QED BY <1>7, <3>1, <3>2
  <2> QED BY <1>1, <1>3, <2>1, <2>2
<1>14. \A i \in 1 .. Len(r) : r[i].begin .. r[i].end \subseteq 0 .. capacity - 1
  <2> SUFFICES ASSUME NEW i \in 1 .. Len(r), NEW x \in r[i].begin .. r[i].end
               PROVE  x \in 0 .. capacity - 1
    OBVIOUS
  <2>1. r[i].begin \in 0 .. capacity /\ r[i].end \in 0 .. capacity - 1
    BY <1>12
  <2> QED BY <1>1, <2>1
<1>15. UNION {r[i].begin .. r[i].end : i \in DOMAIN r} = 0 .. capacity - 1
  BY <1>12, <1>13, <1>14
<1> QED BY <1>11, <1>15 DEF r

-----------------------------------------------------------------------------
(* Searches *)

Holes(length) == {b \in 1 .. Len(blocks) : Holds(b, length)}

(* The hole found first. *)
LEMMA FirstFitFinds ==
    ASSUME AllocatorTypeOK, NEW length \in Lengths
    PROVE  /\ Holes(length) = {} => first_fit(length) = None
           /\ Holes(length) # {} => /\ first_fit(length) \in Nat
                                    /\ first_fit(length) + 1 \in Holes(length)
                                    /\ \A c \in Holes(length) : first_fit(length) + 1 <= c
<1>1. DOMAIN blocks = 1 .. Len(blocks) /\ Len(blocks) \in Nat
  BY BlockTypes
<1>2. first_fit(length) = IF Holes(length) = {} THEN None
                          ELSE (CHOOSE b \in Holes(length) : \A c \in Holes(length) : b <= c) - 1
  BY <1>1 DEF first_fit, Holes
<1>3. ASSUME Holes(length) # {}
      PROVE  /\ first_fit(length) \in Nat
             /\ first_fit(length) + 1 \in Holes(length)
             /\ \A c \in Holes(length) : first_fit(length) + 1 <= c
  <2>1. Holes(length) \in SUBSET (1 .. Len(blocks))
    BY DEF Holes
  <2>2. \E b \in Holes(length) : \A c \in Holes(length) : b <= c
    <3> DEFINE X == Holes(length)
    <3> HIDE DEF X
    <3>1. 1 \in Int /\ Len(blocks) \in Int /\ X \in SUBSET (1 .. Len(blocks)) /\ X # {}
      BY <1>1, <1>3, <2>1 DEF X
    <3>2. \E b \in X : \A c \in X : b <= c
      BY <3>1, RangeHasLeast
    <3> QED BY <3>2 DEF X
  <2>3. PICK b \in Holes(length) : b = (CHOOSE x \in Holes(length) : \A c \in Holes(length) : x <= c)
                                   /\ \A c \in Holes(length) : b <= c
    BY <2>2
  <2>4. first_fit(length) = b - 1
    BY <1>2, <1>3, <2>3
  <2>5. b \in 1 .. Len(blocks) /\ b - 1 \in Nat /\ (b - 1) + 1 = b
    BY <1>1, <2>1
  <2>6. \A c \in Holes(length) : b <= c
    BY <2>3
  <2> QED BY <2>4, <2>5, <2>6
<1> QED BY <1>2, <1>3

(* best_fit and worst_fit are the same loop but for the comparison. *)
Beats(best, m, n) == IF best THEN m < n ELSE m > n

Fit(best) == [block |-> None, length |-> IF best THEN capacity + 1 ELSE 0]

ScanOne(best, length, found, b) ==
    IF Holds(b, length) /\ Beats(best, Length(blocks[b]), found.length)
    THEN [block |-> b - 1, length |-> Length(blocks[b])] ELSE found

IsScan(f, best, length) ==
    /\ f[0] = Fit(best)
    /\ \A b \in 1 .. Len(blocks) : f[b] = ScanOne(best, length, f[b - 1], b)

LEMMA ScanExists ==
    ASSUME AllocatorTypeOK, NEW length \in Lengths, NEW best \in BOOLEAN
    PROVE  \E f : IsScan(f, best, length) /\ DOMAIN f = 0 .. Len(blocks)
                  /\ f = [b \in 0 .. Len(blocks) |-> f[b]]
<1> DEFINE n == Len(blocks)
           D == [block : Int \cup {None}, length : Int]
           h == [b \in 1 .. n |-> [m \in D |-> ScanOne(best, length, m, b)]]
<1>1. n \in Nat /\ capacity \in Nat
  BY BlockTypes
<1>2. Fit(best) \in D
  BY <1>1 DEF Fit
<1>3. ASSUME NEW b \in 1 .. n, NEW m \in D
      PROVE  ScanOne(best, length, m, b) \in D
  <2>1. Length(blocks[b]) \in Int
    BY BlockTypes DEF Length
  <2> QED BY <2>1 DEF ScanOne
<1> HIDE DEF n, D
<1>4. h \in [1 .. n -> [D -> D]]
  BY <1>3
<1>5. CanIterate(n, D, Fit(best), h)
  BY <1>1, <1>2, <1>4 DEF CanIterate
<1>6. PICK f : IsIteration(f, n, D, Fit(best), h)
  BY <1>5, Recursion
<1>7. f \in [0 .. n -> D] /\ f[0] = Fit(best) /\ \A b \in 1 .. n : f[b] = h[b][f[b - 1]]
  BY <1>6 DEF IsIteration
<1>8. ASSUME NEW b \in 1 .. n
      PROVE  f[b] = ScanOne(best, length, f[b - 1], b)
  <2>1. f[b - 1] \in D
    BY <1>1, <1>7
  <2> QED BY <1>7, <2>1
<1> QED BY <1>7, <1>8 DEF IsScan, n

BestLoop(length) ==
    LET scan[b \in 0 .. Len(blocks)] ==
          IF b = 0 THEN [block |-> None, length |-> capacity + 1]
          ELSE LET min == scan[b - 1]
               IN  IF Holds(b, length) /\ Length(blocks[b]) < min.length
                   THEN [block |-> b - 1, length |-> Length(blocks[b])] ELSE min
    IN  scan

WorstLoop(length) ==
    LET scan[b \in 0 .. Len(blocks)] ==
          IF b = 0 THEN [block |-> None, length |-> 0]
          ELSE LET max == scan[b - 1]
               IN  IF Holds(b, length) /\ Length(blocks[b]) > max.length
                   THEN [block |-> b - 1, length |-> Length(blocks[b])] ELSE max
    IN  scan

LEMMA FitsAreLast ==
    ASSUME NEW length
    PROVE  /\ best_fit(length) = BestLoop(length)[Len(blocks)].block
           /\ worst_fit(length) = WorstLoop(length)[Len(blocks)].block
BY DEF best_fit, worst_fit, BestLoop, WorstLoop

LEMMA LoopsScan ==
    ASSUME AllocatorTypeOK, NEW length \in Lengths
    PROVE  IsScan(BestLoop(length), TRUE, length) /\ IsScan(WorstLoop(length), FALSE, length)
<1> DEFINE n == Len(blocks)
           One(f, best, b) == IF b = 0 THEN Fit(best) ELSE ScanOne(best, length, f[b - 1], b)
<1>0. n \in Nat /\ 0 \in 0 .. n /\ \A b \in 1 .. n : b \in 0 .. n /\ b # 0
  BY BlockTypes
<1>1. ASSUME NEW best \in BOOLEAN
      PROVE  \E f : f = [b \in 0 .. n |-> One(f, best, b)]
  <2>1. PICK f : IsScan(f, best, length) /\ f = [b \in 0 .. n |-> f[b]]
    BY <1>1, ScanExists
  <2>2. \A b \in 0 .. n : f[b] = One(f, best, b)
    BY <1>0, <2>1 DEF IsScan
  <2> QED BY <2>1, <2>2
<1>2. IsScan(BestLoop(length), TRUE, length)
  <2> DEFINE Eq(f) == f = [b \in 0 .. n |->
                              IF b = 0 THEN [block |-> None, length |-> capacity + 1]
                              ELSE LET min == f[b - 1]
                                   IN  IF Holds(b, length) /\ Length(blocks[b]) < min.length
                                       THEN [block |-> b - 1, length |-> Length(blocks[b])] ELSE min]
             g == BestLoop(length)
  <2>1. PICK f : f = [b \in 0 .. n |-> One(f, TRUE, b)]
    BY <1>1
  <2>2. Eq(f)
    BY <2>1 DEF Fit, ScanOne, Beats
  <2>3. Eq(g)
    BY <2>2 DEF BestLoop
  <2> HIDE DEF g
  <2>4. g = [b \in 0 .. n |-> One(g, TRUE, b)]
    BY <2>3 DEF Fit, ScanOne, Beats
  <2>5. g[0] = Fit(TRUE) /\ \A b \in 1 .. n : g[b] = ScanOne(TRUE, length, g[b - 1], b)
    BY <1>0, <2>4
  <2> QED BY <2>5 DEF IsScan, g
<1>3. IsScan(WorstLoop(length), FALSE, length)
  <2> DEFINE Eq(f) == f = [b \in 0 .. n |->
                              IF b = 0 THEN [block |-> None, length |-> 0]
                              ELSE LET max == f[b - 1]
                                   IN  IF Holds(b, length) /\ Length(blocks[b]) > max.length
                                       THEN [block |-> b - 1, length |-> Length(blocks[b])] ELSE max]
             g == WorstLoop(length)
  <2>1. PICK f : f = [b \in 0 .. n |-> One(f, FALSE, b)]
    BY <1>1
  <2>2. Eq(f)
    BY <2>1 DEF Fit, ScanOne, Beats
  <2>3. Eq(g)
    BY <2>2 DEF WorstLoop
  <2> HIDE DEF g
  <2>4. g = [b \in 0 .. n |-> One(g, FALSE, b)]
    BY <2>3 DEF Fit, ScanOne, Beats
  <2>5. g[0] = Fit(FALSE) /\ \A b \in 1 .. n : g[b] = ScanOne(FALSE, length, g[b - 1], b)
    BY <1>0, <2>4
  <2> QED BY <2>5 DEF IsScan, g
<1> QED BY <1>2, <1>3

(* The hole b is better than c, or as good and found before it. *)
Preferred(best, b, c) ==
    \/ Beats(best, Length(blocks[b]), Length(blocks[c]))
    \/ Length(blocks[b]) = Length(blocks[c]) /\ b < c

(* found is what a loop has found in the first n blocks. *)
FoundHole(found, best, length, n) ==
    \/ found = Fit(best) /\ \A c \in 1 .. n : c \notin Holes(length)
    \/ \E b \in Holes(length) :
          /\ b <= n
          /\ found = [block |-> b - 1, length |-> Length(blocks[b])]
          /\ \A c \in Holes(length) \ {b} : c <= n => Preferred(best, b, c)

LEMMA ScanFinds ==
    ASSUME AllocatorTypeOK, NEW length \in Lengths, NEW best \in BOOLEAN,
           NEW f, IsScan(f, best, length)
    PROVE  FoundHole(f[Len(blocks)], best, length, Len(blocks))
<1> DEFINE S == {n \in 0 .. Len(blocks) : FoundHole(f[n], best, length, n)}
<1>0. /\ Len(blocks) \in Nat /\ capacity \in Nat \ {0} /\ length \in Nat \ {0}
      /\ \A b \in 1 .. Len(blocks) : Length(blocks[b]) \in Int /\ Length(blocks[b]) <= capacity
      /\ \A b \in Holes(length) : b \in 1 .. Len(blocks) /\ Length(blocks[b]) >= length /\ Holds(b, length)
      /\ \A b \in 1 .. Len(blocks) : Holds(b, length) => b \in Holes(length)
  <2>1. ASSUME NEW b \in 1 .. Len(blocks)
        PROVE  Length(blocks[b]) \in Int /\ Length(blocks[b]) <= capacity
    <3>1. /\ blocks[b].begin \in 0 .. capacity /\ blocks[b].end \in 0 .. capacity - 1
          /\ capacity \in Nat
      BY BlockTypes
    <3> QED BY <3>1 DEF Length
  <2> QED BY <2>1, BlockTypes DEF Lengths, Holes, Holds
<1>1. 0 \in S
  BY <1>0 DEF FoundHole, IsScan
<1>2. ASSUME NEW n \in 1 .. Len(blocks), n - 1 \in S
      PROVE  n \in S
  <2>1. f[n] = ScanOne(best, length, f[n - 1], n) /\ n \in Int
    BY <1>0 DEF IsScan
  <2>2. \A c : c \in Holes(length) /\ c <= n => c = n \/ c <= n - 1
    BY <1>0
  <2>3. CASE f[n - 1] = Fit(best) /\ \A c \in 1 .. n - 1 : c \notin Holes(length)
    <3>1. \A c \in Holes(length) : c <= n => c = n
      BY <1>0, <2>3
    <3>2. CASE n \in Holes(length)
      <4>1. Beats(best, Length(blocks[n]), Fit(best).length)
        BY <1>0, <3>2 DEF Beats, Fit
      <4>2. f[n] = [block |-> n - 1, length |-> Length(blocks[n])]
        BY <1>0, <2>1, <2>3, <3>2, <4>1 DEF ScanOne
      <4>3. FoundHole(f[n], best, length, n)
        BY <2>1, <3>1, <3>2, <4>2 DEF FoundHole
      <4> QED BY <1>0, <4>3
    <3>3. CASE n \notin Holes(length)
      <4>1. ~Holds(n, length)
        BY <1>0, <3>3
      <4>2. f[n] = Fit(best)
        BY <2>1, <2>3, <4>1 DEF ScanOne
      <4>3. \A c \in 1 .. n : c \notin Holes(length)
        BY <3>1, <3>3
      <4> QED BY <1>0, <4>2, <4>3 DEF FoundHole
    <3> QED BY <3>2, <3>3
  <2>4. ASSUME NEW b \in Holes(length), b <= n - 1,
               f[n - 1] = [block |-> b - 1, length |-> Length(blocks[b])],
               \A c \in Holes(length) \ {b} : c <= n - 1 => Preferred(best, b, c)
        PROVE  n \in S
    <3>0. b \in 1 .. Len(blocks) /\ b < n /\ b <= n /\ f[n - 1].length = Length(blocks[b])
      BY <1>0, <2>4
    <3>1. CASE Holds(n, length) /\ Beats(best, Length(blocks[n]), Length(blocks[b]))
      <4>1. f[n] = [block |-> n - 1, length |-> Length(blocks[n])]
        BY <2>1, <3>0, <3>1 DEF ScanOne
      <4>2. ASSUME NEW c \in Holes(length) \ {n}, c <= n
            PROVE  Preferred(best, n, c)
        <5>1. c <= n - 1
          BY <2>2, <4>2
        <5>2. c = b \/ Preferred(best, b, c)
          BY <2>4, <5>1
        <5>3. c \in 1 .. Len(blocks)
          BY <1>0
        <5> QED BY <1>0, <3>0, <3>1, <5>2, <5>3 DEF Preferred, Beats
      <4>3. n \in Holes(length)
        BY <1>0, <3>1
      <4>4. FoundHole(f[n], best, length, n)
        BY <2>1, <4>1, <4>2, <4>3 DEF FoundHole
      <4> QED BY <1>0, <4>4
    <3>2. CASE ~(Holds(n, length) /\ Beats(best, Length(blocks[n]), Length(blocks[b])))
      <4>1. f[n] = [block |-> b - 1, length |-> Length(blocks[b])]
        BY <2>1, <2>4, <3>0, <3>2 DEF ScanOne
      <4>2. ASSUME NEW c \in Holes(length) \ {b}, c <= n
            PROVE  Preferred(best, b, c)
        <5>1. CASE c = n
          <6>1. Holds(n, length)
            BY <1>0, <5>1
          <6> QED BY <1>0, <3>0, <3>2, <5>1, <6>1 DEF Preferred, Beats
        <5>2. CASE c <= n - 1
          BY <2>4, <5>2
        <5> QED BY <2>2, <4>2, <5>1, <5>2
      <4>3. FoundHole(f[n], best, length, n)
        BY <3>0, <4>1, <4>2 DEF FoundHole
      <4> QED BY <1>0, <4>3
    <3> QED BY <3>1, <3>2
  <2> QED BY <1>2, <2>3, <2>4 DEF FoundHole
<1> HIDE DEF S
<1>3. 0 .. Len(blocks) \subseteq S
  BY <1>0, <1>1, <1>2, BoundedInduction
<1>4. Len(blocks) \in S
  BY <1>0, <1>3
<1> QED BY <1>4 DEF S

(* The hole a loop has found, and that there is no other. *)
LEMMA BestIsFound ==
    ASSUME AllocatorTypeOK, NEW length \in Lengths, NEW best \in BOOLEAN,
           NEW found, FoundHole(found, best, length, Len(blocks))
    PROVE  /\ Holes(length) = {} => found.block = None
           /\ Holes(length) # {} =>
                 /\ found.block \in Nat /\ found.block + 1 \in Holes(length)
                 /\ found.block = (CHOOSE b \in Holes(length) :
                                      \A c \in Holes(length) \ {b} : Preferred(best, b, c)) - 1
<1>1. \A b \in Holes(length) : b \in 1 .. Len(blocks) /\ b <= Len(blocks) /\ Length(blocks[b]) \in Int
  <2>1. ASSUME NEW b \in Holes(length)
        PROVE  b \in 1 .. Len(blocks) /\ b <= Len(blocks) /\ Length(blocks[b]) \in Int
    <3>1. b \in 1 .. Len(blocks) /\ Len(blocks) \in Nat
      BY BlockTypes DEF Holes
    <3> QED BY <3>1, BlockTypes DEF Length
  <2> QED BY <2>1
<1>2. CASE found = Fit(best) /\ \A c \in 1 .. Len(blocks) : c \notin Holes(length)
  <2>1. Holes(length) = {}
    BY <1>1, <1>2
  <2> QED BY <1>2, <2>1 DEF Fit
<1>3. ASSUME NEW b \in Holes(length),
             found = [block |-> b - 1, length |-> Length(blocks[b])],
             \A c \in Holes(length) \ {b} : c <= Len(blocks) => Preferred(best, b, c)
      PROVE  /\ Holes(length) # {}
             /\ found.block \in Nat /\ found.block + 1 \in Holes(length)
             /\ found.block = (CHOOSE x \in Holes(length) :
                                  \A c \in Holes(length) \ {x} : Preferred(best, x, c)) - 1
  <2>1. \A c \in Holes(length) \ {b} : Preferred(best, b, c)
    BY <1>1, <1>3
  <2>2. ASSUME NEW x \in Holes(length), \A c \in Holes(length) \ {x} : Preferred(best, x, c)
        PROVE  x = b
    <3> SUFFICES ASSUME x # b
                 PROVE  FALSE
      OBVIOUS
    <3>1. Preferred(best, b, x) /\ Preferred(best, x, b)
      BY <2>1, <2>2
    <3> QED BY <1>1, <3>1 DEF Preferred, Beats
  <2>3. (CHOOSE x \in Holes(length) : \A c \in Holes(length) \ {x} : Preferred(best, x, c)) = b
    BY <2>1, <2>2
  <2>4. found.block = b - 1 /\ b - 1 \in Nat /\ (b - 1) + 1 = b
    BY <1>1, <1>3
  <2> QED BY <2>3, <2>4
<1> QED BY <1>2, <1>3 DEF FoundHole

LEMMA FitsFind ==
    ASSUME AllocatorTypeOK, NEW length \in Lengths
    PROVE  /\ Holes(length) = {} => best_fit(length) = None /\ worst_fit(length) = None
           /\ Holes(length) # {} =>
                 /\ best_fit(length) \in Nat /\ best_fit(length) + 1 \in Holes(length)
                 /\ worst_fit(length) \in Nat /\ worst_fit(length) + 1 \in Holes(length)
                 /\ best_fit(length) = (CHOOSE b \in Holes(length) :
                                           \A c \in Holes(length) \ {b} : Preferred(TRUE, b, c)) - 1
                 /\ worst_fit(length) = (CHOOSE b \in Holes(length) :
                                            \A c \in Holes(length) \ {b} : Preferred(FALSE, b, c)) - 1
<1>1. /\ FoundHole(BestLoop(length)[Len(blocks)], TRUE, length, Len(blocks))
      /\ FoundHole(WorstLoop(length)[Len(blocks)], FALSE, length, Len(blocks))
  BY LoopsScan, ScanFinds
<1> DEFINE low == BestLoop(length)[Len(blocks)]
           high == WorstLoop(length)[Len(blocks)]
<1>2. best_fit(length) = low.block /\ worst_fit(length) = high.block
  BY FitsAreLast
<1> HIDE DEF low, high
<1>3. FoundHole(low, TRUE, length, Len(blocks)) /\ FoundHole(high, FALSE, length, Len(blocks))
  BY <1>1 DEF low, high
<1>4. /\ Holes(length) = {} => low.block = None
      /\ Holes(length) # {} =>
            /\ low.block \in Nat /\ low.block + 1 \in Holes(length)
            /\ low.block = (CHOOSE b \in Holes(length) :
                                \A c \in Holes(length) \ {b} : Preferred(TRUE, b, c)) - 1
  BY <1>3, BestIsFound
<1>5. /\ Holes(length) = {} => high.block = None
      /\ Holes(length) # {} =>
            /\ high.block \in Nat /\ high.block + 1 \in Holes(length)
            /\ high.block = (CHOOSE b \in Holes(length) :
                                 \A c \in Holes(length) \ {b} : Preferred(FALSE, b, c)) - 1
  BY <1>3, BestIsFound
<1> QED BY <1>2, <1>4, <1>5

LEMMA SearchesFind ==
    ASSUME BlocksInOrder
    PROVE  SearchesFindTheirHoles
<1>0. AllocatorTypeOK
  BY DEF BlocksInOrder
<1> SUFFICES ASSUME NEW length \in Lengths
             PROVE  LET holes == {b \in DOMAIN blocks : Holds(b, length)}
                        Best(preferred(_, _)) ==
                            CHOOSE b \in holes : \A c \in holes \ {b} :
                                \/ preferred(Length(blocks[b]), Length(blocks[c]))
                                \/ Length(blocks[b]) = Length(blocks[c]) /\ b < c
                    IN  IF holes = {}
                        THEN None = first_fit(length) /\ None = best_fit(length) /\ None = worst_fit(length)
                        ELSE /\ first_fit(length) + 1 \in holes /\ \A b \in holes : first_fit(length) < b
                             /\ best_fit(length) = Best(LAMBDA m, n : m < n) - 1
                             /\ worst_fit(length) = Best(LAMBDA m, n : m > n) - 1
  BY DEF SearchesFindTheirHoles
<1> DEFINE holes == Holes(length)
<1>1. {b \in DOMAIN blocks : Holds(b, length)} = holes
  BY <1>0, BlockTypes DEF Holes
<1> HIDE DEF holes
<1>2. /\ holes = {} => first_fit(length) = None
      /\ holes # {} => /\ first_fit(length) \in Nat
                       /\ first_fit(length) + 1 \in holes
                       /\ \A c \in holes : first_fit(length) + 1 <= c
  BY <1>0, FirstFitFinds DEF holes
<1>3. \A c \in holes : c \in Int
  BY DEF holes, Holes
<1>4. holes # {} => \A b \in holes : first_fit(length) < b
  BY <1>2, <1>3
<1>5. /\ holes = {} => best_fit(length) = None /\ worst_fit(length) = None
      /\ holes # {} =>
            /\ best_fit(length) = (CHOOSE b \in holes : \A c \in holes \ {b} :
                                      \/ Length(blocks[b]) < Length(blocks[c])
                                      \/ Length(blocks[b]) = Length(blocks[c]) /\ b < c) - 1
            /\ worst_fit(length) = (CHOOSE b \in holes : \A c \in holes \ {b} :
                                      \/ Length(blocks[b]) > Length(blocks[c])
                                      \/ Length(blocks[b]) = Length(blocks[c]) /\ b < c) - 1
  BY <1>0, FitsFind DEF holes, Preferred, Beats
<1> QED BY <1>1, <1>2, <1>4, <1>5

-----------------------------------------------------------------------------
(* The invariant *)

AllocatorInv == BlocksInOrder /\ HolesAreMerged

LEMMA AllocatorInitInv == AllocatorInit => AllocatorInv
<1> SUFFICES ASSUME AllocatorInit
             PROVE  AllocatorInv
  OBVIOUS
<1> DEFINE e == [info |-> Unused, begin |-> 0, end |-> capacity - 1]
<1>1. capacity \in Nat \ {0} /\ e \in Blocks
  BY AllocatorAssumption DEF Blocks
<1>2. e.info = Unused /\ e.begin = 0 /\ e.end = capacity - 1
  OBVIOUS
<1>3. Length(e) > 0
  BY <1>1, <1>2 DEF Length
<1> HIDE DEF e
<1>4. blocks = <<e>> /\ status = "running"
  BY DEF AllocatorInit, e
<1>5. blocks \in Seq(Blocks) /\ Len(blocks) = 1 /\ blocks[1] = e
  BY <1>1, <1>4
<1>6. InOrder(blocks)
  BY <1>3, <1>5 DEF InOrder
<1> QED BY <1>4, <1>6, InvariantIsInOrder DEF AllocatorInv

(* A request leaves the list alone or inserts a block where the search     *)
(* says.                                                                   *)
LEMMA RequestIs ==
    ASSUME AllocatorTypeOK, NEW name \in Names, NEW length \in Lengths,
           FirstFit(name, length) \/ BestFit(name, length) \/ WorstFit(name, length)
    PROVE  /\ status' = status
           /\ \/ blocks' = blocks
              \/ \E b \in 0 .. Len(blocks) - 1 :
                     /\ Holds(b + 1, length)
                     /\ IsInsertion(blocks', name, b, length)
<1>1. PICK b \in {first_fit(length), best_fit(length), worst_fit(length)} : Request(name, length, b)
  BY DEF FirstFit, BestFit, WorstFit
<1>2. b = None \/ (b \in Nat /\ b + 1 \in Holes(length))
  <2>1. CASE Holes(length) = {}
    <3>1. first_fit(length) = None
      BY <2>1, FirstFitFinds
    <3>2. best_fit(length) = None /\ worst_fit(length) = None
      BY <2>1, FitsFind
    <3> QED BY <3>1, <3>2
  <2>2. CASE Holes(length) # {}
    <3>1. first_fit(length) \in Nat /\ first_fit(length) + 1 \in Holes(length)
      BY <2>2, FirstFitFinds
    <3>2. /\ best_fit(length) \in Nat /\ best_fit(length) + 1 \in Holes(length)
          /\ worst_fit(length) \in Nat /\ worst_fit(length) + 1 \in Holes(length)
      BY <2>2, FitsFind
    <3> QED BY <3>1, <3>2
  <2> QED BY <2>1, <2>2
<1>3. status' = status
  BY <1>1 DEF Request
<1>4. CASE b = None
  BY <1>1, <1>3, <1>4 DEF Request
<1>5. CASE b \in Nat /\ b + 1 \in Holes(length)
  <2>1. b # None
    BY <1>5, AllocatorAssumption
  <2>2. blocks' = insert_block(name, b, length)
    BY <1>1, <2>1 DEF Request
  <2>3. b \in 0 .. Len(blocks) - 1 /\ Holds(b + 1, length)
    BY <1>5, BlockTypes DEF Holes
  <2>4. IsInsertion(insert_block(name, b, length), name, b, length)
    BY <2>3, InsertionIs
  <2> QED BY <1>3, <2>2, <2>3, <2>4
<1> QED BY <1>2, <1>4, <1>5

(* A release stops the program or gives back the owner's lowest block. *)
LEMMA ReleaseIs ==
    ASSUME AllocatorTypeOK, NEW name \in Names, Release(name)
    PROVE  \/ status' = "crashed" /\ blocks' = blocks
           \/ /\ status' = status
              /\ \E b \in 0 .. Len(blocks) - 1 :
                     /\ blocks[b + 1].info = name
                     /\ \A c \in 1 .. Len(blocks) : blocks[c].info = name => b + 1 <= c
                     /\ blocks' = remove_block(b)
<1> DEFINE owned == {b \in DOMAIN blocks : blocks[b].info = name}
           least == CHOOSE b \in owned : \A c \in owned : b <= c
<1>1. CASE owned = {}
  BY <1>1 DEF Release
<1>2. CASE owned # {}
  <2>1. Len(blocks) \in Nat /\ DOMAIN blocks = 1 .. Len(blocks)
    BY BlockTypes
  <2>2. \E b \in owned : \A c \in owned : b <= c
    <3>1. owned \in SUBSET (1 .. Len(blocks)) /\ owned # {} /\ 1 \in Int /\ Len(blocks) \in Int
      BY <1>2, <2>1
    <3> HIDE DEF owned, least
    <3> QED BY <3>1, RangeHasLeast
  <2>3. least \in owned /\ \A c \in owned : least <= c
    <3> HIDE DEF owned
    <3> QED BY <2>2
  <2>4. blocks' = remove_block(least - 1) /\ status' = status
    BY <1>2 DEF Release
  <2> HIDE DEF least
  <2>5. least - 1 \in 0 .. Len(blocks) - 1 /\ (least - 1) + 1 = least
    BY <2>1, <2>3
  <2>6. \A c \in 1 .. Len(blocks) : blocks[c].info = name => least <= c
    BY <2>1, <2>3
  <2> QED BY <2>3, <2>4, <2>5, <2>6
<1> QED BY <1>1, <1>2

LEMMA OrderIsInvariant ==
    InOrder(blocks) /\ status \in {"running", "crashed", "exited"} => AllocatorInv
BY InvariantIsInOrder DEF AllocatorInv

LEMMA AllocatorStep == AllocatorInv /\ [AllocatorNext]_allocatorVars => AllocatorInv'
<1> SUFFICES ASSUME AllocatorInv, [AllocatorNext]_allocatorVars
             PROVE  AllocatorInv'
  OBVIOUS
<1>1. InOrder(blocks)' /\ (status \in {"running", "crashed", "exited"})' => AllocatorInv'
  BY OrderIsInvariant, PTL
<1>2. AllocatorTypeOK /\ status \in {"running", "crashed", "exited"} /\ InOrder(blocks)
  BY InvariantIsInOrder DEF AllocatorInv, BlocksInOrder, AllocatorTypeOK
<1>3. ASSUME NEW name \in Names, NEW length \in Lengths,
             FirstFit(name, length) \/ BestFit(name, length) \/ WorstFit(name, length)
      PROVE  InOrder(blocks)' /\ status' = status
  <2>1. CASE blocks' = blocks
    BY <1>2, <1>3, <2>1, RequestIs DEF InOrder
  <2>2. CASE \E b \in 0 .. Len(blocks) - 1 :
                 Holds(b + 1, length) /\ IsInsertion(blocks', name, b, length)
    <3>1. InOrder(blocks')
      BY <2>2, InsertionInOrder DEF AllocatorInv
    <3> QED BY <1>2, <1>3, <3>1, RequestIs
  <2> QED BY <1>2, <1>3, <2>1, <2>2, RequestIs
<1>4. ASSUME NEW name \in Names, Release(name)
      PROVE  InOrder(blocks)' /\ status' \in {status, "crashed"}
  <2>1. CASE blocks' = blocks
    BY <1>2, <1>4, <2>1, ReleaseIs DEF InOrder
  <2>2. CASE \E b \in 0 .. Len(blocks) - 1 :
                 blocks[b + 1].info = name /\ blocks' = remove_block(b)
    <3>1. name # Unused
      BY AllocatorAssumption
    <3>2. InOrder(blocks')
      BY <2>2, <3>1, RemovalInOrder DEF AllocatorInv
    <3> QED BY <1>2, <1>4, <3>2, ReleaseIs
  <2> QED BY <1>2, <1>4, <2>1, <2>2, ReleaseIs
<1>5. ASSUME Compact
      PROVE  InOrder(blocks)' /\ status' = status
  <2>1. blocks' = Compacted /\ status' = status
    BY <1>5 DEF Compact, Compacted
  <2>2. InOrder(Compacted)
    BY CompactionInOrder DEF AllocatorInv
  <2> QED BY <2>1, <2>2
<1>6. ASSUME Quit \/ UNCHANGED allocatorVars
      PROVE  InOrder(blocks)' /\ status' \in {status, "exited"}
  BY <1>2, <1>6 DEF Quit, allocatorVars, InOrder
<1>7. AllocatorNext \/ UNCHANGED allocatorVars
  OBVIOUS
<1> QED BY <1>1, <1>2, <1>3, <1>4, <1>5, <1>6, <1>7 DEF AllocatorNext, AllocatorTerminated

(* The list stays in order and merged whatever is requested, released and  *)
(* compacted: the two properties are inductive together, neither is alone  *)
(* (memory.c:38-141, 211-241).                                             *)
THEOREM AllocatorInvariant == AllocatorSpec => []AllocatorInv
BY AllocatorInitInv, AllocatorStep, PTL DEF AllocatorSpec

(* No two blocks overlap, they are in the order of their addresses, and    *)
(* none is empty but the last hole (memory.c:38-56, 95-123, 229-235).      *)
THEOREM BlocksStayInOrder == AllocatorSpec => []BlocksInOrder
BY AllocatorInvariant, PTL DEF AllocatorInv

(* No two holes are ever beside each other in the list (memory.c:58-124).  *)
THEOREM HolesStayMerged == AllocatorSpec => []HolesAreMerged
BY AllocatorInvariant, PTL DEF AllocatorInv

(* The three searches succeed on the same requests, and each finds the     *)
(* hole its strategy prefers, the lowest of equals (memory.c:151-209).     *)
THEOREM SearchesAlwaysFind == AllocatorSpec => []SearchesFindTheirHoles
BY AllocatorInvariant, SearchesFind, PTL DEF AllocatorInv

-----------------------------------------------------------------------------
(* What an operation loses *)

CoveredBy(s) == UNION {s[i].begin .. s[i].end : i \in DOMAIN s}

LEMMA CoveredOnlyMemory ==
    ASSUME NEW s, InOrder(s)
    PROVE  /\ CoveredBy(s) \subseteq 0 .. capacity - 1
           /\ \A x : x \in CoveredBy(s) <=> \E i \in 1 .. Len(s) : x \in s[i].begin .. s[i].end
<1>1. DOMAIN s = 1 .. Len(s) /\ capacity \in Nat
  BY ListTypes, AllocatorAssumption
<1>2. \A x : x \in CoveredBy(s) <=> \E i \in 1 .. Len(s) : x \in s[i].begin .. s[i].end
  BY <1>1 DEF CoveredBy
<1>3. ASSUME NEW i \in 1 .. Len(s), NEW x \in s[i].begin .. s[i].end
      PROVE  x \in 0 .. capacity - 1
  <2>1. s[i].begin \in 0 .. capacity /\ s[i].end \in 0 .. capacity - 1
    BY ListTypes
  <2> QED BY <1>1, <2>1
<1> QED BY <1>2, <1>3

LEMMA InsertionLoses ==
    ASSUME BlocksInOrder, HolesAreMerged, NEW name \in Names, NEW b \in 0 .. Len(blocks) - 1,
           NEW length \in Lengths, Holds(b + 1, length),
           NEW s, IsInsertion(s, name, b, length)
    PROVE  /\ CoveredBy(blocks) \ CoveredBy(s) \subseteq {blocks[b + 1].end}
           /\ Remains(blocks[b + 1], length) = 1 => CoveredBy(blocks) \subseteq CoveredBy(s)
<1> DEFINE hole == blocks[b + 1]
           d    == Remains(hole, length)
           n    == Len(blocks)
<1>1. AllocatorTypeOK /\ InOrder(blocks) /\ InOrder(s)
  BY InvariantIsInOrder, InsertionInOrder DEF BlocksInOrder
<1>2. n \in Nat \ {0} /\ b + 1 \in 1 .. n /\ hole.begin \in Int /\ hole.end \in Int /\ length \in Int
  <2>1. n \in Nat \ {0} /\ b + 1 \in 1 .. n /\ capacity \in Nat
    BY <1>1, BlockTypes
  <2>2. hole.begin \in 0 .. capacity /\ hole.end \in 0 .. capacity - 1
    BY <1>1, <2>1, BlockTypes
  <2> QED BY <2>1, <2>2 DEF Lengths
<1>3. /\ d = 0 => hole.begin + length >= hole.end
      /\ d \in {0, 1}
  BY <1>1, InsertionAt
<1>4. /\ Len(s) = n + d
      /\ \A i \in 1 .. b : s[i] = blocks[i]
      /\ s[b + 1] = [info |-> name, begin |-> hole.begin, end |-> hole.begin + length - 1]
      /\ d = 1 => s[b + 2] = [info |-> Unused, begin |-> hole.begin + length, end |-> hole.end]
      /\ \A i \in b + 2 .. n : s[i + d] = blocks[i]
  BY DEF IsInsertion
<1>5. ASSUME NEW x \in CoveredBy(blocks), x \notin CoveredBy(s)
      PROVE  x = hole.end /\ d = 0
  <2>1. PICK i \in 1 .. n : x \in blocks[i].begin .. blocks[i].end
    BY <1>1, CoveredOnlyMemory
  <2>2. \A j \in 1 .. Len(s) : x \notin s[j].begin .. s[j].end
    BY <1>1, <1>5, CoveredOnlyMemory
  <2> HIDE DEF hole, d, n
  <2>3. ~(i <= b)
    <3> SUFFICES ASSUME i <= b
                 PROVE  FALSE
      OBVIOUS
    <3>1. i \in 1 .. b /\ i \in 1 .. Len(s)
      BY <1>2, <1>3, <1>4
    <3> QED BY <1>4, <2>1, <2>2, <3>1
  <2>4. ~(i >= b + 2)
    <3> SUFFICES ASSUME i >= b + 2
                 PROVE  FALSE
      OBVIOUS
    <3>1. i \in b + 2 .. n /\ i + d \in 1 .. Len(s)
      BY <1>2, <1>3, <1>4
    <3> QED BY <1>4, <2>1, <2>2, <3>1
  <2>5. i = b + 1
    BY <1>2, <2>3, <2>4
  <2>6. x \in hole.begin .. hole.end
    BY <2>1, <2>5 DEF hole
  <2>7. b + 1 \in 1 .. Len(s) /\ (d = 1 => b + 2 \in 1 .. Len(s))
    BY <1>2, <1>3, <1>4
  <2>8. x \notin hole.begin .. hole.begin + length - 1
    BY <1>4, <2>2, <2>7
  <2>9. d = 1 => x \notin hole.begin + length .. hole.end
    BY <1>4, <2>2, <2>7
  <2> QED BY <1>2, <1>3, <2>6, <2>8, <2>9
<1> QED BY <1>5

LEMMA RemovalLosesNothing ==
    ASSUME BlocksInOrder, HolesAreMerged, NEW b \in 0 .. Len(blocks) - 1,
           blocks[b + 1].info # Unused
    PROVE  CoveredBy(blocks) \subseteq CoveredBy(remove_block(b))
<1> DEFINE first == First(b)
           last  == End(b)
           s     == remove_block(b)
           k     == last - first
           n     == Len(blocks)
<1>1. AllocatorTypeOK /\ InOrder(blocks) /\ InOrder(s)
  BY InvariantIsInOrder, RemovalInOrder DEF BlocksInOrder
<1>2. first \in 1 .. n /\ last \in first .. n /\ IsRemoval(s, first, last)
  BY <1>1, RemovalBounds
<1>3. /\ n \in Nat \ {0}
      /\ \A i \in 1 .. n : blocks[i].begin \in Int /\ blocks[i].end \in Int
  BY <1>1, BlockTypes
<1>4. /\ Len(s) = n - k
      /\ \A i \in 1 .. first - 1 : s[i] = blocks[i]
      /\ s[first].begin = blocks[first].begin /\ s[first].end = blocks[last].end
      /\ \A i \in last + 1 .. n : s[i - k] = blocks[i]
  BY <1>2 DEF IsRemoval
<1>5. k \in Nat /\ first \in Nat /\ last \in Nat /\ k = last - first
  BY <1>2, <1>3
<1> SUFFICES ASSUME NEW x \in CoveredBy(blocks)
             PROVE  \E j \in 1 .. Len(s) : x \in s[j].begin .. s[j].end
  BY <1>1, CoveredOnlyMemory
<1>6. PICK i \in 1 .. n : x \in blocks[i].begin .. blocks[i].end
  BY <1>1, CoveredOnlyMemory
<1>7. \A j \in 1 .. n : \/ Length(blocks[j]) > 0
                        \/ j = n /\ Length(blocks[j]) = 0
  BY <1>1 DEF InOrder
<1>8. \A j, m \in 1 .. n : j < m => blocks[j].end < blocks[m].begin
  BY <1>1, AllInOrder
<1> HIDE DEF first, last, s, k, n
<1>9. CASE i < first
  <2>1. i \in 1 .. first - 1 /\ i \in 1 .. Len(s)
    BY <1>2, <1>3, <1>4, <1>5, <1>9
  <2> QED BY <1>4, <1>6, <2>1
<1>10. CASE i > last
  <2>1. i \in last + 1 .. n /\ i - k \in 1 .. Len(s)
    BY <1>2, <1>3, <1>4, <1>5, <1>10
  <2> QED BY <1>4, <1>6, <2>1
<1>11. CASE first <= i /\ i <= last
  <2>1. first \in 1 .. Len(s)
    BY <1>2, <1>3, <1>4, <1>5
  <2>2. blocks[first].begin <= blocks[i].begin
    <3>1. CASE first < i
      <4>1. blocks[first].end < blocks[i].begin
        BY <1>2, <1>8, <3>1
      <4>2. Length(blocks[first]) > 0
        BY <1>2, <1>3, <1>5, <1>7, <3>1
      <4>3. blocks[first].begin \in Int /\ blocks[first].end \in Int /\ blocks[i].begin \in Int
        BY <1>2, <1>3
      <4> QED BY <4>1, <4>2, <4>3 DEF Length
    <3>2. CASE first = i
      BY <1>3, <3>2
    <3> QED BY <1>3, <1>5, <1>11, <3>1, <3>2
  <2>3. blocks[i].end <= blocks[last].end
    <3>1. CASE i < last
      <4>0. last \in 1 .. n
        BY <1>2, <1>3
      <4>1. blocks[i].end < blocks[last].begin
        BY <1>8, <3>1, <4>0
      <4>2. blocks[last].begin \in Int /\ blocks[last].end \in Int /\ blocks[i].end \in Int
        BY <1>3, <4>0
      <4>3. Length(blocks[last]) >= 0
        BY <1>7, <4>0, <4>2 DEF Length
      <4> QED BY <4>1, <4>2, <4>3 DEF Length
    <3>2. CASE i = last
      BY <1>3, <3>2
    <3> QED BY <1>3, <1>5, <1>11, <3>1, <3>2
  <2>4. x \in blocks[first].begin .. blocks[last].end
    <3>1. /\ blocks[first].begin \in Int /\ blocks[last].end \in Int
          /\ blocks[i].begin \in Int /\ blocks[i].end \in Int
      BY <1>2, <1>3
    <3> QED BY <1>6, <2>2, <2>3, <3>1
  <2> QED BY <1>4, <2>1, <2>4
<1> QED BY <1>3, <1>5, <1>9, <1>10, <1>11

(* An insertion that drops the rest of the hole adds one owned block. *)
LEMMA InsertionOwns ==
    ASSUME BlocksInOrder, HolesAreMerged, NEW name \in Names, NEW b \in 0 .. Len(blocks) - 1,
           NEW length \in Lengths, Holds(b + 1, length),
           NEW s, IsInsertion(s, name, b, length), Remains(blocks[b + 1], length) = 0
    PROVE  Cardinality({j \in DOMAIN s : s[j].info # Unused}) = Cardinality(Owned) + 1
<1> DEFINE new == {j \in DOMAIN s : s[j].info # Unused}
<1>1. AllocatorTypeOK /\ InOrder(blocks) /\ InOrder(s)
  BY InvariantIsInOrder, InsertionInOrder DEF BlocksInOrder
<1>2. /\ Len(s) = Len(blocks) + 0
      /\ \A i \in 1 .. b : s[i] = blocks[i]
      /\ s[b + 1] = [info |-> name, begin |-> blocks[b + 1].begin, end |-> blocks[b + 1].begin + length - 1]
      /\ \A i \in b + 2 .. Len(blocks) : s[i + 0] = blocks[i]
  BY DEF IsInsertion
<1>3. /\ Len(blocks) \in Nat /\ b + 1 \in 1 .. Len(blocks) /\ name # Unused
      /\ DOMAIN s = 1 .. Len(s) /\ DOMAIN blocks = 1 .. Len(blocks)
      /\ blocks[b + 1].info = Unused /\ s[b + 1].info = name
  <2>1. Len(blocks) \in Nat \ {0} /\ b + 1 \in 1 .. Len(blocks) /\ name # Unused
    BY <1>1, BlockTypes
  <2> QED BY <1>1, <1>2, <2>1, ListTypes DEF Holds
<1>4. ASSUME NEW i \in 1 .. Len(blocks), i # b + 1
      PROVE  s[i] = blocks[i]
  <2>1. i \in 1 .. b \/ (i \in b + 2 .. Len(blocks) /\ i + 0 = i)
    BY <1>3, <1>4
  <2> QED BY <1>2, <2>1
<1>5. new = Owned \cup {b + 1} /\ b + 1 \notin Owned /\ Owned \subseteq 1 .. Len(blocks)
  <2>1. Len(s) = Len(blocks)
    BY <1>2, <1>3
  <2> QED BY <1>3, <1>4, <2>1 DEF Owned
<1>6. IsFiniteSet(Owned)
  <2>1. 1 \in Int /\ Len(blocks) \in Int
    BY <1>3
  <2>2. IsFiniteSet(1 .. Len(blocks))
    BY <2>1, FS_Interval
  <2> QED BY <1>5, <2>2, FS_Subset
<1> QED BY <1>5, <1>6, FS_AddElement

Bounded == LET lost == Covered \ Covered'
           IN  /\ Cardinality(lost) <= 1
               /\ lost # {} => Cardinality(Owned') = Cardinality(Owned) + 1
               /\ Compact => Covered' = 0 .. capacity - 1

LEMMA LossStep == AllocatorInv /\ AllocatorNext => Bounded
<1> SUFFICES ASSUME AllocatorInv, AllocatorNext
             PROVE  Bounded
  OBVIOUS
<1>1. Covered = CoveredBy(blocks) /\ Covered' = CoveredBy(blocks')
  BY DEF Covered, CoveredBy
<1>2. BlocksInOrder /\ HolesAreMerged /\ InOrder(blocks) /\ AllocatorTypeOK
  BY InvariantIsInOrder DEF AllocatorInv, BlocksInOrder
<1>3. capacity \in Nat /\ Cardinality({}) = 0
  BY AllocatorAssumption, FS_EmptySet
<1>4. CASE Compact
  <2>1. blocks' = Compacted
    BY <1>4 DEF Compact, Compacted
  <2>2. CoveredBy(Compacted) = 0 .. capacity - 1
    BY <1>2, CompactionInOrder DEF CoveredBy
  <2>3. CoveredBy(blocks) \subseteq 0 .. capacity - 1
    BY <1>2, CoveredOnlyMemory
  <2>4. Covered \ Covered' = {} /\ Covered' = 0 .. capacity - 1
    BY <1>1, <2>1, <2>2, <2>3
  <2>5. Cardinality(Covered \ Covered') = 0
    BY <1>3, <2>4
  <2> QED BY <2>4, <2>5 DEF Bounded
<1>5. ASSUME ~Compact, Covered \subseteq Covered'
      PROVE  Bounded
  <2>1. Covered \ Covered' = {}
    BY <1>5
  <2> QED BY <1>3, <1>5, <2>1 DEF Bounded
<1>6. ASSUME ~Compact, blocks' = blocks
      PROVE  Bounded
  BY <1>1, <1>5, <1>6
<1>7. ASSUME ~Compact, NEW name \in Names, NEW length \in Lengths,
             FirstFit(name, length) \/ BestFit(name, length) \/ WorstFit(name, length)
      PROVE  Bounded
  <2>1. ASSUME NEW b \in 0 .. Len(blocks) - 1, Holds(b + 1, length),
               IsInsertion(blocks', name, b, length)
        PROVE  Bounded
    <3>1. /\ CoveredBy(blocks) \ CoveredBy(blocks') \subseteq {blocks[b + 1].end}
          /\ Remains(blocks[b + 1], length) = 1 => CoveredBy(blocks) \subseteq CoveredBy(blocks')
      BY <1>2, <2>1, InsertionLoses
    <3>2. CASE Covered \subseteq Covered'
      BY <1>5, <1>7, <3>2
    <3>3. CASE ~(Covered \subseteq Covered')
      <4>1. Covered \ Covered' = {blocks[b + 1].end}
        BY <1>1, <3>1, <3>3
      <4>2. Cardinality(Covered \ Covered') = 1
        BY <4>1, FS_Singleton
      <4>3. Remains(blocks[b + 1], length) = 0
        BY <1>1, <3>1, <3>3 DEF Remains
      <4>4. Cardinality({j \in DOMAIN blocks' : blocks'[j].info # Unused}) = Cardinality(Owned) + 1
        BY <1>2, <2>1, <4>3, InsertionOwns
      <4>5. Owned' = {j \in DOMAIN blocks' : blocks'[j].info # Unused}
        BY DEF Owned
      <4> QED BY <1>7, <4>2, <4>4, <4>5 DEF Bounded
    <3> QED BY <3>2, <3>3
  <2> QED BY <1>2, <1>6, <1>7, <2>1, RequestIs
<1>8. ASSUME ~Compact, NEW name \in Names, Release(name)
      PROVE  Bounded
  <2>1. ASSUME NEW b \in 0 .. Len(blocks) - 1, blocks[b + 1].info = name, blocks' = remove_block(b)
        PROVE  Bounded
    <3>1. blocks[b + 1].info # Unused
      BY <2>1, AllocatorAssumption
    <3>2. CoveredBy(blocks) \subseteq CoveredBy(blocks')
      BY <1>2, <2>1, <3>1, RemovalLosesNothing
    <3> QED BY <1>1, <1>5, <1>8, <3>2
  <2> QED BY <1>2, <1>6, <1>8, <2>1, ReleaseIs
<1>9. ASSUME ~Compact, Quit \/ AllocatorTerminated
      PROVE  Bounded
  BY <1>6, <1>9 DEF Quit, AllocatorTerminated, allocatorVars
<1> QED BY <1>4, <1>7, <1>8, <1>9 DEF AllocatorNext

(* Only an allocation loses memory, one unit of it at most, and a          *)
(* compaction finds all that was lost (memory.c:51-55, 58-124, 211-241).   *)
THEOREM LossStaysBounded == AllocatorSpec => LossIsBounded
<1>1. AllocatorInv /\ [AllocatorNext]_allocatorVars =>
      [LET lost == Covered \ Covered'
       IN  /\ Cardinality(lost) <= 1
           /\ lost # {} => Cardinality(Owned') = Cardinality(Owned) + 1
           /\ Compact => Covered' = 0 .. capacity - 1]_allocatorVars
  BY LossStep DEF Bounded
<1> QED BY <1>1, AllocatorInvariant, PTL DEF AllocatorSpec, LossIsBounded

-----------------------------------------------------------------------------
(* The memory map *)

Region(block) == [owner |-> block.info, begin |-> block.begin, end |-> block.end]

(* The regions of the first n blocks of a list. *)
Regions(s, n) == {Region(s[i]) : i \in {i \in 1 .. n : s[i].info # Unused}}

LEMMA RegionsAre ==
    ASSUME InOrder(blocks)
    PROVE  Regions(blocks, Len(blocks))
               = {[owner |-> blocks[b].info, begin |-> blocks[b].begin, end |-> blocks[b].end] : b \in Owned}
BY ListTypes DEF Regions, Region, Owned

LEMMA RegionsApart ==
    ASSUME NEW s, InOrder(s), NEW i \in 1 .. Len(s), NEW j \in 1 .. Len(s),
           s[i].info # Unused, s[j].info # Unused
    PROVE  /\ s[i].end < s[j].begin <=> i < j
           /\ Region(s[i]) = Region(s[j]) => i = j
<1>1. /\ i \in Int /\ j \in Int
      /\ s[i].begin \in Int /\ s[i].end \in Int /\ s[j].begin \in Int /\ s[j].end \in Int
  BY ListTypes
<1>2. Length(s[i]) > 0 /\ Length(s[j]) > 0
  BY DEF InOrder
<1>3. s[i].begin <= s[i].end /\ s[j].begin <= s[j].end
  BY <1>1, <1>2 DEF Length
<1>4. (i < j => s[i].end < s[j].begin) /\ (j < i => s[j].end < s[i].begin)
  BY AllInOrder
<1>5. Region(s[i]) = Region(s[j]) => s[i].begin = s[j].begin /\ s[i].end = s[j].end
  BY DEF Region
<1> QED BY <1>1, <1>3, <1>4, <1>5

LEMMA InsertionPlaces ==
    ASSUME BlocksInOrder, HolesAreMerged, NEW name \in Names, NEW b \in 0 .. Len(blocks) - 1,
           NEW length \in Lengths, Holds(b + 1, length),
           NEW s, IsInsertion(s, name, b, length)
    PROVE  \E begin, end \in 0 .. capacity - 1 :
              /\ begin <= end
              /\ \A r \in Regions(blocks, Len(blocks)) : end < r.begin \/ r.end < begin
              /\ Regions(s, Len(s)) = Regions(blocks, Len(blocks))
                                          \cup {[owner |-> name, begin |-> begin, end |-> end]}
<1> DEFINE hole  == blocks[b + 1]
           d     == Remains(hole, length)
           n     == Len(blocks)
           block == [info |-> name, begin |-> hole.begin, end |-> hole.begin + length - 1]
           rest  == [info |-> Unused, begin |-> hole.begin + length, end |-> hole.end]
           new   == [owner |-> name, begin |-> hole.begin, end |-> hole.begin + length - 1]
<1>1. AllocatorTypeOK /\ InOrder(blocks) /\ InOrder(s)
  BY InvariantIsInOrder, InsertionInOrder DEF BlocksInOrder
<1>2. /\ n \in Nat \ {0} /\ b + 1 \in 1 .. n /\ capacity \in Nat /\ length \in Nat \ {0} /\ name # Unused
      /\ hole.begin \in 0 .. capacity /\ hole.end \in 0 .. capacity - 1 /\ hole.info = Unused
      /\ hole.end - hole.begin + 1 >= length
  <2>1. n \in Nat \ {0} /\ b + 1 \in 1 .. n /\ capacity \in Nat /\ length \in Nat \ {0} /\ name # Unused
    BY <1>1, BlockTypes DEF Lengths
  <2>2. hole.begin \in 0 .. capacity /\ hole.end \in 0 .. capacity - 1
    BY <1>1, <2>1, BlockTypes
  <2> QED BY <2>1, <2>2 DEF Holds, Length
<1>3. /\ d \in {0, 1}
      /\ \A j \in 1 .. Len(s) :
            \/ j <= b /\ s[j] = blocks[j]
            \/ j = b + 1 /\ s[j] = block
            \/ d = 1 /\ j = b + 2 /\ s[j] = rest
            \/ j - d \in b + 2 .. n /\ s[j] = blocks[j - d]
  BY <1>1, InsertionAt
<1>4. /\ Len(s) = n + d
      /\ \A i \in 1 .. b : s[i] = blocks[i]
      /\ s[b + 1] = block
      /\ \A i \in b + 2 .. n : s[i + d] = blocks[i]
  BY DEF IsInsertion
<1>5. /\ block.info = name /\ Region(block) = new /\ rest.info = Unused
      /\ new.begin = hole.begin /\ new.end = hole.begin + length - 1
  BY DEF Region
<1>6. \A i \in 1 .. n : /\ i < b + 1 => blocks[i].end < hole.begin
                        /\ i > b + 1 => hole.end < blocks[i].begin
  BY <1>1, <1>2, AllInOrder
<1>7. \A i \in 1 .. n : blocks[i].begin \in Int /\ blocks[i].end \in Int
  BY <1>1, BlockTypes
<1> HIDE DEF hole, d, n, block, rest
<1>8. ASSUME NEW r \in Regions(blocks, n)
      PROVE  hole.begin + length - 1 < r.begin \/ r.end < hole.begin
  <2>1. PICK i \in 1 .. n : blocks[i].info # Unused /\ r = Region(blocks[i])
    BY DEF Regions
  <2>2. i # b + 1
    BY <1>2, <2>1 DEF hole
  <2>3. r.begin = blocks[i].begin /\ r.end = blocks[i].end
    BY <2>1 DEF Region
  <2>4. CASE i < b + 1
    <3>1. blocks[i].end < hole.begin
      BY <1>6, <2>4
    <3> QED BY <2>3, <3>1
  <2>5. CASE i > b + 1
    <3>1. hole.end < blocks[i].begin /\ blocks[i].begin \in Int
      BY <1>6, <1>7, <2>5
    <3>2. hole.begin + length - 1 <= hole.end /\ hole.end \in Int
      BY <1>2
    <3>3. hole.begin + length - 1 \in Int
      BY <1>2
    <3>4. hole.begin + length - 1 < blocks[i].begin
      BY <3>1, <3>2, <3>3
    <3> QED BY <2>3, <3>4
  <2> QED BY <1>2, <2>2, <2>4, <2>5
<1>9. ASSUME NEW r \in Regions(s, Len(s))
      PROVE  r \in Regions(blocks, n) \cup {new}
  <2>1. PICK j \in 1 .. Len(s) : s[j].info # Unused /\ r = Region(s[j])
    BY DEF Regions
  <2>2. CASE j = b + 1 /\ s[j] = block
    BY <1>5, <2>1, <2>2
  <2>3. CASE d = 1 /\ j = b + 2 /\ s[j] = rest
    BY <1>5, <2>1, <2>3
  <2>4. CASE \E i \in 1 .. n : s[j] = blocks[i]
    BY <2>1, <2>4 DEF Regions
  <2>5. (j <= b => j \in 1 .. n) /\ (j - d \in b + 2 .. n => j - d \in 1 .. n)
    BY <1>2, <1>3
  <2> QED BY <1>3, <2>2, <2>3, <2>4, <2>5
<1>10. ASSUME NEW r \in Regions(blocks, n)
       PROVE  r \in Regions(s, Len(s))
  <2>1. PICK i \in 1 .. n : blocks[i].info # Unused /\ r = Region(blocks[i])
    BY DEF Regions
  <2>2. i # b + 1
    BY <1>2, <2>1 DEF hole
  <2>3. CASE i \in 1 .. b
    <3>1. i \in 1 .. Len(s) /\ s[i] = blocks[i]
      BY <1>2, <1>3, <1>4, <2>3
    <3> QED BY <2>1, <3>1 DEF Regions
  <2>4. CASE i \in b + 2 .. n
    <3>1. i + d \in 1 .. Len(s) /\ s[i + d] = blocks[i]
      BY <1>2, <1>3, <1>4, <2>4
    <3> QED BY <2>1, <3>1 DEF Regions
  <2> QED BY <1>2, <2>2, <2>3, <2>4
<1>11. new \in Regions(s, Len(s))
  <2>1. b + 1 \in 1 .. Len(s)
    BY <1>2, <1>3, <1>4
  <2> QED BY <1>2, <1>4, <1>5, <2>1 DEF Regions
<1>12. Regions(s, Len(s)) = Regions(blocks, n) \cup {new}
  BY <1>9, <1>10, <1>11
<1>13. /\ hole.begin \in 0 .. capacity - 1 /\ hole.begin + length - 1 \in 0 .. capacity - 1
       /\ hole.begin <= hole.begin + length - 1
  BY <1>2
<1> QED BY <1>8, <1>12, <1>13 DEF n

LEMMA RemovalFrees ==
    ASSUME BlocksInOrder, HolesAreMerged, NEW b \in 0 .. Len(blocks) - 1, NEW name \in Names,
           blocks[b + 1].info = name,
           \A c \in 1 .. Len(blocks) : blocks[c].info = name => b + 1 <= c
    PROVE  \E r \in Regions(blocks, Len(blocks)) :
              /\ r.owner = name
              /\ \A q \in Regions(blocks, Len(blocks)) : q.end < r.begin => q.owner # name
              /\ Regions(remove_block(b), Len(remove_block(b))) = Regions(blocks, Len(blocks)) \ {r}
<1> DEFINE first == First(b)
           last  == End(b)
           s     == remove_block(b)
           k     == last - first
           n     == Len(blocks)
           r     == Region(blocks[b + 1])
<1>1. AllocatorTypeOK /\ InOrder(blocks) /\ name # Unused
  BY InvariantIsInOrder, AllocatorAssumption DEF BlocksInOrder
<1>2. InOrder(s)
  BY <1>1, RemovalInOrder
<1>3. /\ first \in 1 .. n /\ last \in first .. n /\ IsRemoval(s, first, last)
      /\ first \in {b, b + 1} /\ last \in {b + 1, b + 2}
  BY <1>1, RemovalBounds
<1>4. n \in Nat \ {0} /\ b + 1 \in 1 .. n
  BY <1>1, BlockTypes
<1>5. /\ Len(s) = n - k
      /\ \A i \in 1 .. first - 1 : s[i] = blocks[i]
      /\ s[first] = [info |-> Unused, begin |-> blocks[first].begin, end |-> blocks[last].end]
      /\ \A i \in last + 1 .. n : s[i - k] = blocks[i]
  BY <1>3 DEF IsRemoval
<1>6. k \in Nat /\ first \in Nat /\ last \in Nat /\ k = last - first
  BY <1>3, <1>4
<1>7. /\ first = b => blocks[b].info = Unused
      /\ last = b + 2 => blocks[b + 2].info = Unused
  BY <1>4 DEF First, End
<1>8. /\ r \in Regions(blocks, n) /\ r.owner = name /\ r.begin = blocks[b + 1].begin
  BY <1>1, <1>4 DEF Regions, Region
<1> HIDE DEF first, last, s, k, n, r
<1>9. ASSUME NEW q \in Regions(blocks, n), q.end < r.begin
      PROVE  q.owner # name
  <2>1. PICK i \in 1 .. n : blocks[i].info # Unused /\ q = Region(blocks[i])
    BY DEF Regions
  <2>2. q.end = blocks[i].end /\ q.owner = blocks[i].info
    BY <2>1 DEF Region
  <2>3. i < b + 1
    <3>1. blocks[i].end < blocks[b + 1].begin <=> i < b + 1
      BY <1>1, <1>4, <2>1, RegionsApart DEF n
    <3> QED BY <1>8, <1>9, <2>2, <3>1
  <2> QED BY <1>4, <2>2, <2>3 DEF n
<1>10. ASSUME NEW q \in Regions(s, Len(s))
       PROVE  q \in Regions(blocks, n) \ {r}
  <2>1. PICK j \in 1 .. Len(s) : s[j].info # Unused /\ q = Region(s[j])
    BY DEF Regions
  <2>2. PICK i \in 1 .. n : i # b + 1 /\ s[j] = blocks[i]
    <3>1. CASE j < first
      <4>1. j \in 1 .. first - 1 /\ j \in 1 .. n /\ j # b + 1
        BY <1>3, <1>4, <1>6, <3>1
      <4> QED BY <1>5, <4>1
    <3>2. j # first
      <4>1. s[first].info = Unused
        BY <1>5
      <4> QED BY <2>1, <4>1
    <3>3. CASE j > first
      <4>1. j + k \in last + 1 .. n /\ (j + k) - k = j /\ j + k \in 1 .. n /\ j + k # b + 1
        BY <1>3, <1>4, <1>5, <1>6, <3>3
      <4> QED BY <1>5, <4>1
    <3> QED BY <1>6, <3>1, <3>2, <3>3
  <2>3. q \in Regions(blocks, n)
    BY <2>1, <2>2 DEF Regions
  <2>4. Region(blocks[i]) # Region(blocks[b + 1])
    BY <1>1, <1>4, <2>1, <2>2, RegionsApart DEF n
  <2> QED BY <2>1, <2>2, <2>3, <2>4 DEF r
<1>11. ASSUME NEW q \in Regions(blocks, n) \ {r}
       PROVE  q \in Regions(s, Len(s))
  <2>1. PICK i \in 1 .. n : blocks[i].info # Unused /\ q = Region(blocks[i])
    BY DEF Regions
  <2>2. i # b + 1
    BY <2>1 DEF r
  <2>3. i < first \/ i > last
    BY <1>3, <1>4, <1>6, <1>7, <2>1, <2>2
  <2>4. CASE i < first
    <3>1. i \in 1 .. first - 1 /\ i \in 1 .. Len(s)
      BY <1>3, <1>4, <1>5, <1>6, <2>4
    <3>2. s[i] = blocks[i]
      BY <1>5, <3>1
    <3> QED BY <2>1, <3>1, <3>2 DEF Regions
  <2>5. CASE i > last
    <3>0. i \in Nat /\ i <= n /\ n \in Nat /\ first >= 1
      BY <1>3, <1>4, <1>6
    <3>1. i \in last + 1 .. n /\ i - k \in 1 .. Len(s)
      BY <1>5, <1>6, <2>5, <3>0
    <3>2. s[i - k] = blocks[i]
      BY <1>5, <3>1
    <3> QED BY <2>1, <3>1, <3>2 DEF Regions
  <2> QED BY <2>3, <2>4, <2>5
<1>12. Regions(s, Len(s)) = Regions(blocks, n) \ {r}
  BY <1>10, <1>11
<1> QED BY <1>8, <1>9, <1>12 DEF n, s

(* The sizes of the regions, and the regions slid down. *)
AllRegions == Regions(blocks, Len(blocks))
Sizes      == [r \in AllRegions |-> r.end - r.begin + 1]
Slide(r)   == LET begin == SumFunctionOnSet(Sizes, {q \in AllRegions : q.end < r.begin})
              IN  [owner |-> r.owner, begin |-> begin, end |-> begin + (r.end - r.begin + 1) - 1]

(* m is what compact has moved after the first b blocks. *)
IsSlid(m, b) ==
    /\ next_begin(m) = SumFunctionOnSet(Sizes, Regions(blocks, b))
    /\ {Region(m[i]) : i \in 1 .. Len(m)} = {Slide(r) : r \in Regions(blocks, b)}

LEMMA SizesSum ==
    ASSUME AllocatorTypeOK
    PROVE  /\ SumFunctionOnSet(Sizes, {}) = 0
           /\ \A Y \in SUBSET AllRegions :
                 /\ SumFunctionOnSet(Sizes, Y) \in Int
                 /\ \A y \in Y : SumFunctionOnSet(Sizes, Y) = Sizes[y] + SumFunctionOnSet(Sizes, Y \ {y})
<1> DEFINE I == {i \in 1 .. Len(blocks) : blocks[i].info # Unused}
<1>1. 1 \in Int /\ Len(blocks) \in Int
  BY BlockTypes
<1>2. IsFiniteSet(1 .. Len(blocks)) /\ I \subseteq 1 .. Len(blocks)
  BY <1>1, FS_Interval
<1>3. IsFiniteSet(I)
  BY <1>2, FS_Subset
<1>4. AllRegions = {Region(blocks[i]) : i \in I}
  BY DEF AllRegions, Regions
<1> HIDE DEF I
<1>5. IsFiniteSet(AllRegions)
  <2> DEFINE f == [i \in I |-> Region(blocks[i])]
  <2>1. f \in Surjection(I, AllRegions)
    BY <1>4 DEF Surjection
  <2> HIDE DEF f
  <2> QED BY <1>3, <2>1, FS_Surjection
<1>6. ASSUME NEW r \in AllRegions
      PROVE  Sizes[r] \in Int
  <2>1. PICK i \in 1 .. Len(blocks) : r = Region(blocks[i])
    BY DEF AllRegions, Regions
  <2>2. r.begin = blocks[i].begin /\ r.end = blocks[i].end
    BY <2>1 DEF Region
  <2>3. blocks[i].begin \in Int /\ blocks[i].end \in Int
    BY BlockTypes
  <2> QED BY <2>2, <2>3 DEF Sizes
<1>7. \A r \in AllRegions : Sizes[r] \in Int
  BY <1>6
<1>8. SumFunctionOnSet(Sizes, {}) = 0
  BY <1>5, <1>7, SumAdd
<1>9. ASSUME NEW Y \in SUBSET AllRegions
      PROVE  SumFunctionOnSet(Sizes, Y) \in Int
  BY <1>5, <1>7, SumAdd
<1>10. ASSUME NEW Y \in SUBSET AllRegions, NEW y \in Y
       PROVE  SumFunctionOnSet(Sizes, Y) = Sizes[y] + SumFunctionOnSet(Sizes, Y \ {y})
  BY <1>5, <1>7, SumAdd
<1> QED BY <1>8, <1>9, <1>10

LEMMA MovedIsSlid ==
    ASSUME InOrder(blocks), AllocatorTypeOK
    PROVE  \A b \in 0 .. Len(blocks) : IsSlid(Moved[b], b)
<1> DEFINE S == {b \in 0 .. Len(blocks) : IsSlid(Moved[b], b)}
           n == Len(blocks)
<1>0. n \in Nat \ {0}
  BY BlockTypes
<1>1. 0 \in S
  <2>1. next_begin(<<>>) = 0 /\ Len(<<>>) = 0 /\ 1 .. 0 = {}
    BY DEF next_begin
  <2>2. Regions(blocks, 0) = {}
    BY <2>1 DEF Regions
  <2>3. IsSlid(<<>>, 0)
    BY <2>1, <2>2, SizesSum DEF IsSlid
  <2>4. Moved[0] = <<>>
    BY MovedIs
  <2> QED BY <1>0, <2>3, <2>4
<1>2. ASSUME NEW b \in 1 .. n, b - 1 \in S
      PROVE  b \in S
  <2> DEFINE m == Moved[b - 1]
             R == Regions(blocks, b - 1)
             y == Region(blocks[b])
             e == [info |-> blocks[b].info, begin |-> next_begin(m),
                   end |-> blocks[b].end - blocks[b].begin + next_begin(m)]
  <2>1. /\ next_begin(m) = SumFunctionOnSet(Sizes, R)
        /\ {Region(m[i]) : i \in 1 .. Len(m)} = {Slide(r) : r \in R}
    BY <1>2 DEF IsSlid
  <2>2. Moved[b] = IF blocks[b].info = Unused THEN m ELSE Append(m, e)
    BY MovedIs DEF MoveOne
  <2>3. \A i : i \in 1 .. b <=> i \in 1 .. b - 1 \/ i = b
    BY <1>0
  <2>4. R \subseteq AllRegions
    <3>1. \A i \in 1 .. b - 1 : i \in 1 .. n
      BY <1>0
    <3> QED BY <3>1 DEF AllRegions, Regions
  <2>5. m \in Seq(Blocks) /\ next_begin(m) \in Nat
    <3>1. b - 1 \in 0 .. n
      BY <1>0
    <3>2. IsGathered(Moved[b - 1], b - 1)
      BY <3>1, MovedIsGathered
    <3> QED BY <3>2 DEF IsGathered
  <2>6. CASE blocks[b].info = Unused
    <3>1. Regions(blocks, b) = R
      BY <2>3, <2>6 DEF Regions
    <3>2. IsSlid(m, b)
      BY <2>1, <3>1 DEF IsSlid
    <3> QED BY <1>0, <2>2, <2>6, <3>2
  <2>7. CASE blocks[b].info # Unused
    <3>1. Regions(blocks, b) = R \cup {y} /\ y \in AllRegions
      BY <2>3, <2>7 DEF Regions, AllRegions
    <3>2. y \notin R
      <4> SUFFICES ASSUME y \in R
                   PROVE  FALSE
        OBVIOUS
      <4>1. PICK i \in 1 .. b - 1 : blocks[i].info # Unused /\ y = Region(blocks[i])
        BY DEF Regions
      <4>2. i \in 1 .. n /\ i # b
        BY <1>0
      <4> QED BY <2>7, <4>1, <4>2, RegionsApart
    <3>3. {q \in AllRegions : q.end < y.begin} = R
      <4>1. ASSUME NEW i \in 1 .. n, blocks[i].info # Unused
            PROVE  /\ Region(blocks[i]).end < y.begin <=> i < b
                   /\ i < b <=> i \in 1 .. b - 1
        <5>1. blocks[i].end < blocks[b].begin <=> i < b
          BY <2>7, <4>1, RegionsApart
        <5>2. Region(blocks[i]).end = blocks[i].end /\ y.begin = blocks[b].begin
          BY DEF Region
        <5>3. i < b <=> i \in 1 .. b - 1
          BY <1>0
        <5> QED BY <5>1, <5>2, <5>3
      <4>2. \A i \in 1 .. b - 1 : i \in 1 .. n
        BY <1>0
      <4> HIDE DEF y
      <4>3. ASSUME NEW q \in AllRegions, q.end < y.begin
            PROVE  q \in R
        <5>1. PICK i \in 1 .. n : blocks[i].info # Unused /\ q = Region(blocks[i])
          BY DEF AllRegions, Regions
        <5>2. i \in 1 .. b - 1
          BY <4>1, <4>3, <5>1
        <5> QED BY <5>1, <5>2 DEF Regions
      <4>4. ASSUME NEW q \in R
            PROVE  q.end < y.begin
        <5>1. PICK i \in 1 .. b - 1 : blocks[i].info # Unused /\ q = Region(blocks[i])
          BY DEF Regions
        <5> QED BY <4>1, <4>2, <5>1
      <4> HIDE DEF R
      <4> QED BY <2>4, <4>3, <4>4
    <3>4. /\ y.begin = blocks[b].begin /\ y.end = blocks[b].end /\ y.owner = blocks[b].info
          /\ blocks[b].begin \in Int /\ blocks[b].end \in Int
      BY BlockTypes DEF Region
    <3>5. Slide(y) = Region(e)
      <4>1. e.info = blocks[b].info /\ e.begin = next_begin(m)
            /\ e.end = blocks[b].end - blocks[b].begin + next_begin(m)
        OBVIOUS
      <4>2. Slide(y) = [owner |-> y.owner, begin |-> next_begin(m),
                        end |-> next_begin(m) + (y.end - y.begin + 1) - 1]
        BY <2>1, <3>3 DEF Slide
      <4> HIDE DEF e, y, m
      <4>3. next_begin(m) + (y.end - y.begin + 1) - 1 = e.end
        BY <2>5, <3>4, <4>1
      <4> QED BY <3>4, <4>1, <4>2, <4>3 DEF Region
    <3>6. e \in Blocks
      <4>1. b \in 0 .. n /\ Append(m, e) = Moved[b]
        BY <1>0, <2>2, <2>7
      <4>2. IsGathered(Moved[b], b)
        BY <4>1, MovedIsGathered
      <4>3. Append(m, e) \in Seq(Blocks)
        BY <4>1, <4>2 DEF IsGathered
      <4> HIDE DEF m, e
      <4>4. Len(Append(m, e)) = Len(m) + 1 /\ Append(m, e)[Len(m) + 1] = e /\ Len(m) \in Nat
        BY <2>5
      <4>5. Len(m) + 1 \in 1 .. Len(Append(m, e))
        BY <4>4
      <4> QED BY <4>3, <4>4, <4>5, ElementOfSeq
    <3> HIDE DEF m, R, y
    <3>7. next_begin(Append(m, e)) = SumFunctionOnSet(Sizes, R \cup {y})
      <4>1. Sizes[y] = blocks[b].end - blocks[b].begin + 1
        BY <3>1, <3>4 DEF Sizes
      <4>2. SumFunctionOnSet(Sizes, R \cup {y}) = Sizes[y] + next_begin(m)
        <5>1. R \cup {y} \in SUBSET AllRegions /\ y \in R \cup {y} /\ (R \cup {y}) \ {y} = R
          BY <2>4, <3>1, <3>2
        <5>2. SumFunctionOnSet(Sizes, R \cup {y}) = Sizes[y] + SumFunctionOnSet(Sizes, (R \cup {y}) \ {y})
          BY <5>1, SizesSum
        <5> QED BY <2>1, <5>1, <5>2
      <4>3. e.end = blocks[b].end - blocks[b].begin + next_begin(m)
        OBVIOUS
      <4> HIDE DEF e
      <4>4. Append(m, e) # <<>> /\ Last(Append(m, e)) = e
        BY <2>5, <3>6, AppendProperties DEF Last
      <4> QED BY <2>5, <3>4, <4>1, <4>2, <4>3, <4>4 DEF next_begin
    <3>8. {Region(Append(m, e)[i]) : i \in 1 .. Len(Append(m, e))} = {Slide(r) : r \in R \cup {y}}
      <4> HIDE DEF e
      <4> DEFINE r == Append(m, e)
      <4>1. /\ Len(m) \in Nat /\ Len(r) = Len(m) + 1 /\ r[Len(m) + 1] = e
            /\ \A i \in 1 .. Len(m) : r[i] = m[i]
        BY <2>5, <3>6, AppendProperties
      <4> HIDE DEF r
      <4>2. \A i : i \in 1 .. Len(r) <=> i \in 1 .. Len(m) \/ i = Len(m) + 1
        BY <4>1
      <4>3. {Region(r[i]) : i \in 1 .. Len(r)} = {Region(m[i]) : i \in 1 .. Len(m)} \cup {Region(e)}
        BY <4>1, <4>2
      <4>4. {Slide(x) : x \in R \cup {y}} = {Slide(x) : x \in R} \cup {Slide(y)}
        OBVIOUS
      <4>5. {Region(r[i]) : i \in 1 .. Len(r)} = {Slide(x) : x \in R \cup {y}}
        BY <2>1, <3>5, <4>3, <4>4
      <4> QED BY <4>5 DEF r
    <3>9. IsSlid(Append(m, e), b)
      BY <3>1, <3>7, <3>8 DEF IsSlid
    <3>10. Moved[b] = Append(m, e)
      BY <2>2, <2>7
    <3> HIDE DEF e
    <3>11. IsSlid(Moved[b], b)
      BY <3>9, <3>10
    <3> QED BY <1>0, <3>11
  <2> QED BY <2>6, <2>7
<1> HIDE DEF S
<1>3. 0 .. n \subseteq S
  BY <1>0, <1>1, <1>2, BoundedInduction
<1> QED BY <1>3 DEF S

LEMMA CompactionSlides ==
    ASSUME BlocksInOrder, HolesAreMerged
    PROVE  Regions(Compacted, Len(Compacted)) = {Slide(r) : r \in AllRegions}
<1> DEFINE m == Gathered
           e == [info |-> Unused, begin |-> next_begin(m), end |-> capacity - 1]
           r == Compacted
<1>1. AllocatorTypeOK /\ InOrder(blocks) /\ Len(blocks) \in 0 .. Len(blocks)
  <2>1. AllocatorTypeOK /\ InOrder(blocks)
    BY InvariantIsInOrder DEF BlocksInOrder
  <2>2. Len(blocks) \in Nat
    BY <2>1, BlockTypes
  <2> QED BY <2>1, <2>2
<1>2. IsGathered(m, Len(blocks)) /\ IsSlid(m, Len(blocks))
  BY <1>1, MovedIsGathered, MovedIsSlid, GatheredIsLast
<1>3. r = Append(m, e) /\ e.info = Unused
  BY DEF Compacted
<1> HIDE DEF m, e, r
<1>4. m \in Seq(Blocks) /\ \A i \in 1 .. Len(m) : m[i].info # Unused
  BY <1>2 DEF IsGathered
<1>5. /\ Len(m) \in Nat /\ Len(r) = Len(m) + 1 /\ r[Len(m) + 1] = e
      /\ \A i \in 1 .. Len(m) : r[i] = m[i]
  BY <1>3, <1>4
<1>6. \A i : i \in 1 .. Len(r) <=> i \in 1 .. Len(m) \/ i = Len(m) + 1
  BY <1>5
<1>7. Regions(r, Len(r)) = {Region(m[i]) : i \in 1 .. Len(m)}
  BY <1>3, <1>4, <1>5, <1>6 DEF Regions
<1>8. {Region(m[i]) : i \in 1 .. Len(m)} = {Slide(x) : x \in AllRegions}
  BY <1>2 DEF IsSlid, AllRegions
<1> QED BY <1>7, <1>8 DEF r

-----------------------------------------------------------------------------
(* The allocator implements the memory map *)

OwnedRegions == {[owner |-> blocks[b].info, begin |-> blocks[b].begin, end |-> blocks[b].end] : b \in Owned}

LEMMA SlidIsSlide ==
    ASSUME OwnedRegions = AllRegions, NEW r
    PROVE  Abstract!Slid(r) = Slide(r)
<1> DEFINE below == {q \in AllRegions : q.end < r.begin}
<1>1. Abstract!Below(r) = below
  BY DEF Abstract!Below, OwnedRegions
<1>2. [s \in OwnedRegions |-> Abstract!Size(s)] = Sizes
  BY DEF Abstract!Size, Sizes
<1>3. \A f, X : Abstract!SumFunctionOnSet(f, X) = SumFunctionOnSet(f, X)
  BY DEF Abstract!SumFunctionOnSet, Abstract!FoldFunctionOnSet, Abstract!MapThenFoldSet,
         SumFunctionOnSet, FoldFunctionOnSet, MapThenFoldSet
<1> QED BY <1>1, <1>2, <1>3 DEF Abstract!Slid, Abstract!Size, Slide, OwnedRegions

LEMMA AbstractStart == AllocatorInit => Abstract!Init
<1> SUFFICES ASSUME AllocatorInit
             PROVE  OwnedRegions = {}
  BY DEF Abstract!Init, OwnedRegions
<1>1. blocks = <<[info |-> Unused, begin |-> 0, end |-> capacity - 1]>>
  BY DEF AllocatorInit
<1>2. DOMAIN blocks = {1} /\ blocks[1].info = Unused
  BY <1>1
<1> QED BY <1>2 DEF OwnedRegions, Owned

LEMMA OwnedRegionsAre == AllocatorInv => OwnedRegions = AllRegions
BY InvariantIsInOrder, RegionsAre DEF AllocatorInv, OwnedRegions, AllRegions

LEMMA AbstractStep ==
    AllocatorInv /\ AllocatorInv' /\ [AllocatorNext]_allocatorVars
        => [Abstract!Next]_({[owner |-> blocks[b].info, begin |-> blocks[b].begin,
                              end |-> blocks[b].end] : b \in Owned})
<1> SUFFICES ASSUME AllocatorInv, AllocatorInv', AllocatorNext \/ UNCHANGED allocatorVars
             PROVE  Abstract!Next \/ OwnedRegions' = OwnedRegions
  BY DEF OwnedRegions
<1>1. BlocksInOrder /\ HolesAreMerged /\ InOrder(blocks) /\ AllocatorTypeOK
  BY InvariantIsInOrder DEF AllocatorInv, BlocksInOrder
<1>2. OwnedRegions = AllRegions
  BY OwnedRegionsAre
<1>3. OwnedRegions' = Regions(blocks', Len(blocks'))
  <2>1. (OwnedRegions = AllRegions)'
    BY OwnedRegionsAre, PTL
  <2> QED BY <2>1 DEF AllRegions
<1>4. CASE blocks' = blocks
  BY <1>4 DEF OwnedRegions, Owned
<1>5. ASSUME NEW name \in Names, NEW length \in Lengths,
             FirstFit(name, length) \/ BestFit(name, length) \/ WorstFit(name, length)
      PROVE  Abstract!Next \/ OwnedRegions' = OwnedRegions
  <2>1. CASE \E b \in 0 .. Len(blocks) - 1 :
                 Holds(b + 1, length) /\ IsInsertion(blocks', name, b, length)
    <3>1. \E begin, end \in 0 .. capacity - 1 :
              /\ begin <= end
              /\ \A r \in AllRegions : end < r.begin \/ r.end < begin
              /\ Regions(blocks', Len(blocks')) = AllRegions
                                          \cup {[owner |-> name, begin |-> begin, end |-> end]}
      BY <1>1, <2>1, InsertionPlaces DEF AllRegions
    <3>2. Abstract!Place(name)
      BY <1>2, <1>3, <3>1 DEF Abstract!Place, Abstract!Disjoint, OwnedRegions
    <3> QED BY <3>2 DEF Abstract!Next
  <2> QED BY <1>1, <1>4, <1>5, <2>1, RequestIs
<1>6. ASSUME NEW name \in Names, Release(name)
      PROVE  Abstract!Next \/ OwnedRegions' = OwnedRegions
  <2>1. ASSUME NEW b \in 0 .. Len(blocks) - 1, blocks[b + 1].info = name,
               \A c \in 1 .. Len(blocks) : blocks[c].info = name => b + 1 <= c,
               blocks' = remove_block(b)
        PROVE  Abstract!Next
    <3>1. \E r \in AllRegions :
              /\ r.owner = name
              /\ \A q \in AllRegions : q.end < r.begin => q.owner # name
              /\ Regions(blocks', Len(blocks')) = AllRegions \ {r}
      BY <1>1, <2>1, RemovalFrees DEF AllRegions
    <3>2. Abstract!Free(name)
      BY <1>2, <1>3, <3>1 DEF Abstract!Free, Abstract!Below, OwnedRegions
    <3> QED BY <3>2 DEF Abstract!Next
  <2> QED BY <1>1, <1>4, <1>6, <2>1, ReleaseIs
<1>7. ASSUME Compact
      PROVE  Abstract!Next
  <2>1. blocks' = Compacted
    BY <1>7 DEF Compact, Compacted
  <2>2. OwnedRegions' = {Slide(r) : r \in AllRegions}
    BY <1>1, <1>3, <2>1, CompactionSlides
  <2>3. \A r : Abstract!Slid(r) = Slide(r)
    BY <1>2, SlidIsSlide
  <2>4. OwnedRegions' = {Abstract!Slid(r) : r \in OwnedRegions}
    BY <1>2, <2>2, <2>3
  <2> QED BY <2>4 DEF Abstract!Next, Abstract!Compact, OwnedRegions
<1> QED BY <1>4, <1>5, <1>6, <1>7 DEF AllocatorNext, Quit, AllocatorTerminated, allocatorVars

(* Every command keeps the other processes' regions, and a compaction      *)
(* slides all of them down in order: the allocator implements MemoryMap    *)
(* (memory.c:38-241, allocator.c:16-48).                                   *)
THEOREM AllocatorImplementsMemoryMap == AllocatorSpec => ImplementsMemoryMap
BY AllocatorInvariant, AbstractStart, AbstractStep, PTL
   DEF AllocatorSpec, ImplementsMemoryMap, Abstract!Spec
=============================================================================
