-------------------------- MODULE RecursionProofs --------------------------
(***************************************************************************)
(* What a function defined by recursion on a number, a fold over a         *)
(* sequence and a sum over a set are worth.  The induction is over a set   *)
(* of numbers, or of sets, and the step a function: nothing here takes an  *)
(* operator.                                                               *)
(***************************************************************************)
EXTENDS Integers, Sequences, FiniteSetsExt, Functions, FiniteSetTheorems, WellFoundedInduction,
        TLAPS

\* A set of numbers that has 0 and the successor of each of its members has all.
LEMMA SetInduction ==
    ASSUME NEW S, 0 \in S, \A k \in Nat : k \in S => k + 1 \in S
    PROVE  Nat \subseteq S
<1> DEFINE T == Nat \ S
<1> SUFFICES ASSUME T # {} PROVE FALSE
    OBVIOUS
<1>1. PICK x \in T : \A y \in T : <<y, x>> \notin OpToRel(<, Nat)
    <2>1. T \subseteq Nat
        OBVIOUS
    <2> HIDE DEF T
    <2> QED BY <2>1, WFMin, NatLessThanWellFounded
<1>2. x \in Nat /\ x \notin S /\ x # 0
    OBVIOUS
<1>3. x - 1 \in Nat /\ x - 1 < x
    BY <1>2
<1>4. <<x - 1, x>> \in OpToRel(<, Nat)
    BY <1>2, <1>3 DEF OpToRel
<1>5. x - 1 \in S
    BY <1>1, <1>3, <1>4
<1>6. (x - 1) + 1 \in S
    BY <1>3, <1>5
<1> QED BY <1>2, <1>6

\* What holds at the start and is kept by each of n steps holds at each of them.
LEMMA Reached ==
    ASSUME NEW n \in Nat, NEW X, NEW w, w[0] \in X,
           \A k \in 1..n : w[k - 1] \in X => w[k] \in X
    PROVE  \A k \in 0..n : w[k] \in X
<1> DEFINE S == {m \in Nat : m <= n => w[m] \in X}
<1>1. 0 \in S
    OBVIOUS
<1>2. ASSUME NEW k \in Nat, k \in S PROVE k + 1 \in S
    <2> SUFFICES ASSUME k + 1 <= n PROVE w[k + 1] \in X
        OBVIOUS
    <2>1. k + 1 \in 1..n /\ (k + 1) - 1 = k /\ w[k] \in X
        BY <1>2
    <2> QED BY <2>1
<1>3. Nat \subseteq S
    <2> HIDE DEF S
    <2> QED BY <1>1, <1>2, SetInduction
<1> QED BY <1>3

\* n steps from a start.
IsWalk(p, n, X, x0, G) ==
    p \in [0..n -> X] /\ p[0] = x0 /\ \A k \in 1..n : p[k] = G[k][p[k - 1]]

\* One step more can be taken.
LEMMA LongerWalk ==
    ASSUME NEW m \in Nat, NEW X, NEW x0, NEW G, G[m + 1] \in [X -> X],
           NEW p, IsWalk(p, m, X, x0, G)
    PROVE  \E q : IsWalk(q, m + 1, X, x0, G)
<1> DEFINE q == [k \in 0..m + 1 |-> IF k = m + 1 THEN G[m + 1][p[m]] ELSE p[k]]
<1>1. p \in [0..m -> X] /\ p[0] = x0 /\ \A k \in 1..m : p[k] = G[k][p[k - 1]]
    BY DEF IsWalk
<1>2. p[m] \in X
    BY <1>1
<1>3. G[m + 1][p[m]] \in X
    BY <1>2
<1>4. \A k \in 0..m : q[k] = p[k] /\ k \in 0..m + 1
    OBVIOUS
<1>5. q[m + 1] = G[m + 1][p[m]] /\ m \in 0..m /\ 0 \in 0..m
    OBVIOUS
<1>6. q \in [0..m + 1 -> X]
    BY <1>1, <1>3
<1> HIDE DEF q
<1>7. q[0] = x0
    BY <1>1, <1>4, <1>5
<1>8. ASSUME NEW k \in 1..m + 1 PROVE q[k] = G[k][q[k - 1]]
    <2>1. CASE k = m + 1
        <3>1. k - 1 = m
            BY <2>1
        <3> QED BY <2>1, <3>1, <1>4, <1>5
    <2>2. CASE k # m + 1
        <3>1. k \in 1..m /\ k \in 0..m /\ k - 1 \in 0..m
            BY <2>2
        <3> QED BY <3>1, <1>1, <1>4
    <2> QED BY <2>1, <2>2
<1> QED BY <1>6, <1>7, <1>8 DEF IsWalk

\* Any number of steps can be taken.
LEMMA WalkExists ==
    ASSUME NEW n \in Nat, NEW X, NEW x0 \in X, NEW G, \A k \in 1..n : G[k] \in [X -> X]
    PROVE  \E p : IsWalk(p, n, X, x0, G)
<1> DEFINE S == {m \in Nat : m <= n => \E p : IsWalk(p, m, X, x0, G)}
<1>1. 0 \in S
    <2>1. IsWalk([k \in 0..0 |-> x0], 0, X, x0, G)
        BY DEF IsWalk
    <2> QED BY <2>1
<1>2. ASSUME NEW m \in Nat, m \in S PROVE m + 1 \in S
    BY <1>2, LongerWalk
<1>3. Nat \subseteq S
    <2> HIDE DEF S
    <2> QED BY <1>1, <1>2, SetInduction
<1> QED BY <1>3

\* The last of the positions up to k is k.
LEMMA MaxUpTo ==
    ASSUME NEW k \in Nat, k > 0
    PROVE  Max(1..k) = k /\ (1..k) \ {k} = 1..k - 1 /\ 1..k # {}
<1>1. k \in 1..k /\ \A y \in 1..k : k >= y
    OBVIOUS
<1>2. ASSUME NEW x \in 1..k, \A y \in 1..k : x >= y PROVE x = k
    BY <1>1, <1>2
<1> QED BY <1>1, <1>2 DEF Max

\* A fold over positions 1..n: a value for every set of them, the last one last.
IsFold(f, n, X, x0, G) ==
    /\ f \in [SUBSET (1..n) -> X] /\ f[{}] = x0
    /\ \A t \in SUBSET (1..n) :
          t # {} => Max(t) \in t /\ f[t] = G[Max(t)][f[t \ {Max(t)}]]

\* One position more is one step more.
LEMMA LongerFold ==
    ASSUME NEW m \in Nat, NEW X, NEW x0, NEW G, G[m + 1] \in [X -> X],
           NEW f, IsFold(f, m, X, x0, G)
    PROVE  \E g : IsFold(g, m + 1, X, x0, G)
<1> DEFINE New(t) == G[m + 1][f[t \ {m + 1}]]
           g == [t \in SUBSET (1..m + 1) |-> IF m + 1 \in t THEN New(t) ELSE f[t]]
<1>1. /\ f \in [SUBSET (1..m) -> X] /\ f[{}] = x0
      /\ \A t \in SUBSET (1..m) :
            t # {} => Max(t) \in t /\ f[t] = G[Max(t)][f[t \ {Max(t)}]]
    BY DEF IsFold
<1>2. ASSUME NEW t \in SUBSET (1..m + 1)
      PROVE  /\ t \ {m + 1} \in SUBSET (1..m)
             /\ m + 1 \notin t => t \in SUBSET (1..m)
    OBVIOUS
<1>3. ASSUME NEW t \in SUBSET (1..m) PROVE t \in SUBSET (1..m + 1) /\ m + 1 \notin t
    OBVIOUS
<1>4. g \in [SUBSET (1..m + 1) -> X]
    BY <1>1, <1>2
<1>5. \A t \in SUBSET (1..m) : g[t] = f[t]
    BY <1>3
<1>6. \A t \in SUBSET (1..m + 1) : m + 1 \in t => g[t] = New(t)
    OBVIOUS
<1>7. ASSUME NEW t \in SUBSET (1..m + 1), m + 1 \in t PROVE Max(t) = m + 1
    <2>1. \A y \in t : y \in Int /\ m + 1 >= y
        OBVIOUS
    <2>2. ASSUME NEW x \in t, \A y \in t : x >= y PROVE x = m + 1
        BY <1>7, <2>1, <2>2
    <2> QED BY <1>7, <2>1, <2>2 DEF Max
<1> HIDE DEF g
<1>8. g[{}] = x0
    BY <1>1, <1>5
<1>9. ASSUME NEW t \in SUBSET (1..m + 1), t # {}
      PROVE  Max(t) \in t /\ g[t] = G[Max(t)][g[t \ {Max(t)}]]
    <2>1. CASE m + 1 \in t
        <3>1. Max(t) = m + 1 /\ g[t] = G[m + 1][f[t \ {m + 1}]]
            BY <2>1, <1>6, <1>7
        <3>2. f[t \ {m + 1}] = g[t \ {m + 1}]
            BY <1>2, <1>5
        <3> QED BY <2>1, <3>1, <3>2
    <2>2. CASE m + 1 \notin t
        <3>1. t \in SUBSET (1..m) /\ t \ {Max(t)} \in SUBSET (1..m)
            BY <2>2, <1>2
        <3> QED BY <3>1, <1>9, <1>1, <1>5
    <2> QED BY <2>1, <2>2
<1> QED BY <1>4, <1>8, <1>9 DEF IsFold

\* A fold can be taken over any number of positions.
LEMMA FoldExists ==
    ASSUME NEW n \in Nat, NEW X, NEW x0 \in X, NEW G, \A k \in 1..n : G[k] \in [X -> X]
    PROVE  \E f : IsFold(f, n, X, x0, G)
<1> DEFINE S == {m \in Nat : m <= n => \E f : IsFold(f, m, X, x0, G)}
<1>1. 0 \in S
    <2>1. 1..0 = {}
        OBVIOUS
    <2>2. IsFold([t \in SUBSET (1..0) |-> x0], 0, X, x0, G)
        BY <2>1 DEF IsFold
    <2> QED BY <2>2
<1>2. ASSUME NEW m \in Nat, m \in S PROVE m + 1 \in S
    BY <1>2, LongerFold
<1>3. Nat \subseteq S
    <2> HIDE DEF S
    <2> QED BY <1>1, <1>2, SetInduction
<1> QED BY <1>3
-----------------------------------------------------------------------------
(***************************************************************************)
(* Sums over finite sets: that they exist, do not depend on the order they *)
(* are taken in, and add up.                                               *)
(***************************************************************************)
\* A family that has a subset of U whenever it has what is left of it without any
\* one of its elements has all of them.
LEMMA SubsetInduction ==
    ASSUME NEW U, IsFiniteSet(U), NEW P,
           \A T \in SUBSET U : (\A x \in T : T \ {x} \in P) => T \in P
    PROVE  SUBSET U \subseteq P
<1> DEFINE S == {n \in Nat : \A T \in SUBSET U : Cardinality(T) = n => T \in P}
<1>1. ASSUME NEW T \in SUBSET U
      PROVE  /\ IsFiniteSet(T) /\ Cardinality(T) \in Nat
             /\ \A x \in T : T \ {x} \in SUBSET U /\ Cardinality(T \ {x}) = Cardinality(T) - 1
    <2>1. IsFiniteSet(T)
        BY FS_Subset
    <2>2. Cardinality(T) \in Nat
        BY <2>1, FS_CardinalityType
    <2>3. \A x \in T : Cardinality(T \ {x}) = Cardinality(T) - 1
        BY <2>1, FS_RemoveElement
    <2> QED BY <2>1, <2>2, <2>3
<1>2. 0 \in S
    <2>1. ASSUME NEW T \in SUBSET U, Cardinality(T) = 0 PROVE T \in P
        <3>1. T = {}
            BY <2>1, <1>1, FS_EmptySet
        <3> QED BY <3>1
    <2>2. 0 \in Nat
        OBVIOUS
    <2> QED BY <2>1, <2>2
<1>3. ASSUME NEW k \in Nat, k \in S PROVE k + 1 \in S
    <2>1. ASSUME NEW T \in SUBSET U, Cardinality(T) = k + 1 PROVE T \in P
        <3>1. ASSUME NEW x \in T PROVE T \ {x} \in P
            <4>1. T \ {x} \in SUBSET U /\ Cardinality(T \ {x}) = k
                BY <2>1, <1>1
            <4> QED BY <4>1, <1>3
        <3> QED BY <3>1
    <2>2. k + 1 \in Nat
        OBVIOUS
    <2> QED BY <2>1, <2>2
<1>4. Nat \subseteq S
    <2> HIDE DEF S
    <2> QED BY <1>2, <1>3, SetInduction
<1>5. ASSUME NEW T \in SUBSET U PROVE T \in P
    <2>1. Cardinality(T) \in S
        BY <1>1, <1>4
    <2> QED BY <2>1
<1> QED BY <1>5

\* The function by which a sum over S is defined, and the element it takes first.
First(s) == CHOOSE x \in s : TRUE
IsSum(g, f, S) ==
    g = [s \in SUBSET S |-> IF s = {} THEN 0 ELSE f[First(s)] + g[s \ {First(s)}]]

LEMMA SumIs ==
    ASSUME NEW f, NEW S
    PROVE  SumFunctionOnSet(f, S) = (CHOOSE g : IsSum(g, f, S))[S]
<1>1. SumFunctionOnSet(f, S) =
          (CHOOSE g : g = [s \in SUBSET S |->
                              IF s = {} THEN 0
                              ELSE f[CHOOSE x \in s : TRUE] + g[s \ {CHOOSE x \in s : TRUE}]])[S]
    BY Zenon DEF SumFunctionOnSet, FoldFunctionOnSet, MapThenFoldSet
<1> QED BY Zenon, <1>1 DEF IsSum, First

\* Such functions exist: on the subsets of at most n elements, one n after the other.
SumUpTo(g, f, S, n) ==
    \A s \in SUBSET S : Cardinality(s) <= n =>
        g[s] = IF s = {} THEN 0 ELSE f[First(s)] + g[s \ {First(s)}]

LEMMA LongerSum ==
    ASSUME NEW S, IsFiniteSet(S), NEW f, NEW n \in Nat, NEW g, SumUpTo(g, f, S, n)
    PROVE  \E h : SumUpTo(h, f, S, n + 1)
<1> DEFINE New(s) == f[First(s)] + g[s \ {First(s)}]
           h == [s \in SUBSET S |-> IF Cardinality(s) <= n THEN g[s] ELSE New(s)]
<1>1. ASSUME NEW s \in SUBSET S, s # {}, Cardinality(s) <= n + 1
      PROVE  s \ {First(s)} \in SUBSET S /\ Cardinality(s \ {First(s)}) <= n
    <2>1. IsFiniteSet(s) /\ First(s) \in s
        BY <1>1, FS_Subset DEF First
    <2>2. Cardinality(s) \in Nat /\ Cardinality(s \ {First(s)}) = Cardinality(s) - 1
        BY <2>1, FS_CardinalityType, FS_RemoveElement
    <2> QED BY <1>1, <2>2
<1>2. \A s \in SUBSET S : Cardinality(s) <= n => h[s] = g[s]
    OBVIOUS
<1>3. \A s \in SUBSET S : ~(Cardinality(s) <= n) => h[s] = New(s)
    OBVIOUS
<1> HIDE DEF h
<1>4. ASSUME NEW s \in SUBSET S, Cardinality(s) <= n + 1
      PROVE  h[s] = IF s = {} THEN 0 ELSE f[First(s)] + h[s \ {First(s)}]
    <2>1. CASE s = {}
        <3>1. Cardinality(s) = 0 /\ 0 <= n
            BY <2>1, FS_EmptySet
        <3>2. Cardinality(s) <= n
            BY <3>1
        <3> QED BY <2>1, <3>2, <1>2 DEF SumUpTo
    <2>2. CASE s # {}
        <3>1. s \ {First(s)} \in SUBSET S /\ h[s \ {First(s)}] = g[s \ {First(s)}]
            BY <2>2, <1>1, <1>4, <1>2
        <3>2. CASE Cardinality(s) <= n
            <4>1. h[s] = g[s] /\ g[s] = New(s)
                BY <2>2, <3>2, <1>2 DEF SumUpTo
            <4> QED BY <2>2, <3>1, <4>1
        <3>3. CASE ~(Cardinality(s) <= n)
            <4>1. h[s] = New(s)
                BY <3>3, <1>3
            <4> QED BY <2>2, <3>1, <4>1
        <3> QED BY <3>2, <3>3
    <2> QED BY <2>1, <2>2
<1>5. SumUpTo(h, f, S, n + 1)
    BY <1>4 DEF SumUpTo
<1> QED BY <1>5

LEMMA SumFunctionExists ==
    ASSUME NEW S, IsFiniteSet(S), NEW f
    PROVE  \E g : IsSum(g, f, S)
<1> DEFINE N == {n \in Nat : \E g : SumUpTo(g, f, S, n)}
<1>1. 0 \in N
    <2> DEFINE g == [s \in SUBSET S |-> 0]
    <2>1. ASSUME NEW s \in SUBSET S, Cardinality(s) <= 0 PROVE s = {}
        <3>1. IsFiniteSet(s)
            BY FS_Subset
        <3>2. Cardinality(s) \in Nat
            BY <3>1, FS_CardinalityType
        <3>3. Cardinality(s) = 0
            BY <2>1, <3>2
        <3> QED BY <3>1, <3>3, FS_EmptySet
    <2>2. SumUpTo(g, f, S, 0)
        BY <2>1 DEF SumUpTo
    <2>3. \E h : SumUpTo(h, f, S, 0)
        BY <2>2
    <2> QED BY <2>3
<1>2. ASSUME NEW n \in Nat, n \in N PROVE n + 1 \in N
    <2>1. PICK g : SumUpTo(g, f, S, n)
        BY <1>2
    <2>2. \E h : SumUpTo(h, f, S, n + 1)
        BY <2>1, LongerSum
    <2> QED BY <2>2
<1>3. Nat \subseteq N
    <2> HIDE DEF N
    <2> QED BY <1>1, <1>2, SetInduction
<1>4. Cardinality(S) \in Nat
    BY FS_CardinalityType
<1>5. PICK g : SumUpTo(g, f, S, Cardinality(S))
    BY <1>3, <1>4
<1> DEFINE h == [s \in SUBSET S |-> g[s]]
<1>6. ASSUME NEW s \in SUBSET S
      PROVE  h[s] = IF s = {} THEN 0 ELSE f[First(s)] + h[s \ {First(s)}]
    <2>1. Cardinality(s) <= Cardinality(S)
        BY FS_Subset
    <2>2. g[s] = IF s = {} THEN 0 ELSE f[First(s)] + g[s \ {First(s)}]
        BY <1>5, <2>1 DEF SumUpTo
    <2>3. s \ {First(s)} \in SUBSET S
        OBVIOUS
    <2> QED BY <2>2, <2>3
<1>7. h = [s \in SUBSET S |-> h[s]]
    OBVIOUS
<1> HIDE DEF h
<1>8. IsSum(h, f, S)
    BY <1>6, <1>7 DEF IsSum
<1> QED BY <1>8

\* The sum over a set is the same in any function that sums over a larger one.
LEMMA SumIn ==
    ASSUME NEW S, IsFiniteSet(S), NEW f, NEW g, IsSum(g, f, S), NEW T \in SUBSET S
    PROVE  g[T] = SumFunctionOnSet(f, T)
<1> DEFINE h == CHOOSE k : IsSum(k, f, T)
           P == {s \in SUBSET T : g[s] = h[s]}
<1>1. IsFiniteSet(T)
    BY FS_Subset
<1>2. IsSum(h, f, T) /\ SumFunctionOnSet(f, T) = h[T]
    <2>1. \E k : IsSum(k, f, T)
        BY <1>1, SumFunctionExists
    <2> QED BY <2>1, SumIs
<1> HIDE DEF h
<1>3. ASSUME NEW s \in SUBSET T, \A x \in s : s \ {x} \in P PROVE s \in P
    <2>1. /\ g[s] = IF s = {} THEN 0 ELSE f[First(s)] + g[s \ {First(s)}]
          /\ h[s] = IF s = {} THEN 0 ELSE f[First(s)] + h[s \ {First(s)}]
        <3>1. s \in SUBSET S
            OBVIOUS
        <3> QED BY <3>1, <1>2 DEF IsSum
    <2>2. s # {} => First(s) \in s
        BY DEF First
    <2>3. s # {} => g[s \ {First(s)}] = h[s \ {First(s)}]
        BY <2>2, <1>3
    <2> QED BY <2>1, <2>3
<1>4. SUBSET T \subseteq P
    <2> HIDE DEF P
    <2> QED BY <1>1, <1>3, SubsetInduction
<1> QED BY <1>2, <1>4

\* The equation of a sum.
LEMMA SumStep ==
    ASSUME NEW S, IsFiniteSet(S), NEW f
    PROVE  /\ SumFunctionOnSet(f, {}) = 0
           /\ S # {} => SumFunctionOnSet(f, S) =
                            f[First(S)] + SumFunctionOnSet(f, S \ {First(S)})
<1>1. PICK g : IsSum(g, f, S)
    BY SumFunctionExists
<1>2. \A T \in SUBSET S : g[T] = SumFunctionOnSet(f, T)
    BY <1>1, SumIn
<1>3. {} \in SUBSET S /\ S \in SUBSET S /\ S \ {First(S)} \in SUBSET S
    OBVIOUS
<1>4. \A s \in SUBSET S : g[s] = IF s = {} THEN 0 ELSE f[First(s)] + g[s \ {First(s)}]
    BY <1>1 DEF IsSum
<1> QED BY <1>2, <1>3, <1>4

\* A sum depends on the values summed, and on nothing else of the function.
LEMMA SumSame ==
    ASSUME NEW S, IsFiniteSet(S), NEW f, NEW g, \A x \in S : f[x] = g[x]
    PROVE  SumFunctionOnSet(f, S) = SumFunctionOnSet(g, S)
<1> DEFINE P == {T \in SUBSET S : SumFunctionOnSet(f, T) = SumFunctionOnSet(g, T)}
<1>1. ASSUME NEW T \in SUBSET S, \A x \in T : T \ {x} \in P PROVE T \in P
    <2>1. IsFiniteSet(T)
        BY FS_Subset
    <2>2. CASE T = {}
        BY <2>2, <2>1, SumStep
    <2>3. CASE T # {}
        <3>1. First(T) \in T
            BY <2>3 DEF First
        <3>2. /\ SumFunctionOnSet(f, T) = f[First(T)] + SumFunctionOnSet(f, T \ {First(T)})
              /\ SumFunctionOnSet(g, T) = g[First(T)] + SumFunctionOnSet(g, T \ {First(T)})
            BY <2>1, <2>3, SumStep
        <3>3. f[First(T)] = g[First(T)] /\ T \ {First(T)} \in P
            BY <3>1, <1>1
        <3> QED BY <3>2, <3>3
    <2> QED BY <2>2, <2>3
<1>2. SUBSET S \subseteq P
    <2> HIDE DEF P
    <2> QED BY <1>1, SubsetInduction
<1> QED BY <1>2

LEMMA SumType ==
    ASSUME NEW S, IsFiniteSet(S), NEW f, \A x \in S : f[x] \in Int
    PROVE  SumFunctionOnSet(f, S) \in Int
<1> DEFINE P == {T \in SUBSET S : SumFunctionOnSet(f, T) \in Int}
<1>1. ASSUME NEW T \in SUBSET S, \A x \in T : T \ {x} \in P PROVE T \in P
    <2>1. IsFiniteSet(T)
        BY FS_Subset
    <2>2. CASE T = {}
        <3>1. SumFunctionOnSet(f, T) = 0
            BY <2>2, <2>1, SumStep
        <3> QED BY <3>1
    <2>3. CASE T # {}
        <3>1. First(T) \in T
            BY <2>3 DEF First
        <3>2. SumFunctionOnSet(f, T) = f[First(T)] + SumFunctionOnSet(f, T \ {First(T)})
            BY <2>1, <2>3, SumStep
        <3>3. f[First(T)] \in Int /\ SumFunctionOnSet(f, T \ {First(T)}) \in Int
            BY <3>1, <1>1
        <3> QED BY <3>2, <3>3
    <2> QED BY <2>2, <2>3
<1>2. SUBSET S \subseteq P
    <2> HIDE DEF P
    <2> QED BY <1>1, SubsetInduction
<1> QED BY <1>2

\* The order of a sum does not matter: any element may be taken first.
LEMMA SumRemove ==
    ASSUME NEW S, IsFiniteSet(S), NEW f, \A x \in S : f[x] \in Int, NEW e \in S
    PROVE  SumFunctionOnSet(f, S) = f[e] + SumFunctionOnSet(f, S \ {e})
<1> DEFINE Sum(T) == SumFunctionOnSet(f, T)
           P == {T \in SUBSET S : \A x \in T : Sum(T) = f[x] + Sum(T \ {x})}
<1>1. ASSUME NEW T \in SUBSET S
      PROVE  IsFiniteSet(T) /\ Sum(T) \in Int
    <2>1. IsFiniteSet(T)
        BY FS_Subset
    <2> QED BY <2>1, SumType
<1>2. ASSUME NEW T \in SUBSET S, T # {} PROVE First(T) \in T /\ Sum(T) = f[First(T)] + Sum(T \ {First(T)})
    BY <1>1, <1>2, SumStep DEF First
<1> HIDE DEF Sum
<1>3. ASSUME NEW T \in SUBSET S, \A y \in T : T \ {y} \in P, NEW x \in T
      PROVE  Sum(T) = f[x] + Sum(T \ {x})
    <2> DEFINE c == First(T)
    <2>1. c \in T /\ Sum(T) = f[c] + Sum(T \ {c})
        BY <1>2
    <2> HIDE DEF c
    <2>2. CASE x = c
        BY <2>1, <2>2
    <2>3. CASE x # c
        <3>1. Sum(T \ {c}) = f[x] + Sum((T \ {c}) \ {x})
            BY <2>1, <2>3, <1>3
        <3>2. Sum(T \ {x}) = f[c] + Sum((T \ {x}) \ {c})
            BY <2>1, <2>3, <1>3
        <3>3. (T \ {x}) \ {c} = (T \ {c}) \ {x}
            OBVIOUS
        <3>4. f[x] \in Int /\ f[c] \in Int /\ Sum((T \ {c}) \ {x}) \in Int
            BY <2>1, <1>1
        <3>5. Sum((T \ {x}) \ {c}) = Sum((T \ {c}) \ {x})
            BY <3>3
        <3> DEFINE r == Sum((T \ {c}) \ {x})
                   s == Sum(T \ {c})
                   t == Sum(T \ {x})
        <3>6. Sum(T) = f[c] + s /\ s = f[x] + r /\ t = f[c] + r /\ r \in Int
            BY <2>1, <3>1, <3>2, <3>4, <3>5
        <3> HIDE DEF r, s, t
        <3>7. Sum(T) = f[x] + t
            BY <3>4, <3>6
        <3> QED BY <3>7 DEF t
    <2> QED BY <2>2, <2>3
<1>4. SUBSET S \subseteq P
    <2>1. \A T \in SUBSET S : (\A x \in T : T \ {x} \in P) => T \in P
        BY <1>3
    <2> HIDE DEF P
    <2> QED BY <2>1, SubsetInduction
<1> QED BY <1>4 DEF Sum

\* The sum over two sets without a common element.
LEMMA SumUnion ==
    ASSUME NEW A, IsFiniteSet(A), NEW B, IsFiniteSet(B), A \cap B = {},
           NEW f, \A x \in A \cup B : f[x] \in Int
    PROVE  SumFunctionOnSet(f, A \cup B) = SumFunctionOnSet(f, A) + SumFunctionOnSet(f, B)
<1> DEFINE Sum(T) == SumFunctionOnSet(f, T)
           P == {T \in SUBSET B : Sum(A \cup T) = Sum(A) + Sum(T)}
<1>1. ASSUME NEW T \in SUBSET (A \cup B) PROVE IsFiniteSet(T) /\ Sum(T) \in Int
    <2>1. IsFiniteSet(A \cup B)
        BY FS_Union
    <2>2. IsFiniteSet(T)
        BY <2>1, FS_Subset
    <2> QED BY <2>2, SumType
<1>2. ASSUME NEW T \in SUBSET (A \cup B), NEW x \in T PROVE Sum(T) = f[x] + Sum(T \ {x})
    BY <1>1, SumRemove
<1>3. Sum({}) = 0
    BY SumStep
<1> HIDE DEF Sum
<1>4. ASSUME NEW T \in SUBSET B, \A y \in T : T \ {y} \in P PROVE T \in P
    <2>1. CASE T = {}
        <3>1. A \cup T = A /\ Sum(A) \in Int
            BY <2>1, <1>1
        <3> QED BY <2>1, <3>1, <1>3
    <2>2. CASE T # {}
        <3>1. PICK x \in T : TRUE
            BY <2>2
        <3>2. /\ T \in SUBSET (A \cup B) /\ A \cup T \in SUBSET (A \cup B)
              /\ A \in SUBSET (A \cup B) /\ T \ {x} \in SUBSET (A \cup B)
            OBVIOUS
        <3>3. (A \cup T) \ {x} = A \cup (T \ {x})
            OBVIOUS
        <3>4. Sum(A \cup T) = f[x] + Sum(A \cup (T \ {x})) /\ Sum(T) = f[x] + Sum(T \ {x})
            BY <3>2, <3>3, <1>2
        <3>5. Sum(A \cup (T \ {x})) = Sum(A) + Sum(T \ {x})
            BY <1>4
        <3>6. f[x] \in Int /\ Sum(A) \in Int /\ Sum(T \ {x}) \in Int
            BY <3>2, <1>1
        <3>7. Sum(A \cup T) = Sum(A) + Sum(T)
            BY <3>4, <3>5, <3>6
        <3> QED BY <3>7
    <2> QED BY <2>1, <2>2
<1>5. SUBSET B \subseteq P
    <2> HIDE DEF P
    <2> QED BY <1>4, SubsetInduction
<1> QED BY <1>5 DEF Sum
=============================================================================
