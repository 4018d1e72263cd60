------------------------------- MODULE Lemmas -------------------------------
(***************************************************************************)
(* Facts that the proofs of several components rest on: rounding;          *)
(* induction over the numbers and over the subsets of a finite set, each   *)
(* stated for the SET of what a fact holds of; and the sums of the         *)
(* Functions module, which add up a function in an unspecified order.      *)
(***************************************************************************)
EXTENDS Rounding, FiniteSetTheorems, TLAPS

-----------------------------------------------------------------------------
(* Rounding.                                                               *)

LEMMA Division ==
  ASSUME NEW n \in Int, NEW m \in Int, m > 0
  PROVE  /\ n \div m \in Int /\ n % m \in Int
         /\ n = m * (n \div m) + (n % m) /\ 0 <= n % m /\ n % m < m
OBVIOUS

\* round() is off by half at most.
LEMMA RoundNear ==
  ASSUME NEW n \in Int, NEW m \in Int, m > 0
  PROVE  /\ RoundHalfEven(n, m) \in Int
         /\ 2 * (m * RoundHalfEven(n, m)) <= 2 * n + m
         /\ 2 * (m * RoundHalfEven(n, m)) >= 2 * n - m
<1> DEFINE q == n \div m
           r == n % m
<1>1. q \in Int /\ r \in Int /\ n = m * q + r /\ 0 <= r /\ r < m
  BY Division
<1>2. \/ RoundHalfEven(n, m) = q /\ 2 * r <= m
      \/ RoundHalfEven(n, m) = q + 1 /\ 2 * r >= m
  BY <1>1 DEF RoundHalfEven
<1> HIDE DEF q, r
<1>3. m * (q + 1) = m * q + m
  BY <1>1
<1> QED
  BY <1>1, <1>2, <1>3

\* Rounding keeps the order, and leaves an integer alone.
LEMMA RoundMonotone ==
  ASSUME NEW x \in Int, NEW y \in Int, x <= y, NEW m \in Int, m > 0
  PROVE  RoundHalfEven(x, m) <= RoundHalfEven(y, m)
<1> DEFINE j == RoundHalfEven(x, m)
           k == RoundHalfEven(y, m)
<1>1. /\ j \in Int /\ 2 * (m * j) <= 2 * x + m /\ 2 * (m * j) >= 2 * x - m
      /\ k \in Int /\ 2 * (m * k) <= 2 * y + m /\ 2 * (m * k) >= 2 * y - m
  BY RoundNear
<1>2. x = y => j = k
  OBVIOUS
<1> HIDE DEF j, k
<1>3. SUFFICES ASSUME j > k PROVE FALSE
  BY <1>1 DEF j, k
<1>4. m * (j - k) = m * j - m * k
  BY <1>1
<1>5. m * (j - k) >= m
  <2>1. j - k >= 1
    BY <1>1, <1>3
  <2> HIDE <1>4
  <2> DEFINE d == j - k
  <2>2. d \in Int /\ d >= 1
    BY <1>1, <2>1
  <2> HIDE DEF d
  <2>3. m * d >= m
    BY <2>2
  <2> QED
    BY <2>3 DEF d
<1>6. x = y
  BY <1>1, <1>4, <1>5
<1> QED
  BY <1>1, <1>2, <1>3, <1>6

LEMMA RoundExact ==
  ASSUME NEW x \in Int, NEW m \in Int, m > 0
  PROVE  RoundHalfEven(x * m, m) = x
<1> DEFINE n == x * m
           q == n \div m
           r == n % m
<1>1. n \in Int
  OBVIOUS
<1>2. q \in Int /\ r \in Int /\ n = m * q + r /\ 0 <= r /\ r < m
  <2> HIDE DEF n
  <2> QED
    BY <1>1, Division
<1>3. RoundHalfEven(n, m) = IF 2 * r < m \/ (2 * r = m /\ q % 2 = 0) THEN q ELSE q + 1
  BY DEF RoundHalfEven
<1>4. n = x * m
  OBVIOUS
<1> HIDE DEF n, q, r
<1>5. m * (x - q) = r
  BY <1>2, <1>4
<1> DEFINE d == x - q
<1>6. d \in Int /\ m * d = r
  BY <1>2, <1>5
<1> HIDE DEF d
<1>7. d = 0
  <2>1. d >= 1 => m * d >= m
    BY <1>6
  <2>2. d <= -1 => m * d <= -m
    BY <1>6
  <2> QED
    BY <1>2, <1>6, <2>1, <2>2
<1>8. q = x /\ r = 0
  BY <1>2, <1>6, <1>7 DEF d
<1> QED
  BY <1>3, <1>8 DEF n

-----------------------------------------------------------------------------
(* Induction.                                                              *)

\* A nonempty set of natural numbers has a least element.
LEMMA LeastOf ==
  ASSUME NEW T, T \subseteq Nat, T # {}
  PROVE  \E n \in T : \A m \in T : n <= m
<1>1. PICK n \in T : \A m \in T : ~(<<m, n>> \in OpToRel(<, Nat))
  BY NatLessThanWellFounded, WFMin
<1>2. \A m \in T : ~(m < n)
  BY <1>1 DEF OpToRel
<1> QED
  BY <1>2

\* What holds of 0, and of n + 1 when it holds of n, holds of every number.
LEMMA NumbersInductive ==
  ASSUME NEW T, 0 \in T, \A n \in Nat : n \in T => n + 1 \in T
  PROVE  Nat \subseteq T
<1> DEFINE bad == Nat \ T
<1>1. SUFFICES ASSUME bad # {}
               PROVE  FALSE
  OBVIOUS
<1>2. PICK n \in bad : \A m \in bad : n <= m
  BY <1>1, LeastOf
<1>3. n # 0 /\ n - 1 \in Nat /\ (n - 1) + 1 = n
  OBVIOUS
<1>4. n - 1 \in T
  BY <1>2, <1>3
<1> QED
  BY <1>3, <1>4

\* What holds of a set when it holds of the set without any one element, holds
\* of every subset of a finite set.
LEMMA SubsetsInductive ==
  ASSUME NEW S, IsFiniteSet(S), NEW T,
         \A s \in SUBSET S : (\A a \in s : s \ {a} \in T) => s \in T
  PROVE  SUBSET S \subseteq T
<1> DEFINE bad == {s \in SUBSET S : s \notin T}
           sizes == {Cardinality(s) : s \in bad}
<1>1. \A s \in SUBSET S : IsFiniteSet(s) /\ Cardinality(s) \in Nat
  BY FS_Subset, FS_CardinalityType
<1>2. SUFFICES ASSUME bad # {}
               PROVE  FALSE
  OBVIOUS
<1>3. sizes \subseteq Nat /\ sizes # {}
  BY <1>1, <1>2
<1>4. PICK n \in sizes : \A m \in sizes : n <= m
  <2> HIDE DEF sizes
  <2> QED
    BY <1>3, LeastOf
<1>5. PICK s \in bad : n = Cardinality(s)
  BY <1>4
<1>6. ASSUME NEW a \in s
      PROVE  s \ {a} \in T
  <2>1. s \ {a} \in SUBSET S /\ IsFiniteSet(s) /\ Cardinality(s) \in Nat
    BY <1>1
  <2>2. Cardinality(s \ {a}) = Cardinality(s) - 1
    BY <2>1, FS_RemoveElement
  <2>3. Cardinality(s \ {a}) \notin sizes
    BY <1>4, <1>5, <2>1, <2>2
  <2> QED
    BY <2>1, <2>3
<1> QED
  BY <1>6

\* f starts at b, and g gives each value from the one before.
Recursive(f, m, b, g) == f = [n \in 0..m |-> IF n = 0 THEN b ELSE g[<<n, f[n - 1]>>]]

\* A function may be defined by recursion on the numbers up to a last one.
LEMMA RecursionExists ==
  ASSUME NEW N \in Nat, NEW V, NEW b \in V, NEW g \in [(1..N) \X V -> V]
  PROVE  \E f \in [0..N -> V] : Recursive(f, N, b, g)
<1> USE DEF Recursive
<1> DEFINE Defines(f, m) == Recursive(f, m, b, g)
           T == {m \in Nat : m <= N => \E f \in [0..m -> V] : Defines(f, m)}
<1>1. 0 \in T
  <2> DEFINE f == [n \in 0..0 |-> b]
  <2>1. f \in [0..0 -> V] /\ Defines(f, 0)
    OBVIOUS
  <2>2. \E h \in [0..0 -> V] : Defines(h, 0)
    <3> HIDE DEF f, Recursive, Defines
    <3> QED
      BY <2>1
  <2> QED
    BY <2>2
<1>2. ASSUME NEW m \in Nat, m \in T
      PROVE  m + 1 \in T
  <2>1. SUFFICES ASSUME m + 1 <= N
                 PROVE  \E h \in [0..m + 1 -> V] : Defines(h, m + 1)
    OBVIOUS
  <2>2. PICK f \in [0..m -> V] : Defines(f, m)
    BY <1>2, <2>1
  <2> DEFINE h == [n \in 0..m + 1 |-> IF n = m + 1 THEN g[<<m + 1, f[m]>>] ELSE f[n]]
  <2>3. m + 1 \in 1..N /\ m \in 0..m
    BY <2>1
  <2>4. g[<<m + 1, f[m]>>] \in V
    BY <2>3
  <2>5. h \in [0..m + 1 -> V]
    BY <2>4
  <2>6. ASSUME NEW n \in 0..m + 1
        PROVE  h[n] = IF n = 0 THEN b ELSE g[<<n, h[n - 1]>>]
    <3>1. CASE n = m + 1
      <4>1. h[n] = g[<<n, f[m]>>] /\ h[m] = f[m] /\ n - 1 = m /\ n # 0
        BY <3>1
      <4> HIDE DEF h
      <4> QED
        BY <4>1
    <3>2. CASE n # m + 1
      <4>1. n \in 0..m /\ (n # 0 => n - 1 \in 0..m)
        BY <3>2
      <4>2. f[n] = IF n = 0 THEN b ELSE g[<<n, f[n - 1]>>]
        BY <2>2, <4>1
      <4>3. h[n] = f[n] /\ (n # 0 => h[n - 1] = f[n - 1])
        BY <4>1
      <4> HIDE DEF h
      <4> QED
        BY <4>2, <4>3
    <3> QED
      BY <3>1, <3>2
  <2>7. Defines(h, m + 1)
    <3> HIDE DEF h
    <3>1. h = [n \in 0..m + 1 |-> h[n]]
      BY <2>5
    <3> QED
      BY <2>6, <3>1
  <2> HIDE DEF h, Recursive, Defines
  <2> QED
    BY <2>5, <2>7
<1>3. N \in T
  <2> HIDE DEF T
  <2> QED
    BY <1>1, <1>2, NumbersInductive
<1> QED
  BY <1>3

-----------------------------------------------------------------------------
(* Sums.                                                                   *)

Pick(s) == CHOOSE x \in s : TRUE

\* The recursion behind SumFunctionOnSet: what is summed first is left open.
Summed(f, partial, s) == IF s = {} THEN 0 ELSE f[Pick(s)] + partial[s \ {Pick(s)}]
SumsOver(f, sets, partial) == partial = [s \in sets |-> Summed(f, partial, s)]

LEMMA SumDefinition ==
  ASSUME NEW f, NEW S
  PROVE  SumFunctionOnSet(f, S) = (CHOOSE partial : SumsOver(f, SUBSET S, partial))[S]
BY DEF SumFunctionOnSet, FoldFunctionOnSet, MapThenFoldSet, SumsOver, Summed, Pick

LEMMA PickFrom ==
  ASSUME NEW s, s # {}
  PROVE  Pick(s) \in s
BY DEF Pick

\* The recursion has a solution, by induction on the size of the sets.
LEMMA SumsExist ==
  ASSUME NEW f, NEW S, IsFiniteSet(S)
  PROVE  \E partial : SumsOver(f, SUBSET S, partial)
<1> DEFINE Small(n) == {s \in SUBSET S : Cardinality(s) <= n}
           T == {n \in Nat : \E g : SumsOver(f, Small(n), g)}
<1>1. \A s \in SUBSET S : IsFiniteSet(s) /\ Cardinality(s) \in Nat
  BY FS_Subset, FS_CardinalityType
<1>2. 0 \in T
  <2> DEFINE g == [s \in Small(0) |-> 0]
  <2>1. \A s \in Small(0) : s = {}
    BY <1>1, FS_EmptySet
  <2>2. SumsOver(f, Small(0), g)
    BY <2>1 DEF SumsOver, Summed
  <2> QED
    BY <2>2
<1>3. ASSUME NEW n \in Nat, n \in T
      PROVE  n + 1 \in T
  <2>1. PICK g : SumsOver(f, Small(n), g)
    BY <1>3
  <2> DEFINE h == [s \in Small(n + 1) |-> Summed(f, g, s)]
  <2>2. ASSUME NEW s \in Small(n + 1), s # {}
        PROVE  h[s \ {Pick(s)}] = g[s \ {Pick(s)}]
    <3> DEFINE u == s \ {Pick(s)}
    <3>1. Cardinality(u) = Cardinality(s) - 1 /\ Cardinality(s) \in Nat
      BY <1>1, <2>2, PickFrom, FS_RemoveElement
    <3>2. u \in Small(n) /\ u \in Small(n + 1)
      BY <3>1
    <3> HIDE DEF u, Small
    <3>3. h[u] = Summed(f, g, u) /\ g[u] = Summed(f, g, u)
      BY <2>1, <3>2 DEF SumsOver
    <3> QED
      BY <3>3 DEF u
  <2>3. \A s \in Small(n + 1) : Summed(f, h, s) = Summed(f, g, s)
    <3> HIDE DEF h
    <3> QED
      BY <2>2 DEF Summed
  <2>4. SumsOver(f, Small(n + 1), h)
    <3>1. h = [s \in Small(n + 1) |-> Summed(f, h, s)]
      BY <2>3
    <3> QED
      BY <3>1 DEF SumsOver
  <2> HIDE DEF h, Small
  <2>5. \E k : SumsOver(f, Small(n + 1), k)
    BY <2>4
  <2> QED
    BY <2>5
<1>4. Cardinality(S) \in T
  <2>1. Cardinality(S) \in Nat
    BY <1>1
  <2> HIDE DEF T
  <2> QED
    BY <1>2, <1>3, <2>1, NumbersInductive
<1>5. Small(Cardinality(S)) = SUBSET S
  BY FS_Subset
<1> QED
  BY <1>4, <1>5

LEMMA SumsType ==
  ASSUME NEW S, IsFiniteSet(S), NEW f, \A a \in S : f[a] \in Int,
         NEW p, SumsOver(f, SUBSET S, p)
  PROVE  \A s \in SUBSET S : p[s] \in Int
<1> DEFINE T == {s \in SUBSET S : p[s] \in Int}
<1>1. \A s \in SUBSET S : p[s] = Summed(f, p, s)
  BY DEF SumsOver
<1>2. ASSUME NEW s \in SUBSET S, \A a \in s : s \ {a} \in T
      PROVE  s \in T
  <2>1. CASE s = {}
    <3>1. p[s] = 0
      BY <1>1, <2>1 DEF Summed
    <3> QED
      BY <3>1
  <2>2. CASE s # {}
    <3> DEFINE b == Pick(s)
    <3>1. b \in s /\ b \in S
      BY <2>2, PickFrom
    <3> HIDE DEF b
    <3>2. p[s] = f[b] + p[s \ {b}]
      BY <1>1, <2>2 DEF Summed, b
    <3> QED
      BY <1>2, <3>1, <3>2
  <2> QED
    BY <2>1, <2>2
<1> HIDE DEF T
<1>3. SUBSET S \subseteq T
  BY <1>2, SubsetsInductive
<1> QED
  BY <1>3 DEF T

\* Any element may be taken out first.
LEMMA SumsSplit ==
  ASSUME NEW S, IsFiniteSet(S), NEW f, \A a \in S : f[a] \in Int,
         NEW p, SumsOver(f, SUBSET S, p)
  PROVE  \A s \in SUBSET S : p[s] \in Int /\ \A a \in s : p[s] = f[a] + p[s \ {a}]
<1> DEFINE T == {s \in SUBSET S : p[s] \in Int /\ \A a \in s : p[s] = f[a] + p[s \ {a}]}
<1>1. \A s \in SUBSET S : p[s] = Summed(f, p, s) /\ p[s] \in Int
  BY SumsType DEF SumsOver
<1>2. ASSUME NEW s \in SUBSET S, \A a \in s : s \ {a} \in T
      PROVE  s \in T
  <2>1. CASE s = {}
    BY <1>1, <2>1
  <2>2. CASE s # {}
    <3> DEFINE b == Pick(s)
    <3>1. b \in s /\ b \in S
      BY <2>2, PickFrom
    <3> HIDE DEF b
    <3>2. p[s] = f[b] + p[s \ {b}]
      BY <1>1, <2>2 DEF Summed, b
    <3>3. p[s \ {b}] \in Int /\ f[b] \in Int
      BY <1>2, <3>1
    <3>4. ASSUME NEW a \in s, a # b
          PROVE  p[s] = f[a] + p[s \ {a}]
      <4>1. p[s \ {b}] = f[a] + p[(s \ {b}) \ {a}]
        BY <1>2, <3>1, <3>4
      <4>2. p[s \ {a}] = f[b] + p[(s \ {a}) \ {b}]
        BY <1>2, <3>1, <3>4
      <4>3. (s \ {b}) \ {a} = (s \ {a}) \ {b}
        OBVIOUS
      <4>4. (s \ {b}) \ {a} \in SUBSET S /\ a \in S
        OBVIOUS
      <4>5. p[(s \ {b}) \ {a}] \in Int /\ f[a] \in Int
        BY <1>1, <4>4
      <4> DEFINE rest == p[(s \ {b}) \ {a}]
      <4>6. p[s] = f[b] + (f[a] + rest) /\ p[s \ {a}] = f[b] + rest
        BY <3>2, <4>1, <4>2, <4>3
      <4>7. rest \in Int
        BY <4>5
      <4> HIDE DEF rest
      <4> QED
        BY <3>3, <4>5, <4>6, <4>7
    <3>5. p[s] \in Int
      BY <1>1
    <3> QED
      BY <3>2, <3>4, <3>5
  <2> QED
    BY <2>1, <2>2
<1> HIDE DEF T
<1>4. SUBSET S \subseteq T
  BY <1>2, SubsetsInductive
<1> QED
  BY <1>4 DEF T

Agree(f, g, S) == \A a \in S : f[a] = g[a]

\* A sum depends on nothing but the elements summed.
LEMMA SumsAgree ==
  ASSUME NEW S, NEW T \in SUBSET S, IsFiniteSet(T), NEW f, NEW g, Agree(f, g, T),
         NEW p, SumsOver(f, SUBSET S, p), NEW q, SumsOver(g, SUBSET T, q)
  PROVE  Agree(p, q, SUBSET T)
<1> USE DEF Agree
<1> DEFINE same == {s \in SUBSET T : p[s] = q[s]}
<1>1. ASSUME NEW s \in SUBSET T
      PROVE  p[s] = Summed(f, p, s) /\ q[s] = Summed(g, q, s)
  BY DEF SumsOver
<1>2. ASSUME NEW s \in SUBSET T, \A a \in s : s \ {a} \in same
      PROVE  s \in same
  <2>1. CASE s = {}
    BY <1>1, <2>1 DEF Summed
  <2>2. CASE s # {}
    <3> DEFINE b == Pick(s)
    <3>1. b \in s
      BY <2>2, PickFrom
    <3> HIDE DEF b
    <3>2. p[s] = f[b] + p[s \ {b}] /\ q[s] = g[b] + q[s \ {b}]
      BY <1>1, <2>2 DEF Summed, b
    <3> QED
      BY <1>2, <3>1, <3>2
  <2> QED
    BY <2>1, <2>2
<1> HIDE DEF same
<1>3. SUBSET T \subseteq same
  BY <1>2, SubsetsInductive
<1> QED
  BY <1>3 DEF same

LEMMA SumSolution ==
  ASSUME NEW f, NEW S, IsFiniteSet(S)
  PROVE  \E p : SumsOver(f, SUBSET S, p) /\ SumFunctionOnSet(f, S) = p[S]
<1> DEFINE p == CHOOSE p : SumsOver(f, SUBSET S, p)
<1>1. SumsOver(f, SUBSET S, p)
  BY SumsExist
<1> QED
  BY <1>1, SumDefinition

LEMMA SumEmpty ==
  ASSUME NEW f
  PROVE  SumFunctionOnSet(f, {}) = 0
<1>1. PICK p : SumsOver(f, SUBSET {}, p) /\ SumFunctionOnSet(f, {}) = p[{}]
  BY SumSolution, FS_EmptySet
<1> QED
  BY <1>1 DEF SumsOver, Summed

\* Two functions that agree on a finite set have the same sum over it.
LEMMA SumAgree ==
  ASSUME NEW S, IsFiniteSet(S), NEW f, NEW g, \A a \in S : f[a] = g[a]
  PROVE  SumFunctionOnSet(f, S) = SumFunctionOnSet(g, S)
<1>1. PICK p : SumsOver(f, SUBSET S, p) /\ SumFunctionOnSet(f, S) = p[S]
  BY SumSolution
<1>2. PICK q : SumsOver(g, SUBSET S, q) /\ SumFunctionOnSet(g, S) = q[S]
  BY SumSolution
<1>3. S \in SUBSET S
  OBVIOUS
<1>4. Agree(f, g, S)
  BY DEF Agree
<1>5. Agree(p, q, SUBSET S)
  BY <1>1, <1>2, <1>3, <1>4, SumsAgree
<1> QED
  BY <1>1, <1>2, <1>3, <1>5 DEF Agree

\* A sum of integers is one, and any element may be split off it.
LEMMA SumSplit ==
  ASSUME NEW S, IsFiniteSet(S), NEW f, \A a \in S : f[a] \in Int
  PROVE  /\ SumFunctionOnSet(f, S) \in Int
         /\ \A a \in S : SumFunctionOnSet(f, S) = f[a] + SumFunctionOnSet(f, S \ {a})
<1>1. PICK p : SumsOver(f, SUBSET S, p) /\ SumFunctionOnSet(f, S) = p[S]
  BY SumSolution
<1>2. \A s \in SUBSET S : p[s] \in Int /\ \A a \in s : p[s] = f[a] + p[s \ {a}]
  BY <1>1, SumsSplit
<1>3. ASSUME NEW a \in S
      PROVE  SumFunctionOnSet(f, S \ {a}) = p[S \ {a}]
  <2>1. S \ {a} \in SUBSET S /\ IsFiniteSet(S \ {a})
    BY FS_RemoveElement
  <2>2. PICK q : SumsOver(f, SUBSET (S \ {a}), q) /\ SumFunctionOnSet(f, S \ {a}) = q[S \ {a}]
    BY <2>1, SumSolution
  <2>3. Agree(f, f, S \ {a})
    BY DEF Agree
  <2>4. Agree(p, q, SUBSET (S \ {a}))
    BY <1>1, <2>1, <2>2, <2>3, SumsAgree
  <2> QED
    BY <2>2, <2>4 DEF Agree
<1> QED
  BY <1>1, <1>2, <1>3

\* A sum of natural numbers does not shrink when elements are added.
LEMMA SumMonotone ==
  ASSUME NEW S, IsFiniteSet(S), NEW f, \A a \in S : f[a] \in Nat, NEW T \in SUBSET S
  PROVE  SumFunctionOnSet(f, T) <= SumFunctionOnSet(f, S)
<1> DEFINE Sum(s) == SumFunctionOnSet(f, s)
           fine == {s \in SUBSET S : \A u \in SUBSET s : Sum(u) <= Sum(s)}
<1>1. ASSUME NEW s \in SUBSET S
      PROVE  /\ IsFiniteSet(s) /\ Sum(s) \in Int
             /\ \A a \in s : Sum(s) = f[a] + Sum(s \ {a}) /\ Sum(s \ {a}) \in Int
  <2>1. IsFiniteSet(s)
    BY FS_Subset
  <2>2. \A a \in s : IsFiniteSet(s \ {a})
    BY <2>1, FS_RemoveElement
  <2>3. \A a \in s : f[a] \in Int
    OBVIOUS
  <2>4. Sum(s) \in Int /\ \A a \in s : Sum(s) = f[a] + Sum(s \ {a})
    BY <2>1, <2>3, SumSplit
  <2>5. \A a \in s : Sum(s \ {a}) \in Int
    <3> TAKE a \in s
    <3>1. \A b \in s \ {a} : f[b] \in Int
      OBVIOUS
    <3> QED
      BY <2>2, <3>1, SumSplit
  <2> QED
    BY <2>1, <2>4, <2>5
<1> HIDE DEF Sum
<1>2. ASSUME NEW s \in SUBSET S, \A a \in s : s \ {a} \in fine
      PROVE  s \in fine
  <2>1. ASSUME NEW u \in SUBSET s, u # s
        PROVE  Sum(u) <= Sum(s)
    <3>1. PICK a \in s : a \notin u
      BY <2>1
    <3>2. Sum(u) <= Sum(s \ {a}) /\ Sum(u) \in Int
      BY <1>1, <1>2, <3>1
    <3>3. Sum(s) = f[a] + Sum(s \ {a}) /\ Sum(s \ {a}) \in Int /\ f[a] \in Nat
      BY <1>1
    <3> QED
      BY <3>2, <3>3
  <2>2. Sum(s) <= Sum(s)
    BY <1>1
  <2> QED
    BY <2>1, <2>2
<1> HIDE DEF fine
<1>3. SUBSET S \subseteq fine
  BY <1>2, SubsetsInductive
<1> QED
  BY <1>3 DEF fine, Sum

\* Sums are linear.
LEMMA SumLinear ==
  ASSUME NEW S, IsFiniteSet(S), NEW c \in Int, NEW f, NEW g, NEW h,
         \A a \in S : f[a] \in Int /\ g[a] \in Int /\ h[a] = f[a] * c - g[a]
  PROVE  SumFunctionOnSet(h, S) = SumFunctionOnSet(f, S) * c - SumFunctionOnSet(g, S)
<1> DEFINE F(s) == SumFunctionOnSet(f, s)
           G(s) == SumFunctionOnSet(g, s)
           H(s) == SumFunctionOnSet(h, s)
           fine == {s \in SUBSET S : H(s) = F(s) * c - G(s)}
<1>1. \A a \in S : h[a] \in Int
  OBVIOUS
<1>2. ASSUME NEW s \in SUBSET S
      PROVE  /\ F(s) \in Int /\ G(s) \in Int /\ H(s) \in Int
             /\ \A a \in s : /\ F(s) = f[a] + F(s \ {a}) /\ G(s) = g[a] + G(s \ {a})
                             /\ H(s) = h[a] + H(s \ {a})
  <2>1. IsFiniteSet(s)
    BY FS_Subset
  <2> QED
    BY <1>1, <2>1, SumSplit
<1>3. F({}) = 0 /\ G({}) = 0 /\ H({}) = 0
  BY SumEmpty
<1> HIDE DEF F, G, H
<1>4. ASSUME NEW s \in SUBSET S, \A a \in s : s \ {a} \in fine
      PROVE  s \in fine
  <2>1. CASE s = {}
    BY <1>3, <2>1
  <2>2. ASSUME NEW a \in s
        PROVE  s \in fine
    <3> DEFINE u == s \ {a}
    <3>1. F(s) = f[a] + F(u) /\ G(s) = g[a] + G(u) /\ H(s) = h[a] + H(u)
      BY <1>2
    <3>2. F(u) \in Int /\ G(u) \in Int /\ H(u) = F(u) * c - G(u)
      BY <1>2, <1>4
    <3> HIDE DEF u
    <3> DEFINE x == f[a]
               y == F(u)
    <3>3. x \in Int /\ g[a] \in Int /\ h[a] = x * c - g[a]
      OBVIOUS
    <3>4. (x + y) * c = x * c + y * c /\ x * c \in Int /\ y * c \in Int
      <4>1. x \in Int /\ y \in Int
        BY <3>2, <3>3
      <4> HIDE DEF x, y
      <4> QED
        BY <4>1
    <3>5. H(s) = F(s) * c - G(s)
      BY <3>1, <3>2, <3>3, <3>4
    <3> QED
      BY <3>5
  <2> QED
    BY <2>1, <2>2
<1> HIDE DEF fine
<1>5. SUBSET S \subseteq fine
  BY <1>4, SubsetsInductive
<1> QED
  BY <1>5 DEF fine, F, G, H
=============================================================================
