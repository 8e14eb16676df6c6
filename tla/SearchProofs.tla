----------------------------- MODULE SearchProofs -----------------------------
(***************************************************************************)
(* What a query answers and whom an evaluation scores, for every index,    *)
(* options and dataset: Search and Docsqa. MCAlgorithms checks the same on *)
(* small inputs.                                                           *)
(***************************************************************************)
EXTENDS MCAlgorithms, FiniteSetTheorems, FunctionTheorems, WellFoundedInduction, TLAPS

------------------------------------------------------------------------------
(* Sorting and filtering: Orders. *)

\* A set of naturals has a least one, and Min names it.
LEMMA LeastExists ==
  ASSUME NEW T, T \subseteq Nat, T # {}
  PROVE  Min(T) \in T /\ \A y \in T : Min(T) <= y
<1> DEFINE R == OpToRel(<, Nat)
<1>1. IsWellFoundedOn(R, Nat)
  BY NatLessThanWellFounded
<1>2. \A x, y \in Nat : <<y, x>> \in R <=> y < x
  BY DEF OpToRel
<1> HIDE DEF R
<1>3. PICK x \in T : \A y \in T : ~(<<y, x>> \in R)
  BY <1>1, WFMin
<1>4. \A y \in T : ~(y < x)
  BY <1>2, <1>3
<1>5. \A y \in T : x <= y
  BY <1>4
<1>6. \E z \in T : \A y \in T : z <= y
  BY <1>5
<1> DEFINE least == CHOOSE z \in T : \A y \in T : z <= y
<1>7. least \in T /\ \A y \in T : least <= y
  BY <1>6
<1>8. least = Min(T)
  BY DEF Min
<1> QED
  BY <1>7, <1>8

LEMMA UpTo ==
  ASSUME NEW n \in Nat
  PROVE  IsFiniteSet(1 .. n) /\ Cardinality(1 .. n) = n
BY FS_Interval

\* A strict total order on S.
IsOrder(S, before) ==
  /\ \A x \in S : <<x, x>> \notin before
  /\ \A x, y, z \in S : <<x, y>> \in before /\ <<y, z>> \in before => <<x, z>> \in before
  /\ \A x, y \in S : x = y \/ <<x, y>> \in before \/ <<y, x>> \in before

Below(S, before, x) == {y \in S : <<y, x>> \in before}

\* The elements below one in a finite order are fewer than the elements.
LEMMA RankType ==
  ASSUME NEW S, IsFiniteSet(S), NEW before, IsOrder(S, before), NEW x \in S
  PROVE  /\ IsFiniteSet(Below(S, before, x))
         /\ Cardinality(Below(S, before, x)) \in 0 .. Cardinality(S) - 1
<1>1. Below(S, before, x) \in SUBSET S /\ x \notin Below(S, before, x)
  BY DEF Below, IsOrder
<1>2. /\ IsFiniteSet(Below(S, before, x)) /\ Cardinality(Below(S, before, x)) <= Cardinality(S)
      /\ Cardinality(Below(S, before, x)) = Cardinality(S) => Below(S, before, x) = S
  BY <1>1, FS_Subset
<1>3. Cardinality(S) \in Nat /\ Cardinality(Below(S, before, x)) \in Nat
  BY <1>2, FS_CardinalityType
<1> QED
  BY <1>1, <1>2, <1>3

\* A smaller element has a smaller rank.
LEMMA RankGrows ==
  ASSUME NEW S, IsFiniteSet(S), NEW before, IsOrder(S, before), NEW x \in S, NEW y \in S, <<x, y>> \in before
  PROVE  Cardinality(Below(S, before, x)) < Cardinality(Below(S, before, y))
<1>1. /\ Below(S, before, x) \in SUBSET Below(S, before, y)
      /\ x \in Below(S, before, y) /\ x \notin Below(S, before, x)
  BY DEF Below, IsOrder
<1>2. IsFiniteSet(Below(S, before, y))
  BY RankType
<1>3. /\ Cardinality(Below(S, before, x)) <= Cardinality(Below(S, before, y))
      /\ Cardinality(Below(S, before, x)) # Cardinality(Below(S, before, y))
  BY <1>1, <1>2, FS_Subset
<1>4. /\ Cardinality(Below(S, before, x)) \in Nat
      /\ Cardinality(Below(S, before, y)) \in Nat
  BY RankType
<1> QED
  BY <1>3, <1>4

\* Every rank is taken.
LEMMA RankTaken ==
  ASSUME NEW S, IsFiniteSet(S), NEW before, IsOrder(S, before), NEW n \in 1 .. Cardinality(S)
  PROVE  \E x \in S : Cardinality(Below(S, before, x)) = n - 1
<1> DEFINE rank == [x \in S |-> Cardinality(Below(S, before, x)) + 1]
           size == Cardinality(S)
<1>1. size \in Nat
  BY FS_CardinalityType
<1>2. rank \in [S -> 1 .. size]
  BY <1>1, RankType
<1>3. \A x, y \in S : rank[x] = rank[y] => x = y
  <2>1. SUFFICES ASSUME NEW x \in S, NEW y \in S, <<x, y>> \in before
                 PROVE  rank[x] # rank[y]
    BY DEF IsOrder
  <2>2. /\ Cardinality(Below(S, before, x)) \in Nat
        /\ Cardinality(Below(S, before, y)) \in Nat
    BY RankType
  <2> QED
    BY <2>1, <2>2, RankGrows
<1> HIDE DEF rank, size
<1>4. rank \in Injection(S, 1 .. size)
  BY <1>2, <1>3 DEF Injection, IsInjective
<1>5. IsFiniteSet(1 .. size) /\ Cardinality(1 .. size) = size
  BY <1>1, FS_Interval
<1>6. rank \in Surjection(S, 1 .. size)
  BY <1>4, <1>5, FS_Injection DEF size
<1>7. PICK x \in S : rank[x] = n
  BY <1>6 DEF Surjection, size
<1>8. Cardinality(Below(S, before, x)) \in Nat
  BY RankType
<1> QED
  BY <1>7, <1>8 DEF rank

\* InOrder lists each element of the set once, smaller ones first.
LEMMA InOrderIsSorted ==
  ASSUME NEW S, IsFiniteSet(S), NEW before, IsOrder(S, before), NEW s, s = InOrder(S, before)
  PROVE  /\ Cardinality(S) \in Nat
         /\ s \in [1 .. Cardinality(S) -> S]
         /\ \A x \in S : \E n \in 1 .. Cardinality(S) : s[n] = x
         /\ \A m, n \in 1 .. Cardinality(S) : m < n <=> <<s[m], s[n]>> \in before
<1> DEFINE size == Cardinality(S)
           Rank(x) == Cardinality(Below(S, before, x))
<1>1. size \in Nat
  BY FS_CardinalityType
<1>2. s = [n \in 1 .. size |-> CHOOSE x \in S : Rank(x) = n - 1]
  BY DEF InOrder, Below
<1>3. \A x \in S : Rank(x) \in 0 .. size - 1
  BY RankType
<1>4. \A x, y \in S : <<x, y>> \in before => Rank(x) < Rank(y)
  BY RankGrows
<1>5. \A n \in 1 .. size : \E x \in S : Rank(x) = n - 1
  BY RankTaken
<1> HIDE DEF size, Rank
<1>6. \A n \in 1 .. size : s[n] \in S /\ Rank(s[n]) = n - 1
  BY <1>2, <1>5
<1>7. s \in [1 .. size -> S]
  BY <1>2, <1>6
<1>8. ASSUME NEW x \in S
      PROVE  \E n \in 1 .. size : s[n] = x
  <2>1. PICK n \in 1 .. size : n = Rank(x) + 1
    BY <1>1, <1>3
  <2>2. s[n] \in S /\ Rank(s[n]) = Rank(x)
    BY <1>3, <1>6, <2>1
  <2>3. ~(Rank(x) < Rank(x))
    BY <1>3
  <2>4. s[n] = x
    BY <1>4, <2>2, <2>3 DEF IsOrder
  <2> QED
    BY <2>4
<1>9. ASSUME NEW m \in 1 .. size, NEW n \in 1 .. size
      PROVE  m < n <=> <<s[m], s[n]>> \in before
  <2>1. /\ s[m] \in S /\ Rank(s[m]) = m - 1
        /\ s[n] \in S /\ Rank(s[n]) = n - 1
    BY <1>6
  <2>2. <<s[m], s[n]>> \in before => m < n
    BY <1>1, <1>4, <2>1
  <2>3. <<s[n], s[m]>> \in before => n < m
    BY <1>1, <1>4, <2>1
  <2>4. m < n => s[m] # s[n]
    BY <1>1, <2>1
  <2> QED
    BY <1>1, <2>1, <2>2, <2>3, <2>4 DEF IsOrder
<1> QED
  BY <1>1, <1>7, <1>8, <1>9 DEF size

\* The positions of a sequence in their own order.
LEMMA PositionsOrdered ==
  ASSUME NEW P, P \subseteq Int
  PROVE  IsOrder(P, Pairs(P, LAMBDA i, j : i < j))
<1>1. \A i, j \in P : <<i, j>> \in Pairs(P, LAMBDA i_1, j_1 : i_1 < j_1) <=> i < j
  BY DEF Pairs
<1>2. \A i, j, k \in P : /\ ~(i < i)
                         /\ i < j /\ j < k => i < k
                         /\ i = j \/ i < j \/ j < i
  OBVIOUS
<1> HIDE DEF Pairs
<1> QED
  BY <1>1, <1>2 DEF IsOrder

\* The places in s of the elements of t: those of P, in order.
Runs(places, t, s, P) ==
  /\ places \in [1 .. Cardinality(P) -> P]
  /\ t = [n \in 1 .. Cardinality(P) |-> s[places[n]]]
  /\ \A i \in P : \E n \in 1 .. Cardinality(P) : places[n] = i
  /\ \A m, n \in 1 .. Cardinality(P) : m < n <=> places[m] < places[n]

\* Kept(s, P) runs through s at the positions of P, in order.
LEMMA KeptRuns ==
  ASSUME NEW P, IsFiniteSet(P), P \subseteq Int, NEW s, NEW t, t = Kept(s, P)
  PROVE  Cardinality(P) \in Nat /\ \E places : Runs(places, t, s, P)
<1> DEFINE before == Pairs(P, LAMBDA i, j : i < j)
<1>1. PICK places : places = InOrder(P, before)
  OBVIOUS
<1>2. t = [n \in 1 .. Cardinality(P) |-> s[places[n]]]
  BY <1>1 DEF Kept
<1>3. IsOrder(P, before)
  BY PositionsOrdered
<1>4. \A i, j \in P : <<i, j>> \in before <=> i < j
  BY DEF Pairs
<1> HIDE DEF before
<1>5. /\ Cardinality(P) \in Nat
      /\ places \in [1 .. Cardinality(P) -> P]
      /\ \A i \in P : \E n \in 1 .. Cardinality(P) : places[n] = i
      /\ \A m, n \in 1 .. Cardinality(P) : m < n <=> <<places[m], places[n]>> \in before
  BY <1>1, <1>3, InOrderIsSorted
<1>6. \A m, n \in 1 .. Cardinality(P) : m < n <=> places[m] < places[n]
  BY <1>4, <1>5
<1> QED
  BY <1>2, <1>5, <1>6 DEF Runs

\* A sequence without repetitions.
NoRepeats(s) == \A m, n \in 1 .. Len(s) : s[m] = s[n] => m = n

\* A filter keeps the elements at the positions it is given, once for each position.
LEMMA KeptElements ==
  ASSUME NEW T, NEW s \in Seq(T), NEW P, P \subseteq 1 .. Len(s), NEW t, t = Kept(s, P)
  PROVE  /\ t \in Seq(T) /\ Len(t) = Cardinality(P) /\ Cardinality(P) \in 0 .. Len(s)
         /\ ToSet(t) = {s[i] : i \in P}
         /\ NoRepeats(s) => NoRepeats(t)
<1> DEFINE all == 1 .. Len(s)
<1>1. Len(s) \in Nat /\ IsFiniteSet(all) /\ Cardinality(all) = Len(s) /\ P \subseteq Int
  BY FS_Interval
<1> HIDE DEF all
<1>2. IsFiniteSet(P) /\ Cardinality(P) <= Len(s) /\ Cardinality(P) \in Nat
  BY <1>1, FS_Subset, FS_CardinalityType DEF all
<1> DEFINE size == Cardinality(P)
<1>3. PICK places : Runs(places, t, s, P)
  BY <1>1, <1>2, KeptRuns
<1>4. places \in [1 .. size -> P] /\ t = [n \in 1 .. size |-> s[places[n]]]
  BY <1>3 DEF Runs
<1>5. /\ \A i \in P : \E n \in 1 .. size : places[n] = i
      /\ \A m, n \in 1 .. size : m < n <=> places[m] < places[n]
  BY <1>3 DEF Runs
<1>6. size \in Nat
  BY <1>2
<1> HIDE DEF size
<1>7. \A i \in P : i \in 1 .. Len(s) /\ s[i] \in T
  OBVIOUS
<1>8. \A n \in 1 .. size : places[n] \in P
  BY <1>4
<1>9. t \in Seq(T) /\ Len(t) = size /\ DOMAIN t = 1 .. size /\ \A n \in 1 .. size : t[n] = s[places[n]]
  <2>1. DOMAIN t = 1 .. size /\ \A n \in 1 .. size : t[n] = s[places[n]]
    BY <1>4
  <2>2. \A n \in 1 .. size : s[places[n]] \in T
    BY <1>7, <1>8
  <2>3. t \in [1 .. size -> T]
    BY <1>4, <2>2
  <2>4. t \in Seq(T)
    BY <1>6, <2>3
  <2> QED
    BY <1>6, <2>1, <2>4
<1>10. ToSet(t) = {s[i] : i \in P}
  <2>1. ToSet(t) = {t[n] : n \in 1 .. size}
    BY <1>9 DEF ToSet
  <2>2. \A n \in 1 .. size : t[n] \in {s[i] : i \in P}
    BY <1>8, <1>9
  <2>3. ASSUME NEW i \in P
        PROVE  s[i] \in {t[n] : n \in 1 .. size}
    BY <1>5, <1>9
  <2> QED
    BY <2>1, <2>2, <2>3
<1>11. NoRepeats(s) => NoRepeats(t)
  <2>1. SUFFICES ASSUME NoRepeats(s), NEW m \in 1 .. size, NEW n \in 1 .. size, t[m] = t[n]
                 PROVE  m = n
    BY <1>9 DEF NoRepeats
  <2>2. places[m] \in 1 .. Len(s) /\ places[n] \in 1 .. Len(s) /\ s[places[m]] = s[places[n]]
    BY <1>7, <1>8, <1>9, <2>1
  <2>3. places[m] = places[n]
    BY <2>1, <2>2 DEF NoRepeats
  <2>4. ~(places[m] < places[n]) /\ ~(places[n] < places[m])
    BY <2>2, <2>3
  <2> QED
    BY <1>5, <1>6, <2>4
<1> QED
  BY <1>1, <1>2, <1>9, <1>10, <1>11 DEF size

\* Distinct loses no element and makes up none.
LEMMA DistinctElements ==
  ASSUME NEW T, NEW s \in Seq(T), NEW t, t = Distinct(s)
  PROVE  /\ t \in Seq(T) /\ Len(t) <= Len(s)
         /\ ToSet(t) = ToSet(s)
<1> DEFINE P == {i \in DOMAIN s : \A j \in 1 .. i - 1 : s[j] # s[i]}
<1>1. P \subseteq 1 .. Len(s) /\ DOMAIN s = 1 .. Len(s) /\ Len(s) \in Nat
  OBVIOUS
<1>2. t = Kept(s, P)
  BY DEF Distinct
<1>3. ASSUME NEW i \in 1 .. Len(s)
      PROVE  \E f \in P : s[f] = s[i]
  <2> DEFINE T0 == {j \in 1 .. Len(s) : s[j] = s[i]}
  <2>1. T0 \subseteq Nat /\ i \in T0
    OBVIOUS
  <2>2. PICK f \in T0 : \A j \in T0 : f <= j
    <3> HIDE DEF T0
    <3> QED
      BY <2>1, LeastExists
  <2>3. \A j \in 1 .. f - 1 : s[j] # s[f]
    BY <1>1, <2>2
  <2> QED
    BY <1>1, <2>2, <2>3
<1> HIDE DEF P
<1>4. /\ t \in Seq(T) /\ Len(t) = Cardinality(P) /\ Cardinality(P) \in 0 .. Len(s)
      /\ ToSet(t) = {s[i] : i \in P}
  BY <1>1, <1>2, KeptElements
<1>5. ToSet(s) = {s[i] : i \in P}
  BY <1>1, <1>3 DEF ToSet
<1> QED
  BY <1>1, <1>4, <1>5

\* The first k of a sequence.
LEMMA TakePrefix ==
  ASSUME NEW T, NEW s \in Seq(T), NEW k \in Nat, NEW t, t = Take(s, k)
  PROVE  /\ t \in Seq(T) /\ Len(t) = IF k < Len(s) THEN k ELSE Len(s)
         /\ Len(t) \in 0 .. Len(s)
         /\ \A n \in 1 .. Len(t) : t[n] = s[n]
         /\ Len(s) <= k => t = s
         /\ NoRepeats(s) => NoRepeats(t)
<1>0. PICK size \in Nat : size = Len(s)
  OBVIOUS
<1>1. PICK m \in 0 .. size : m = (IF k < size THEN k ELSE size) /\ (size <= k => m = size)
  BY <1>0
<1>2. t = SubSeq(s, 1, m)
  BY <1>0, <1>1 DEF Take
<1>3. DOMAIN s = 1 .. size /\ \A i \in 1 .. m : i \in 1 .. size
  BY <1>0, <1>1
<1>4. t \in Seq(T) /\ Len(t) = m /\ \A n \in 1 .. m : t[n] = s[n]
  BY <1>0, <1>1, <1>2
<1>5. ASSUME Len(s) <= k
      PROVE  t = s
  <2>1. m = Len(s)
    BY <1>0, <1>1, <1>5
  <2>2. Len(t) = Len(s) /\ \A n \in 1 .. Len(s) : t[n] = s[n]
    BY <1>4, <2>1
  <2> QED
    BY <1>4, <2>2
<1>6. ASSUME NoRepeats(s), NEW i \in 1 .. m, NEW j \in 1 .. m, t[i] = t[j]
      PROVE  i = j
  <2>1. i \in 1 .. Len(s) /\ j \in 1 .. Len(s) /\ s[i] = s[j]
    BY <1>0, <1>3, <1>4, <1>6
  <2> QED
    BY <1>6, <2>1 DEF NoRepeats
<1>7. NoRepeats(s) => NoRepeats(t)
  BY <1>4, <1>6 DEF NoRepeats
<1> QED
  BY <1>0, <1>1, <1>4, <1>5, <1>7

------------------------------------------------------------------------------
(* Scores are integers: Search. *)

\* g is the table of partial products a fold over S goes through.
Multiplied(S, g) ==
  g = [s \in SUBSET S |-> IF s = {} THEN 1
                          ELSE LET x == CHOOSE x \in s : TRUE IN x * g[s \ {x}]]

\* Every such table holds integers: a smallest set with another entry would lack an element.
LEMMA ProductsAreIntegers ==
  ASSUME NEW S, IsFiniteSet(S), S \subseteq Int, NEW g, Multiplied(S, g)
  PROVE  \A s \in SUBSET S : g[s] \in Int
<1> SUFFICES ASSUME NEW s0 \in SUBSET S, g[s0] \notin Int
             PROVE  FALSE
  OBVIOUS
<1> DEFINE Bad == {s \in SUBSET S : g[s] \notin Int}
           Sizes == {Cardinality(s) : s \in Bad}
<1>1. \A s \in SUBSET S : IsFiniteSet(s) /\ Cardinality(s) \in Nat
  BY FS_Subset, FS_CardinalityType
<1>2. Sizes \subseteq Nat /\ Sizes # {}
  BY <1>1
<1>3. PICK n \in Sizes : \A m \in Sizes : n <= m
  <2> HIDE DEF Sizes
  <2> QED
    BY <1>2, LeastExists
<1>4. PICK s \in Bad : Cardinality(s) = n
  BY <1>3
<1>5. s # {}
  BY <1>4 DEF Multiplied
<1> DEFINE x == CHOOSE y \in s : TRUE
<1>6. x \in s /\ x \in Int /\ s \ {x} \in SUBSET S
  BY <1>4, <1>5
<1>7. Cardinality(s \ {x}) = n - 1 /\ n \in Nat
  BY <1>1, <1>2, <1>3, <1>4, <1>6, FS_RemoveElement
<1>8. Cardinality(s \ {x}) \notin Sizes
  BY <1>3, <1>7
<1>9. g[s \ {x}] \in Int
  BY <1>6, <1>8
<1>10. g[s] = x * g[s \ {x}]
  BY <1>4, <1>5 DEF Multiplied
<1> QED
  BY <1>4, <1>6, <1>9, <1>10

\* There is such a table: it is built for larger and larger sets.
LEMMA ProductExists ==
  ASSUME NEW S, IsFiniteSet(S)
  PROVE  \E g : Multiplied(S, g)
<1> DEFINE First(s) == CHOOSE x \in s : TRUE
           Right(g, n) == /\ DOMAIN g = SUBSET S /\ g = [s \in DOMAIN g |-> g[s]]
                          /\ \A s \in SUBSET S : Cardinality(s) <= n =>
                               g[s] = IF s = {} THEN 1 ELSE First(s) * g[s \ {First(s)}]
           Wrong == {n \in Nat : ~\E g : Right(g, n)}
<1>1. \A s \in SUBSET S : /\ IsFiniteSet(s) /\ Cardinality(s) \in Nat
                          /\ Cardinality(s) = 0 => s = {}
  BY FS_Subset, FS_CardinalityType, FS_EmptySet
<1>2. \A s \in SUBSET S : s # {} => /\ First(s) \in s /\ s \ {First(s)} \in SUBSET S
                                    /\ Cardinality(s \ {First(s)}) = Cardinality(s) - 1
  BY <1>1, FS_RemoveElement
<1> HIDE DEF First
<1>3. 0 \notin Wrong
  <2> DEFINE g == [s \in SUBSET S |-> 1]
  <2>1. Right(g, 0)
    BY <1>1
  <2> QED
    BY <2>1
<1>4. ASSUME NEW n \in Nat, n \notin Wrong
      PROVE  n + 1 \notin Wrong
  <2>1. PICK g : Right(g, n)
    BY <1>4
  <2> DEFINE h == [s \in SUBSET S |-> IF Cardinality(s) <= n THEN g[s]
                     ELSE IF s = {} THEN 1 ELSE First(s) * g[s \ {First(s)}]]
  <2>2. ASSUME NEW s \in SUBSET S, Cardinality(s) <= n + 1
        PROVE  h[s] = IF s = {} THEN 1 ELSE First(s) * h[s \ {First(s)}]
    <3>1. CASE s = {}
      BY <2>1, <3>1, FS_EmptySet
    <3>2. CASE s # {}
      <4>1. s \ {First(s)} \in SUBSET S /\ Cardinality(s \ {First(s)}) <= n
        <5>1. PICK c \in Nat : c = Cardinality(s)
          BY <1>1
        <5>2. s \ {First(s)} \in SUBSET S /\ Cardinality(s \ {First(s)}) = c - 1 /\ c <= n + 1
          BY <1>2, <2>2, <3>2, <5>1
        <5> QED
          BY <5>2
      <4>2. h[s \ {First(s)}] = g[s \ {First(s)}]
        BY <4>1
      <4>3. h[s] = First(s) * g[s \ {First(s)}]
        BY <2>1, <3>2
      <4> QED
        BY <3>2, <4>2, <4>3
    <3> QED
      BY <3>1, <3>2
  <2>3. DOMAIN h = SUBSET S /\ h = [s \in DOMAIN h |-> h[s]]
    OBVIOUS
  <2> HIDE DEF h
  <2>4. Right(h, n + 1)
    BY <2>2, <2>3
  <2> QED
    BY <2>4
<1> HIDE DEF Wrong, Right
<1>5. Wrong = {}
  <2>1. SUFFICES ASSUME Wrong # {}
                 PROVE  FALSE
    OBVIOUS
  <2>2. Wrong \subseteq Nat
    BY DEF Wrong
  <2>3. PICK n \in Wrong : \A m \in Wrong : n <= m
    BY <2>1, <2>2, LeastExists
  <2>4. n # 0 /\ n - 1 \in Nat /\ n - 1 \notin Wrong
    BY <1>3, <2>2, <2>3
  <2>5. (n - 1) + 1 = n
    BY <2>2, <2>3
  <2> QED
    BY <1>4, <2>3, <2>4, <2>5
<1>6. Cardinality(S) \in Nat /\ \A s \in SUBSET S : Cardinality(s) <= Cardinality(S)
  BY FS_Subset, FS_CardinalityType
<1>7. PICK g : Right(g, Cardinality(S))
  BY <1>5, <1>6 DEF Wrong
<1>8. Multiplied(S, g)
  BY <1>6, <1>7 DEF Right, Multiplied, First
<1> QED
  BY <1>8

\* The unit of the ranks' scores is an integer.
LEMMA UnitIsInteger ==
  ASSUME NEW k \in Int
  PROVE  ScoreUnit(k) \in Int
<1> DEFINE S == (k + 1) .. (k + RankBound)
           g == CHOOSE h : Multiplied(S, h)
<1>1. IsFiniteSet(S) /\ S \subseteq Int
  <2>1. k + 1 \in Int /\ k + RankBound \in Int
    BY SearchAssumption
  <2> QED
    BY <2>1, FS_Interval
<1>2. ScoreUnit(k) = g[S]
  BY DEF ScoreUnit, FoldSet, MapThenFoldSet, Multiplied
<1> HIDE DEF S
<1>3. Multiplied(S, g)
  BY <1>1, ProductExists
<1> HIDE DEF g
<1> QED
  BY <1>1, <1>2, <1>3, ProductsAreIntegers

\* A power of two is an integer: it counts the subsets of 1 .. n.
LEMMA PowersAreIntegers ==
  ASSUME NEW n \in Nat
  PROVE  2 ^ n \in Nat
<1>1. IsFiniteSet(1 .. n) /\ Cardinality(1 .. n) = n
  BY UpTo
<1>2. Cardinality(SUBSET (1 .. n)) = 2 ^ n /\ IsFiniteSet(SUBSET (1 .. n))
  BY <1>1, FS_SUBSET
<1> QED
  BY <1>2, FS_CardinalityType

------------------------------------------------------------------------------
(* What the lists of a query hold: Search. *)

\* The order a list is put in names every section once; ages and cosines are numbers.
IsIndex(ix) ==
  /\ IsFiniteSet(DOMAIN ix.row) /\ DOMAIN ix.row \subseteq Int
  /\ \A id \in DOMAIN ix.row : ix.row[id].at \in Int /\ ix.cosine[ix.row[id].hash] \in Int
  /\ \A list \in {"raw", "cards"} :
       ix.rank[list] \in Seq(DOMAIN ix.row) /\ NoRepeats(ix.rank[list]) /\ ToSet(ix.rank[list]) = DOMAIN ix.row
  /\ \E S : ix.vectors \in Seq(S)

\* A list of different elements is as long as their set.
LEMMA ElementsCounted ==
  ASSUME NEW T, NEW s \in Seq(T), NoRepeats(s)
  PROVE  IsFiniteSet(ToSet(s)) /\ Cardinality(ToSet(s)) = Len(s)
<1>1. PICK n \in Nat : n = Len(s)
  OBVIOUS
<1>2. ToSet(s) = {s[i] : i \in 1 .. n}
  BY <1>1 DEF ToSet
<1> DEFINE f == [i \in 1 .. n |-> s[i]]
<1>3. f \in Bijection(1 .. n, ToSet(s))
  <2>1. f \in [1 .. n -> ToSet(s)]
    BY <1>2
  <2>2. \A i, j \in 1 .. n : f[i] = f[j] => i = j
    BY <1>1 DEF NoRepeats
  <2>3. \A x \in ToSet(s) : \E i \in 1 .. n : f[i] = x
    BY <1>2
  <2> HIDE DEF f
  <2> QED
    BY <2>1, <2>2, <2>3, Fun_IsBij
<1>4. IsFiniteSet(1 .. n) /\ Cardinality(1 .. n) = n
  BY UpTo
<1> HIDE DEF f
<1> QED
  BY <1>1, <1>3, <1>4, FS_Bijection, Fun_ExistsBij

\* A list cut at k holds everything it was cut from, or k elements.
LEMMA TakeAllOrFull ==
  ASSUME NEW T, NEW s \in Seq(T), NoRepeats(s), NEW k \in Nat, NEW t, t = Take(s, k)
  PROVE  /\ t \in Seq(T) /\ NoRepeats(t) /\ ToSet(t) \subseteq ToSet(s)
         /\ Len(t) = IF k < Len(s) THEN k ELSE Len(s)
         /\ ToSet(t) = ToSet(s) \/ Len(t) = k
         /\ Cardinality(ToSet(s)) <= k => ToSet(t) = ToSet(s)
<1>1. PICK n \in Nat : n = Len(s)
  OBVIOUS
<1>2. PICK m \in 0 .. n : m = Len(t)
  BY <1>1, TakePrefix
<1>3. /\ t \in Seq(T) /\ NoRepeats(t) /\ Len(t) = IF k < Len(s) THEN k ELSE Len(s)
      /\ \A i \in 1 .. m : t[i] = s[i]
      /\ Len(s) <= k => t = s
  BY <1>2, TakePrefix
<1>4. ToSet(t) = {t[i] : i \in 1 .. m} /\ ToSet(s) = {s[i] : i \in 1 .. n}
  BY <1>1, <1>2, <1>3 DEF ToSet
<1>5. ToSet(t) \subseteq ToSet(s)
  <2>1. \A i \in 1 .. m : i \in 1 .. n /\ t[i] = s[i]
    BY <1>1, <1>2, <1>3
  <2> QED
    BY <1>4, <2>1
<1>6. Cardinality(ToSet(s)) = n
  BY <1>1, ElementsCounted
<1>7. n <= k \/ m = k
  BY <1>1, <1>2, <1>3
<1> QED
  BY <1>1, <1>2, <1>3, <1>5, <1>6, <1>7

\* A list without repetitions of sections out of `all`, every one of them or `fetch` of them.
ListFrom(ix, s, all, fetch) ==
  /\ s \in Seq(DOMAIN ix.row) /\ NoRepeats(s) /\ ToSet(s) \subseteq all
  /\ ToSet(s) = all \/ Len(s) = fetch
  /\ Cardinality(DOMAIN ix.row) <= fetch => ToSet(s) = all

\* search_raw and search_cards: only matching sections, all of them unless k are found.
LEMMA FoundList ==
  ASSUME NEW ix, IsIndex(ix), NEW list \in {"raw", "cards"}, NEW expr,
         NEW ids, ids \subseteq DOMAIN ix.row, NEW all, all = (IF expr.terms = {} THEN {} ELSE ids),
         NEW k \in Nat, NEW t, t = Found(ix, list, expr, ids, k)
  PROVE  ListFrom(ix, t, all, k)
<1> USE DEF ListFrom
<1> DEFINE rows == DOMAIN ix.row
<1>1. PICK rank \in Seq(rows) : rank = ix.rank[list] /\ NoRepeats(rank) /\ ToSet(rank) = rows
  BY DEF IsIndex
<1>2. CASE expr.terms = {}
  <2>1. t = <<>> /\ all = {}
    BY <1>2 DEF Found
  <2>2. <<>> \in Seq(rows) /\ NoRepeats(<<>>) /\ ToSet(<<>>) = {}
    BY DEF NoRepeats, ToSet
  <2> QED
    BY <2>1, <2>2
<1>3. CASE expr.terms # {}
  <2> DEFINE P == {i \in DOMAIN rank : rank[i] \in ids}
             s == Kept(rank, P)
  <2>1. t = Take(s, k) /\ all = ids
    BY <1>1, <1>3 DEF Found, Filter
  <2>2. P \subseteq 1 .. Len(rank)
    OBVIOUS
  <2>3. ids = {rank[i] : i \in P}
    BY <1>1 DEF ToSet
  <2> HIDE DEF P
  <2>4. s \in Seq(rows) /\ NoRepeats(s) /\ ToSet(s) = ids
    <3>1. PICK order \in Seq(rows) : order = rank
      OBVIOUS
    <3>2. NoRepeats(order) /\ P \subseteq 1 .. Len(order) /\ s = Kept(order, P) /\ ids = {order[i] : i \in P}
      BY <1>1, <2>2, <2>3, <3>1
    <3> HIDE DEF s, rows
    <3> QED
      BY <3>2, KeptElements
  <2> HIDE DEF s
  <2>5. /\ t \in Seq(rows) /\ NoRepeats(t) /\ ToSet(t) \subseteq ToSet(s)
        /\ ToSet(t) = ToSet(s) \/ Len(t) = k
        /\ Cardinality(ToSet(s)) <= k => ToSet(t) = ToSet(s)
    BY <2>1, <2>4, TakeAllOrFull
  <2>6. Cardinality(ids) <= Cardinality(rows) /\ Cardinality(ids) \in Nat /\ Cardinality(rows) \in Nat
    BY FS_Subset, FS_CardinalityType DEF IsIndex
  <2> QED
    BY <2>1, <2>4, <2>5, <2>6
<1> QED
  BY <1>2, <1>3

\* The sections the vectors of a model can bring.
VectorSections(ix, set) == {id \in DOMAIN ix.row : \E i \in DOMAIN set : set[i].hash = ix.row[id].hash}

\* top_k: the sections of the vectors' hashes, best cosine first, each once.
LEMMA TopKList ==
  ASSUME NEW ix, IsIndex(ix), NEW T, NEW set \in Seq(T), NEW dim, NEW k \in Nat,
         NEW all, all = (IF set = <<>> \/ set[1].dim # dim THEN {} ELSE VectorSections(ix, set)),
         NEW t, t = top_k(ix, set, dim, k)
  PROVE  ListFrom(ix, t, all, k)
<1> USE DEF ListFrom
<1> DEFINE rows == DOMAIN ix.row
           Place(id)  == CHOOSE i \in DOMAIN set : set[i].hash = ix.row[id].hash
           Cosine(id) == ix.cosine[ix.row[id].hash]
           found      == UNION {section_ids_by_hash(ix, set[i].hash) : i \in DOMAIN set}
           Before(a, b) == \/ Cosine(a) > Cosine(b)
                           \/ Cosine(a) = Cosine(b) /\ Place(a) < Place(b)
                           \/ Cosine(a) = Cosine(b) /\ Place(a) = Place(b) /\ a < b
           before == Pairs(found, Before)
           s == InOrder(found, before)
<1>1. found = VectorSections(ix, set)
  BY DEF VectorSections, section_ids_by_hash
<1>2. CASE set = <<>> \/ set[1].dim # dim
  <2>1. t = <<>> /\ all = {}
    BY <1>2 DEF top_k
  <2>2. <<>> \in Seq(rows) /\ NoRepeats(<<>>) /\ ToSet(<<>>) = {}
    BY DEF NoRepeats, ToSet
  <2> QED
    BY <2>1, <2>2
<1>3. CASE ~(set = <<>> \/ set[1].dim # dim)
  <2>1. t = Take(s, k) /\ all = found
    BY <1>1, <1>3 DEF top_k
  <2>2. found \subseteq rows /\ rows \subseteq Int /\ IsFiniteSet(rows)
    BY <1>1 DEF IsIndex, VectorSections
  <2>3. \A id \in found : Place(id) \in Int /\ Cosine(id) \in Int /\ id \in Int
    <3>1. \A id \in found : \E i \in DOMAIN set : set[i].hash = ix.row[id].hash
      BY <1>1 DEF VectorSections
    <3>2. DOMAIN set \subseteq Int
      OBVIOUS
    <3>3. \A id \in found : Place(id) \in Int
      BY <3>1, <3>2
    <3> QED
      BY <2>2, <3>3 DEF IsIndex
  <2> HIDE DEF Place, Cosine, found
  <2>4. \A a, b \in found : <<a, b>> \in before <=> Before(a, b)
    BY DEF Pairs
  <2>5. IsOrder(found, before)
    <3>1. /\ \A a \in found : ~Before(a, a)
          /\ \A a, b, c \in found : Before(a, b) /\ Before(b, c) => Before(a, c)
          /\ \A a, b \in found : a = b \/ Before(a, b) \/ Before(b, a)
      BY <2>3
    <3> HIDE DEF Before, before
    <3> QED
      BY <2>4, <3>1 DEF IsOrder
  <2> HIDE DEF Before, before
  <2>6. IsFiniteSet(found) /\ Cardinality(found) <= Cardinality(rows)
        /\ Cardinality(found) \in Nat /\ Cardinality(rows) \in Nat
    BY <2>2, FS_Subset, FS_CardinalityType
  <2>7. PICK n \in Nat : n = Cardinality(found)
    BY <2>6
  <2>8. /\ s \in [1 .. n -> found]
        /\ \A x \in found : \E i \in 1 .. n : s[i] = x
        /\ \A i, j \in 1 .. n : i < j <=> <<s[i], s[j]>> \in before
    BY <2>5, <2>6, <2>7, InOrderIsSorted
  <2> HIDE DEF s
  <2>9. s \in Seq(rows) /\ Len(s) = n /\ ToSet(s) = found /\ NoRepeats(s)
    <3>1. s \in [1 .. n -> rows]
      BY <2>2, <2>8
    <3>2. s \in Seq(rows) /\ Len(s) = n /\ DOMAIN s = 1 .. n
      BY <3>1
    <3>3. ToSet(s) = found
      BY <2>8, <3>2 DEF ToSet
    <3>4. \A i, j \in 1 .. n : s[i] = s[j] => ~(i < j) /\ ~(j < i)
      <4>1. \A i \in 1 .. n : <<s[i], s[i]>> \notin before
        BY <2>8
      <4> QED
        BY <2>8, <4>1
    <3>5. NoRepeats(s)
      BY <3>2, <3>4 DEF NoRepeats
    <3> QED
      BY <3>2, <3>3, <3>5
  <2>10. /\ t \in Seq(rows) /\ NoRepeats(t) /\ ToSet(t) \subseteq found
         /\ ToSet(t) = found \/ Len(t) = k
         /\ Cardinality(found) <= k => ToSet(t) = found
    BY <2>1, <2>9, TakeAllOrFull
  <2> QED
    BY <2>1, <2>6, <2>10, SMTT(30)
<1> QED
  BY <1>2, <1>3

------------------------------------------------------------------------------
(* The two full-text lists, AND form or OR form: Search. *)

IsOptions(opts) ==
  /\ opts.k \in Nat
  /\ opts.rrf_k \in Int \cup {NotFinite} /\ opts.raw_list_weight \in Int \cup {NotFinite}
  /\ opts.recency_half_life \in Int

LEMMA DepthCoversAsked ==
  ASSUME NEW opts, IsOptions(opts)
  PROVE  fetch_depth(opts) \in Nat \ {0} /\ opts.k <= fetch_depth(opts)
<1>1. PICK k \in Nat, d \in Nat : k = opts.k /\ d = Depth /\ d # 0
  BY SearchAssumption DEF IsOptions
<1>2. d * k \in Nat /\ k <= d * k
  BY <1>1
<1>3. PICK floor \in Nat \ {0} : floor = IF Filtered(opts) THEN FilteredFloor ELSE PlainFloor
  BY SearchAssumption
<1>4. PICK m \in Nat : m = d * k
  BY <1>2
<1>5. fetch_depth(opts) = IF m < floor THEN floor ELSE m
  BY <1>1, <1>3, <1>4 DEF fetch_depth, AtLeast
<1> QED
  BY <1>1, <1>2, <1>3, <1>4, <1>5

\* The sections whose text, and whose card, an expression finds.
InText(ix, expr) == IF expr.terms = {} THEN {} ELSE {id \in DOMAIN ix.row : Matches(expr, ix.row[id].text)}

InCard(ix, expr, opts) ==
  IF expr.terms = {} \/ opts.raw_only THEN {}
  ELSE {id \in DOMAIN ix.row : ix.row[id].state = "summarized" /\ Matches(expr, ix.card[ix.row[id].hash])}

LEMMA NoList == ASSUME NEW ix, NEW fetch PROVE ListFrom(ix, <<>>, {}, fetch)
<1>1. <<>> \in Seq(DOMAIN ix.row) /\ NoRepeats(<<>>) /\ ToSet(<<>>) = {}
  BY DEF NoRepeats, ToSet
<1> QED
  BY <1>1 DEF ListFrom

LEMMA ListsFound ==
  ASSUME NEW ix, IsIndex(ix), NEW expr, NEW opts, NEW fetch \in Nat, NEW l, l = ListsOf(ix, expr, fetch, opts)
  PROVE  ListFrom(ix, l.raw, InText(ix, expr), fetch) /\ ListFrom(ix, l.cards, InCard(ix, expr, opts), fetch)
<1>1. ListFrom(ix, l.raw, InText(ix, expr), fetch)
  <2> DEFINE ids == {id \in DOMAIN ix.row : Matches(expr, ix.row[id].text)}
  <2>1. l.raw = Found(ix, "raw", expr, ids, fetch)
    BY DEF ListsOf, search_raw
  <2>2. ids \subseteq DOMAIN ix.row
    OBVIOUS
  <2>3. InText(ix, expr) = IF expr.terms = {} THEN {} ELSE ids
    BY DEF InText
  <2>4. PICK list \in {"raw", "cards"} : list = "raw"
    OBVIOUS
  <2>5. PICK t : t = l.raw
    OBVIOUS
  <2>6. t = Found(ix, list, expr, ids, fetch)
    BY <2>1, <2>4, <2>5
  <2> HIDE DEF ids
  <2>7. ListFrom(ix, t, InText(ix, expr), fetch)
    BY <2>2, <2>3, <2>6, FoundList
  <2> QED
    BY <2>5, <2>7
<1>2. ListFrom(ix, l.cards, InCard(ix, expr, opts), fetch)
  <2> DEFINE ids == {id \in DOMAIN ix.row : /\ ix.row[id].state = "summarized"
                                            /\ Matches(expr, ix.card[ix.row[id].hash])}
  <2>1. CASE opts.raw_only
    <3>1. l.cards = <<>> /\ InCard(ix, expr, opts) = {}
      BY <2>1 DEF ListsOf, InCard
    <3> QED
      BY <3>1, NoList
  <2>2. CASE ~opts.raw_only
    <3>1. l.cards = Found(ix, "cards", expr, ids, fetch)
      BY <2>2 DEF ListsOf, search_cards
    <3>2. ids \subseteq DOMAIN ix.row
      OBVIOUS
    <3>3. InCard(ix, expr, opts) = IF expr.terms = {} THEN {} ELSE ids
      BY <2>2 DEF InCard
    <3>4. PICK list \in {"raw", "cards"} : list = "cards"
      OBVIOUS
    <3>5. PICK t : t = l.cards
      OBVIOUS
    <3>6. t = Found(ix, list, expr, ids, fetch)
      BY <3>1, <3>4, <3>5
    <3> HIDE DEF ids
    <3>7. ListFrom(ix, t, InCard(ix, expr, opts), fetch)
      BY <3>2, <3>3, <3>6, FoundList
    <3> QED
      BY <3>5, <3>7
  <2> QED
    BY <2>1, <2>2
<1> QED
  BY <1>1, <1>2

\* The AND form of a query, and its OR form.
AndForm(query, opts) == fts_escape(IF opts.and_stopwords THEN without_stopwords(query) ELSE query)

OrForm(query) == or_expression(query)

Both(l) == ToSet(l.raw) \cup ToSet(l.cards)

Matching(ix, expr, opts) == InText(ix, expr) \cup InCard(ix, expr, opts)

Passing(ix, ids, opts) == {id \in ids : passes(ix.row[id], opts)}

\* What the full text brings to an answer: the AND form's eligible matches, or the OR form's
\* when there are none.
ByText(ix, query, opts) ==
  IF Passing(ix, Matching(ix, AndForm(query, opts), opts), opts) = {} /\ opts.or_fallback
  THEN Passing(ix, Matching(ix, OrForm(query), opts), opts)
  ELSE Passing(ix, Matching(ix, AndForm(query, opts), opts), opts)

\* Whether the OR form is asked, given the lists of the AND form.
FallsBack(ix, query, opts, first) ==
  /\ Passing(ix, Both(first), opts) = {} /\ opts.or_fallback
  /\ ~SameText(OrForm(query), AndForm(query, opts)) /\ OrForm(query).terms # {}

LEMMA ListsChosen ==
  ASSUME NEW ix, NEW query, NEW fetch, NEW opts,
         NEW first, first = ListsOf(ix, AndForm(query, opts), fetch, opts),
         NEW second, second = ListsOf(ix, OrForm(query), fetch, opts)
  PROVE  /\ FallsBack(ix, query, opts, first) => lexical_lists(ix, query, fetch, opts).lists = second
         /\ ~FallsBack(ix, query, opts, first) => lexical_lists(ix, query, fetch, opts).lists = first
<1> DEFINE found == \E id \in Both(first) : passes(ix.row[id], opts)
           fall == /\ ~found /\ opts.or_fallback
                   /\ ~SameText(OrForm(query), AndForm(query, opts)) /\ OrForm(query).terms # {}
<1>1. Passing(ix, Both(first), opts) = {} <=> ~found
  BY DEF Passing
<1>2. fall <=> FallsBack(ix, query, opts, first)
  BY <1>1 DEF FallsBack
<1>3. lexical_lists(ix, query, fetch, opts) = [lists |-> IF fall THEN second ELSE first, via_or |-> fall]
  BY Zenon DEF lexical_lists, AndForm, OrForm, Both
<1> HIDE DEF fall
<1>4. lexical_lists(ix, query, fetch, opts).lists = IF fall THEN second ELSE first
  BY <1>3
<1> QED
  BY <1>2, <1>4

\* Two expressions that read the same find the same.
LEMMA SameTextSameMatches ==
  ASSUME NEW ix, NEW opts, NEW e, NEW f, SameText(e, f), IsFiniteSet(e.terms)
  PROVE  Matching(ix, e, opts) = Matching(ix, f, opts)
<1>1. e.terms = f.terms /\ (e.op = f.op \/ Cardinality(e.terms) < 2)
  BY DEF SameText
<1>2. CASE e.op = f.op
  BY <1>1, <1>2 DEF Matching, InText, InCard, Matches
<1>3. CASE Cardinality(e.terms) < 2
  <2>1. Cardinality(e.terms) = 0 \/ Cardinality(e.terms) = 1
    BY <1>3, FS_CardinalityType
  <2>2. e.terms = {} \/ \E x : e.terms = {x}
    BY <2>1, FS_EmptySet, FS_Singleton
  <2>3. CASE e.terms = {}
    BY <1>1, <2>3 DEF Matching, InText, InCard
  <2>4. CASE \E x : e.terms = {x}
    <3>1. PICK x : e.terms = {x} /\ f.terms = {x}
      BY <1>1, <2>4
    <3>2. \A words : /\ Matches(e, words) <=> x \in words
                     /\ Matches(f, words) <=> x \in words
      BY <3>1 DEF Matches
    <3> QED
      BY <1>1, <3>2 DEF Matching, InText, InCard
  <2> QED
    BY <2>2, <2>3, <2>4
<1> QED
  BY <1>1, <1>2, <1>3

\* lexical_lists: with the lists of the AND form complete, and those of the OR form where it
\* is asked, the eligible sections found are those the full text should bring.
LEMMA FullTextComplete ==
  ASSUME NEW ix, NEW query, IsFiniteSet(query), NEW fetch, NEW opts,
         NEW first, first = ListsOf(ix, AndForm(query, opts), fetch, opts),
         NEW second, second = ListsOf(ix, OrForm(query), fetch, opts),
         Both(first) = Matching(ix, AndForm(query, opts), opts),
         FallsBack(ix, query, opts, first) => Both(second) = Matching(ix, OrForm(query), opts),
         NEW l, l = lexical_lists(ix, query, fetch, opts).lists
  PROVE  Passing(ix, Both(l), opts) = ByText(ix, query, opts)
<1> DEFINE byAnd == Passing(ix, Matching(ix, AndForm(query, opts), opts), opts)
           byOr == Passing(ix, Matching(ix, OrForm(query), opts), opts)
<1>1. CASE FallsBack(ix, query, opts, first)
  <2>1. l = second
    BY <1>1, ListsChosen
  <2>2. byAnd = {} /\ opts.or_fallback
    BY <1>1 DEF FallsBack
  <2> QED
    BY <1>1, <2>1, <2>2 DEF ByText
<1>2. CASE ~FallsBack(ix, query, opts, first)
  <2>1. l = first
    BY <1>2, ListsChosen
  <2>2. Passing(ix, Both(l), opts) = byAnd
    BY <2>1
  <2>3. ASSUME byAnd = {}, opts.or_fallback
        PROVE  byOr = {}
    <3>1. SameText(OrForm(query), AndForm(query, opts)) \/ OrForm(query).terms = {}
      BY <1>2, <2>3 DEF FallsBack
    <3>2. IsFiniteSet(OrForm(query).terms)
      <4>1. OrForm(query).terms \subseteq query
        BY DEF OrForm, or_expression
      <4> QED
        BY <4>1, FS_Subset
    <3>3. CASE SameText(OrForm(query), AndForm(query, opts))
      <4>1. Matching(ix, OrForm(query), opts) = Matching(ix, AndForm(query, opts), opts)
        BY <3>2, <3>3, SameTextSameMatches
      <4> QED
        BY <2>3, <4>1
    <3>4. CASE OrForm(query).terms = {}
      BY <3>4 DEF Matching, InText, InCard, Passing
    <3> QED
      BY <3>1, <3>3, <3>4
  <2> QED
    BY <2>2, <2>3 DEF ByText
<1> QED
  BY <1>1, <1>2

------------------------------------------------------------------------------
(* Fusion and the answer: Search. *)

\* What the vectors bring to an answer.
ByVectors(ix, opts, emb) ==
  LET e   == CHOOSE x \in emb : TRUE
      set == vector_set(ix, e.model)
  IN  IF \/ ~opts.vectors \/ opts.raw_only \/ emb = {}
         \/ ~(e.ready /\ e.works) \/ set = <<>> \/ set[1].dim # e.dim
      THEN {} ELSE VectorSections(ix, set)

LEMMA VectorSetIsList ==
  ASSUME NEW ix, IsIndex(ix), NEW model
  PROVE  \E S : vector_set(ix, model) \in Seq(S)
<1>1. PICK S : ix.vectors \in Seq(S)
  BY DEF IsIndex
<1> DEFINE P == {i \in DOMAIN ix.vectors : /\ ix.vectors[i].model = model /\ ix.vectors[i].hash \in LiveHashes(ix)
                                           /\ ix.vectors[i].whole /\ ix.vectors[i].dim > 0}
           sound == Kept(ix.vectors, P)
           Q == {i \in DOMAIN sound : sound[i].dim = sound[1].dim}
<1>2. vector_set(ix, model) = Kept(sound, Q)
  BY Zenon DEF vector_set, Filter
<1>3. P \subseteq 1 .. Len(ix.vectors)
  BY <1>1
<1> HIDE DEF P
<1>4. sound \in Seq(S)
  BY <1>1, <1>3, KeptElements
<1> HIDE DEF sound
<1>5. Q \subseteq 1 .. Len(sound)
  BY <1>4
<1> HIDE DEF Q
<1> QED
  BY <1>2, <1>4, <1>5, KeptElements

LEMMA VectorList ==
  ASSUME NEW ix, IsIndex(ix), NEW opts, NEW emb, NEW fetch \in Nat
  PROVE  ListFrom(ix, vector_list(ix, fetch, opts, emb), ByVectors(ix, opts, emb), fetch)
<1> DEFINE e == CHOOSE x \in emb : TRUE
           Off == ~opts.vectors \/ opts.raw_only \/ emb = {} \/ ~(e.ready /\ e.works)
<1>1. PICK set : set = vector_set(ix, e.model)
  OBVIOUS
<1>2. PICK S : set \in Seq(S)
  BY <1>1, VectorSetIsList
<1>3. CASE Off
  <2>1. vector_list(ix, fetch, opts, emb) = <<>> /\ ByVectors(ix, opts, emb) = {}
    BY <1>3, Zenon DEF vector_list, ByVectors
  <2> QED
    BY <2>1, NoList
<1>4. CASE ~Off
  <2>1. vector_list(ix, fetch, opts, emb) = top_k(ix, set, e.dim, fetch)
    BY <1>1, <1>4 DEF vector_list
  <2>2. ByVectors(ix, opts, emb) = IF set = <<>> \/ set[1].dim # e.dim THEN {} ELSE VectorSections(ix, set)
    BY <1>1, <1>4 DEF ByVectors
  <2> HIDE DEF e
  <2>3. PICK t, all, dim : t = vector_list(ix, fetch, opts, emb) /\ all = ByVectors(ix, opts, emb) /\ dim = e.dim
    OBVIOUS
  <2>4. t = top_k(ix, set, dim, fetch) /\ all = IF set = <<>> \/ set[1].dim # dim THEN {} ELSE VectorSections(ix, set)
    BY <2>1, <2>2, <2>3
  <2>5. ListFrom(ix, t, all, fetch)
    BY <1>2, <2>4, TopKList
  <2> QED
    BY <2>3, <2>5
<1> QED
  BY <1>3, <1>4

\* One section's line of the fusion, and of the answer.
ScoreOf(l, vector, opts, id) ==
  ScoreIn(l.cards, id, RrfK(opts.rrf_k)) + ScoreIn(l.raw, id, RrfK(opts.rrf_k)) * RawWeight(opts.raw_list_weight) + ScoreIn(vector, id, RrfK(opts.rrf_k))

FusedFor(l, vector, opts, id) ==
  [id |-> id, matched |-> matched(l, id), vector |-> Contains(vector, id), score |-> ScoreOf(l, vector, opts, id)]

HitFor(ix, l, vector, opts, now, via_or, id) == to_hit(ix, FusedFor(l, vector, opts, id), now, opts, via_or)

Candidates(ix, l, vector, opts) == Passing(ix, Both(l) \cup ToSet(vector), opts)

\* The lists are lists of sections of the index.
ListsOver(ix, l, vector) ==
  l.raw \in Seq(DOMAIN ix.row) /\ l.cards \in Seq(DOMAIN ix.row) /\ vector \in Seq(DOMAIN ix.row)

LEMMA FusedCandidates ==
  ASSUME NEW ix, NEW l, NEW vector, NEW opts, ListsOver(ix, l, vector)
  PROVE  fuse(ix, l, vector, opts) = {FusedFor(l, vector, opts, id) : id \in Candidates(ix, l, vector, opts)}
<1> DEFINE found == ToSet(l.cards) \cup ToSet(l.raw) \cup ToSet(vector)
           C == {i \in found : i \in DOMAIN ix.row /\ passes(ix.row[i], opts)}
<1>1. fuse(ix, l, vector, opts) = {FusedFor(l, vector, opts, id) : id \in C}
  BY Zenon DEF fuse, FusedFor, ScoreOf
<1>2. found \subseteq DOMAIN ix.row
  BY DEF ToSet, ListsOver
<1>3. found = Both(l) \cup ToSet(vector)
  BY DEF Both
<1> HIDE DEF found
<1>4. C = Candidates(ix, l, vector, opts)
  BY <1>2, <1>3 DEF Candidates, Passing
<1> QED
  BY <1>1, <1>4

LEMMA ScoreInType ==
  ASSUME NEW T, NEW s \in Seq(T), NEW id, NEW k \in Nat \ {0}
  PROVE  ScoreIn(s, id, k) \in Int
<1>1. CASE Contains(s, id)
  <2>1. \E i \in DOMAIN s : s[i] = id
    BY <1>1 DEF Contains
  <2>2. Position(s, id) \in DOMAIN s
    BY <2>1 DEF Position
  <2>3. PICK n \in Nat : n = Position(s, id) - 1 /\ n + 1 = Position(s, id)
    BY <2>2
  <2>4. PICK u \in Int : u = ScoreUnit(k)
    BY UnitIsInteger
  <2>5. k + n + 1 \in Nat \ {0}
    OBVIOUS
  <2>6. PICK d \in Nat \ {0} : d = k + n + 1
    BY <2>5
  <2>7. ScoreIn(s, id, k) = u \div d
    BY <1>1, <2>3, <2>4, <2>6 DEF ScoreIn, rrf
  <2> QED
    BY <2>7
<1>2. CASE ~Contains(s, id)
  BY <1>2 DEF ScoreIn
<1> QED
  BY <1>1, <1>2

LEMMA WeightsTyped ==
  ASSUME NEW opts, IsOptions(opts)
  PROVE  RrfK(opts.rrf_k) \in Nat \ {0} /\ RawWeight(opts.raw_list_weight) \in Nat
BY SMT DEF IsOptions, RrfK, RawWeight, FiniteOr, Clamp, DefaultRrfK

LEMMA RecencyType ==
  ASSUME NEW at \in Int, NEW now \in Int, NEW half_life \in Int
  PROVE  recency_factor(at, now, half_life) \in Int
<1>1. PICK b \in Nat : b = AgeBound
  BY SearchAssumption
<1>2. 2 ^ (b + 1) \in Nat /\ 2 ^ b \in Nat
  BY PowersAreIntegers
<1>3. CASE half_life <= 0
  BY <1>1, <1>2, <1>3 DEF recency_factor
<1>4. CASE ~(half_life <= 0)
  <2>1. (now - at) \div half_life \in Int
    BY <1>4
  <2>2. PICK age \in 0 .. b : age = Clamp((now - at) \div half_life, 0, AgeBound)
    BY <1>1, <2>1 DEF Clamp
  <2>3. PICK n \in Nat : n = b - age
    OBVIOUS
  <2>4. 2 ^ n \in Nat
    BY PowersAreIntegers
  <2>5. recency_factor(at, now, half_life) = 2 ^ b + 2 ^ n
    BY <1>1, <1>4, <2>2, <2>3 DEF recency_factor
  <2> QED
    BY <1>2, <2>4, <2>5
<1> QED
  BY <1>3, <1>4

LEMMA HitFields ==
  ASSUME NEW ix, IsIndex(ix), NEW l, NEW vector, ListsOver(ix, l, vector), NEW opts, IsOptions(opts),
         NEW now \in Int, NEW via_or, NEW id \in DOMAIN ix.row, NEW h, h = HitFor(ix, l, vector, opts, now, via_or, id)
  PROVE  /\ h.section_id = id /\ h.score \in Int
         /\ h.matched = matched(l, id) /\ h.vector = Contains(vector, id) /\ h.via_or_fallback = via_or
         /\ h.rel_path = ix.row[id].path
<1>1. PICK f : f = FusedFor(l, vector, opts, id)
  OBVIOUS
<1>2. /\ f.id = id /\ f.matched = matched(l, id)
      /\ f.score = ScoreOf(l, vector, opts, id)
  BY <1>1 DEF FusedFor
<1>3. f.vector = Contains(vector, id)
  BY <1>1, Zenon DEF FusedFor
<1>4. /\ h.section_id = f.id /\ h.matched = f.matched /\ h.vector = f.vector
      /\ h.rel_path = ix.row[id].path
      /\ h.score = f.score * recency_factor(ix.row[f.id].at, now, opts.recency_half_life)
  BY <1>1, <1>2 DEF HitFor, to_hit
<1>5. h.via_or_fallback = via_or
  BY <1>1 DEF HitFor, to_hit
<1>6. f.score \in Int
  <2>1. RrfK(opts.rrf_k) \in Nat \ {0} /\ RawWeight(opts.raw_list_weight) \in Nat
    BY WeightsTyped
  <2>2. /\ ScoreIn(l.cards, id, RrfK(opts.rrf_k)) \in Int /\ ScoreIn(l.raw, id, RrfK(opts.rrf_k)) \in Int
        /\ ScoreIn(vector, id, RrfK(opts.rrf_k)) \in Int
    BY <2>1, ScoreInType DEF ListsOver
  <2> QED
    BY <1>2, <2>1, <2>2 DEF ScoreOf
<1>7. recency_factor(ix.row[f.id].at, now, opts.recency_half_life) \in Int
  BY <1>2, RecencyType DEF IsIndex, IsOptions
<1>8. h.score \in Int
  BY <1>4, <1>6, <1>7
<1> QED
  BY <1>2, <1>3, <1>4, <1>5, <1>8

\* Which hit is told first: the better score, and the smaller id between equals.
Better(a, b) == a.score > b.score \/ (a.score = b.score /\ a.section_id < b.section_id)

\* BestFirst cut to k: k hits or all of them, each section once, none better left out.
IsAnswer(t, hits, k, size) ==
  /\ Len(t) = IF k < size THEN k ELSE size
  /\ t \in Seq(hits)
  /\ \A m, n \in 1 .. Len(t) : m < n <=> Better(t[m], t[n])
  /\ \A m, n \in 1 .. Len(t) : t[m].section_id = t[n].section_id => m = n
  /\ \A h \in hits : (\E n \in 1 .. Len(t) : t[n] = h) \/ (\A n \in 1 .. Len(t) : Better(t[n], h))

LEMMA BestFirstList ==
  ASSUME NEW hits, IsFiniteSet(hits), \A h \in hits : h.section_id \in Int /\ h.score \in Int,
         \A g, h \in hits : g.section_id = h.section_id => g = h,
         NEW k \in Nat, NEW t, t = Take(BestFirst(hits), k)
  PROVE  IsAnswer(t, hits, k, Cardinality(hits))
<1> DEFINE before == Pairs(hits, LAMBDA a, b : a.score > b.score \/ (a.score = b.score /\ a.section_id < b.section_id))
           s == InOrder(hits, before)
<1>1. t = Take(s, k)
  BY DEF BestFirst
<1>2. \A a, b \in hits : <<a, b>> \in before <=> Better(a, b)
  BY DEF Pairs, Better
<1> HIDE DEF before
<1>4. /\ \A a \in hits : ~Better(a, a)
      /\ \A a, b, c \in hits : Better(a, b) /\ Better(b, c) => Better(a, c)
      /\ \A a, b \in hits : a = b \/ Better(a, b) \/ Better(b, a)
  BY DEF Better
<1>5. IsOrder(hits, before)
  BY <1>2, <1>4 DEF IsOrder
<1>7. PICK size \in Nat : size = Cardinality(hits)
  BY FS_CardinalityType
<1>8. /\ s \in [1 .. size -> hits]
      /\ \A x \in hits : \E n \in 1 .. size : s[n] = x
      /\ \A m, n \in 1 .. size : m < n <=> <<s[m], s[n]>> \in before
  BY <1>5, <1>7, InOrderIsSorted
<1> HIDE DEF s
<1>9. s \in Seq(hits) /\ Len(s) = size
  BY <1>7, <1>8
<1>16. t \in Seq(hits)
  BY <1>1, <1>9, TakePrefix
<1>10. PICK m \in 0 .. size : m = Len(t)
  BY <1>1, <1>9, TakePrefix
<1>11. m = (IF k < size THEN k ELSE size) /\ \A n \in 1 .. m : t[n] = s[n]
  BY <1>1, <1>9, <1>10, TakePrefix
<1>12. \A n \in 1 .. m : n \in 1 .. size /\ t[n] = s[n] /\ t[n] \in hits
  BY <1>8, <1>11
<1>13. \A i, j \in 1 .. m : i < j <=> Better(t[i], t[j])
  BY <1>2, <1>8, <1>12
<1>14. \A i, j \in 1 .. m : t[i].section_id = t[j].section_id => i = j
  <2>1. SUFFICES ASSUME NEW i \in 1 .. m, NEW j \in 1 .. m, t[i].section_id = t[j].section_id
                 PROVE  i = j
    OBVIOUS
  <2>2. t[i] = t[j] /\ t[i] \in hits
    BY <1>12, <2>1
  <2>3. ~Better(t[i], t[j]) /\ ~Better(t[j], t[i])
    BY <1>4, <2>2
  <2> QED
    BY <1>13, <2>3
<1>15. ASSUME NEW h \in hits
       PROVE  (\E n \in 1 .. m : t[n] = h) \/ (\A n \in 1 .. m : Better(t[n], h))
  <2>1. PICK i \in 1 .. size : s[i] = h
    BY <1>8
  <2>2. CASE i <= m
    BY <1>12, <2>1, <2>2
  <2>3. CASE ~(i <= m)
    <3>1. \A n \in 1 .. m : n < i
      BY <2>3
    <3> QED
      BY <1>2, <1>8, <1>12, <2>1, <3>1
  <2> QED
    BY <2>2, <2>3
<1> QED
  BY <1>7, <1>10, <1>11, <1>13, <1>14, <1>15, <1>16 DEF IsAnswer

\* The lists of a query.
LexFor(ix, query, opts) == lexical_lists(ix, query, fetch_depth(opts), opts)

VectorFor(ix, opts, emb) == vector_list(ix, fetch_depth(opts), opts, emb)

CandidatesFor(ix, query, opts, emb) ==
  Candidates(ix, LexFor(ix, query, opts).lists, VectorFor(ix, opts, emb), opts)

HitsFor(ix, query, opts, emb, now) ==
  {HitFor(ix, LexFor(ix, query, opts).lists, VectorFor(ix, opts, emb), opts, now, LexFor(ix, query, opts).via_or, id) :
     id \in CandidatesFor(ix, query, opts, emb)}

LEMMA ListsOfQuery ==
  ASSUME NEW ix, IsIndex(ix), NEW query, NEW opts, IsOptions(opts), NEW emb,
         NEW l, l = LexFor(ix, query, opts).lists
  PROVE  ListsOver(ix, l, VectorFor(ix, opts, emb))
<1>1. PICK fetch \in Nat : fetch = fetch_depth(opts)
  BY DepthCoversAsked
<1>2. PICK first, second : /\ first = ListsOf(ix, AndForm(query, opts), fetch, opts)
                           /\ second = ListsOf(ix, OrForm(query), fetch, opts)
  OBVIOUS
<1>3. l = lexical_lists(ix, query, fetch, opts).lists
  BY <1>1 DEF LexFor
<1>4. l = first \/ l = second
  BY <1>2, <1>3, ListsChosen
<1>5. l.raw \in Seq(DOMAIN ix.row) /\ l.cards \in Seq(DOMAIN ix.row)
  BY <1>2, <1>4, ListsFound DEF ListFrom
<1>6. VectorFor(ix, opts, emb) \in Seq(DOMAIN ix.row)
  BY <1>1, VectorList DEF VectorFor, ListFrom
<1> QED
  BY <1>5, <1>6 DEF ListsOver

LEMMA CandidatesAreSections ==
  ASSUME NEW ix, IsIndex(ix), NEW query, NEW opts, IsOptions(opts), NEW emb, NEW now \in Int,
         NEW C, C = CandidatesFor(ix, query, opts, emb)
  PROVE  /\ C \subseteq DOMAIN ix.row /\ IsFiniteSet(C) /\ C \subseteq Int
         /\ \A h \in HitsFor(ix, query, opts, emb, now) : h.section_id \in C
<1>1. PICK l, via_or, vector : /\ l = LexFor(ix, query, opts).lists /\ via_or = LexFor(ix, query, opts).via_or
                               /\ vector = VectorFor(ix, opts, emb)
  OBVIOUS
<1>2. ListsOver(ix, l, vector)
  BY <1>1, ListsOfQuery
<1>3. C = Candidates(ix, l, vector, opts)
  BY <1>1 DEF CandidatesFor
<1>4. C \subseteq DOMAIN ix.row
  BY <1>2, <1>3 DEF Candidates, Passing, Both, ListsOver, ToSet
<1>5. IsFiniteSet(C) /\ C \subseteq Int
  BY <1>4, FS_Subset DEF IsIndex
<1>6. \A id \in C : HitFor(ix, l, vector, opts, now, via_or, id).section_id = id
  BY <1>2, <1>4, HitFields
<1>7. HitsFor(ix, query, opts, emb, now) = {HitFor(ix, l, vector, opts, now, via_or, id) : id \in C}
  BY <1>1, <1>3 DEF HitsFor, CandidatesFor
<1> QED
  BY <1>4, <1>5, <1>6, <1>7

\* search.rs search_with, for every index, query, options and clock: the answer is a prefix of
\* the eligible sections its lists hold, better ones first, no section twice, no better one
\* left out, and no longer than was asked; a filter never leaves room unused.
THEOREM AnswersAreTheBest ==
  ASSUME NEW ix, IsIndex(ix), NEW query, query # {}, NEW opts, IsOptions(opts), NEW emb, NEW now \in Int
  PROVE  IsAnswer(search_with(ix, query, opts, emb, now), HitsFor(ix, query, opts, emb, now),
                  opts.k, Cardinality(CandidatesFor(ix, query, opts, emb)))
<1>1. PICK l, via_or, vector : /\ l = LexFor(ix, query, opts).lists /\ via_or = LexFor(ix, query, opts).via_or
                               /\ vector = VectorFor(ix, opts, emb)
  OBVIOUS
<1>2. ListsOver(ix, l, vector)
  BY <1>1, ListsOfQuery
<1>3. PICK C : C = Candidates(ix, l, vector, opts)
  OBVIOUS
<1>4. C \subseteq DOMAIN ix.row
  BY <1>2, <1>3 DEF Candidates, Passing, Both, ListsOver, ToSet
<1>5. IsFiniteSet(C) /\ C \subseteq Int
  BY <1>4, FS_Subset DEF IsIndex
<1> DEFINE hit == [id \in C |-> HitFor(ix, l, vector, opts, now, via_or, id)]
           hits == {hit[id] : id \in C}
<1>6. hits = HitsFor(ix, query, opts, emb, now)
  BY <1>1, <1>3 DEF HitsFor, CandidatesFor
<1>7. search_with(ix, query, opts, emb, now) = Take(BestFirst(hits), opts.k)
  <2>1. fuse(ix, l, vector, opts) = {FusedFor(l, vector, opts, id) : id \in C}
    BY <1>2, <1>3, FusedCandidates
  <2>2. {to_hit(ix, f, now, opts, via_or) : f \in fuse(ix, l, vector, opts)} = hits
    BY <2>1 DEF HitFor
  <2>3. search_with(ix, query, opts, emb, now)
          = Take(BestFirst({to_hit(ix, f, now, opts, via_or) : f \in fuse(ix, l, vector, opts)}), opts.k)
    BY <1>1 DEF search_with, LexFor, VectorFor
  <2> HIDE DEF hits
  <2> QED
    BY <2>2, <2>3
<1>8. \A id \in C : hit[id].section_id = id /\ hit[id].score \in Int
  BY <1>2, <1>4, HitFields
<1>9. hit = [id \in C |-> hit[id]]
  OBVIOUS
<1> HIDE DEF hit
<1>10. PICK k \in Nat : k = opts.k
  BY DEF IsOptions
<1>11. IsFiniteSet(hits) /\ Cardinality(hits) = Cardinality(C)
  <2>1. hit \in [C -> hits]
    BY <1>9
  <2>2. hit \in Bijection(C, hits)
    BY <1>8, <2>1, Fun_IsBij
  <2> HIDE DEF hits
  <2> QED
    BY <1>5, <2>2, FS_Bijection, Fun_ExistsBij
<1>12. /\ \A h \in hits : h.section_id \in Int /\ h.score \in Int
       /\ \A g, h \in hits : g.section_id = h.section_id => g = h
  BY <1>5, <1>8
<1> HIDE DEF hits
<1>13. PICK t : t = Take(BestFirst(hits), k)
  OBVIOUS
<1>14. IsAnswer(t, hits, k, Cardinality(hits))
  BY <1>11, <1>12, <1>13, BestFirstList
<1> QED
  BY <1>1, <1>3, <1>6, <1>7, <1>10, <1>11, <1>13, <1>14 DEF CandidatesFor

\* The sections an answer should be made of, were the lists not cut.
Wanted(ix, query, opts, emb) == ByText(ix, query, opts) \cup Passing(ix, ByVectors(ix, opts, emb), opts)

\* search.rs lexical_lists and fuse: with lists deep enough for the index, the candidates are
\* the eligible matches of the AND form, of the OR form when it has none, and the eligible
\* sections of the vectors: a filter is applied before the choice of the form and the cut.
THEOREM DeepListsMissNothing ==
  ASSUME NEW ix, IsIndex(ix), NEW query, IsFiniteSet(query), NEW opts, IsOptions(opts), NEW emb,
         Cardinality(DOMAIN ix.row) <= fetch_depth(opts)
  PROVE  CandidatesFor(ix, query, opts, emb) = Wanted(ix, query, opts, emb)
<1>1. PICK fetch \in Nat : fetch = fetch_depth(opts)
  BY DepthCoversAsked
<1>2. PICK first, second, l, vector :
        /\ first = ListsOf(ix, AndForm(query, opts), fetch, opts)
        /\ second = ListsOf(ix, OrForm(query), fetch, opts)
        /\ l = lexical_lists(ix, query, fetch, opts).lists
        /\ vector = vector_list(ix, fetch, opts, emb)
  OBVIOUS
<1>3. /\ Both(first) = Matching(ix, AndForm(query, opts), opts)
      /\ Both(second) = Matching(ix, OrForm(query), opts)
  <2>1. PICK e, f : e = AndForm(query, opts) /\ f = OrForm(query)
    OBVIOUS
  <2>2. /\ ListFrom(ix, first.raw, InText(ix, e), fetch) /\ ListFrom(ix, first.cards, InCard(ix, e, opts), fetch)
        /\ ListFrom(ix, second.raw, InText(ix, f), fetch) /\ ListFrom(ix, second.cards, InCard(ix, f, opts), fetch)
    BY <1>2, <2>1, ListsFound
  <2>3. /\ ToSet(first.raw) = InText(ix, e) /\ ToSet(first.cards) = InCard(ix, e, opts)
        /\ ToSet(second.raw) = InText(ix, f) /\ ToSet(second.cards) = InCard(ix, f, opts)
    BY <1>1, <2>2 DEF ListFrom
  <2> QED
    BY <2>1, <2>3 DEF Both, Matching
<1>4. Passing(ix, Both(l), opts) = ByText(ix, query, opts)
  BY <1>2, <1>3, FullTextComplete
<1>5. ToSet(vector) = ByVectors(ix, opts, emb)
  <2>1. ListFrom(ix, vector, ByVectors(ix, opts, emb), fetch)
    BY <1>2, VectorList
  <2> QED
    BY <1>1, <2>1 DEF ListFrom
<1>6. CandidatesFor(ix, query, opts, emb) = Passing(ix, Both(l) \cup ToSet(vector), opts)
  BY <1>1, <1>2 DEF CandidatesFor, Candidates, LexFor, VectorFor
<1>7. Passing(ix, Both(l) \cup ToSet(vector), opts) = Passing(ix, Both(l), opts) \cup Passing(ix, ToSet(vector), opts)
  BY DEF Passing
<1> QED
  BY <1>4, <1>5, <1>6, <1>7 DEF Wanted

\* The ids of an answer.
IdsOf(hits) == {hits[i].section_id : i \in DOMAIN hits}

\* The ids of an answer cut to k are ids of C, all of them when there are no more than k.
IdsFrom(t, C, k) ==
  /\ IdsOf(t) \subseteq C /\ Cardinality(C) \in Nat
  /\ DOMAIN t = 1 .. Len(t) /\ Len(t) \in Nat
  /\ Len(t) = IF k < Cardinality(C) THEN k ELSE Cardinality(C)
  /\ Cardinality(IdsOf(t)) = Len(t)
  /\ Cardinality(C) <= k => IdsOf(t) = C

LEMMA AnswerIds ==
  ASSUME NEW ix, IsIndex(ix), NEW query, query # {}, NEW opts, IsOptions(opts), NEW emb, NEW now \in Int,
         NEW t, t = search_with(ix, query, opts, emb, now), NEW C, C = CandidatesFor(ix, query, opts, emb)
  PROVE  IdsFrom(t, C, opts.k)
<1>1. PICK hits : hits = HitsFor(ix, query, opts, emb, now)
  OBVIOUS
<1>2. IsAnswer(t, hits, opts.k, Cardinality(C))
  BY <1>1, AnswersAreTheBest
<1>3. IsFiniteSet(C) /\ C \subseteq DOMAIN ix.row /\ \A h \in hits : h.section_id \in C
  BY <1>1, CandidatesAreSections
<1>4. PICK n \in Nat, c \in Nat : n = Len(t) /\ c = Cardinality(C)
  BY <1>2, <1>3, FS_CardinalityType DEF IsAnswer
<1>5. /\ t \in Seq(hits) /\ n = IF opts.k < c THEN opts.k ELSE c
      /\ \A i, j \in 1 .. n : t[i].section_id = t[j].section_id => i = j
  BY <1>2, <1>4 DEF IsAnswer
<1>6. DOMAIN t = 1 .. n /\ \A i \in 1 .. n : t[i] \in hits /\ t[i].section_id \in C
  <2>1. PICK s \in Seq(hits) : s = t /\ n = Len(s)
    BY <1>4, <1>5
  <2>2. DOMAIN s = 1 .. n /\ \A i \in 1 .. n : s[i] \in hits
    BY ONLY s \in Seq(hits), n \in Nat, <2>1
  <2> QED
    BY <1>3, <2>1, <2>2
<1> DEFINE u == [i \in 1 .. n |-> t[i].section_id]
<1>7. u \in Seq(C) /\ Len(u) = n /\ ToSet(u) = IdsOf(t) /\ NoRepeats(u)
  <2>1. u \in [1 .. n -> C]
    BY <1>6
  <2>2. u \in Seq(C) /\ Len(u) = n /\ DOMAIN u = 1 .. n
    BY <2>1
  <2>3. ToSet(u) = IdsOf(t)
    BY <1>6 DEF ToSet, IdsOf
  <2>4. NoRepeats(u)
    BY <1>5, <2>2 DEF NoRepeats
  <2> QED
    BY <2>2, <2>3, <2>4
<1> HIDE DEF u
<1>8. Cardinality(IdsOf(t)) = n /\ IdsOf(t) \subseteq C
  <2>1. Cardinality(IdsOf(t)) = n
    BY <1>7, ElementsCounted
  <2> QED
    BY <1>6, <2>1 DEF IdsOf
<1>9. c <= opts.k => IdsOf(t) = C
  <2>1. c <= opts.k => Cardinality(IdsOf(t)) = Cardinality(C)
    BY <1>4, <1>5, <1>8 DEF IsOptions
  <2> QED
    BY <1>3, <1>8, <2>1, FS_Subset
<1> QED
  BY <1>4, <1>5, <1>6, <1>8, <1>9 DEF IdsFrom

------------------------------------------------------------------------------
(* What explain shows, short answers and the fetch loop: Search, Docsqa. *)

LEMMA SmallerOfTwo ==
  ASSUME NEW m \in Nat, NEW n \in Nat
  PROVE  Min({m, n}) = IF m < n THEN m ELSE n
<1>1. {m, n} \subseteq Nat /\ {m, n} # {}
  OBVIOUS
<1>2. PICK T : T = {m, n}
  OBVIOUS
<1>3. Min(T) \in T /\ \A y \in T : Min(T) <= y
  BY <1>1, <1>2, LeastExists
<1> QED
  BY <1>2, <1>3

\* What explain shows of a query are the lists its answer is made of.
ShowsLists(ix, query, opts, emb, e) ==
  /\ e.cards = LexFor(ix, query, opts).lists.cards /\ e.raw = LexFor(ix, query, opts).lists.raw
  /\ e.via_or_fallback = LexFor(ix, query, opts).via_or /\ e.vector = VectorFor(ix, opts, emb)

LEMMA ExplainShowsItsLists ==
  ASSUME NEW ix, NEW query, NEW opts, opts.vectors \in BOOLEAN, NEW emb, NEW now,
         \A x, y \in emb : x = y
  PROVE  ShowsLists(ix, query, opts, emb, explain(ix, query, opts, emb, now))
<1> DEFINE note == CASE ~opts.vectors -> {"vectors disabled"}
                     [] opts.vectors /\ emb = {} -> {"embeddings are off"}
                     [] opts.vectors /\ emb # {} -> IF \E e \in emb : ~e.ready THEN {"not downloaded"} ELSE {}
           vector == IF note = {} THEN VectorFor(ix, opts, emb) ELSE <<>>
<1>1. explain(ix, query, opts, emb, now)
        = [cards |-> LexFor(ix, query, opts).lists.cards, raw |-> LexFor(ix, query, opts).lists.raw,
           via_or_fallback |-> LexFor(ix, query, opts).via_or, vector |-> vector,
           vector_note |-> note, fused |-> search_with(ix, query, opts, emb, now)]
  BY Zenon DEF explain, LexFor, VectorFor
<1>2. vector = VectorFor(ix, opts, emb)
  <2>1. CASE ~opts.vectors \/ emb = {}
    <3>1. VectorFor(ix, opts, emb) = <<>>
      BY <2>1, Zenon DEF VectorFor, vector_list
    <3> QED
      BY <3>1
  <2>2. CASE opts.vectors /\ emb # {}
    <3>1. PICK e : e \in emb /\ emb = {e}
      BY <2>2
    <3>2. (CHOOSE x \in emb : TRUE) = e
      BY <3>1
    <3>3. note = IF ~e.ready THEN {"not downloaded"} ELSE {}
      BY <2>2, <3>1
    <3>4. ~e.ready => VectorFor(ix, opts, emb) = <<>>
      BY <3>2 DEF VectorFor, vector_list
    <3> QED
      BY <3>3, <3>4
  <2> QED
    BY <2>1, <2>2
<1> HIDE DEF note, vector
<1>3. PICK cards, raw, via, v, n, fused :
        /\ cards = LexFor(ix, query, opts).lists.cards /\ raw = LexFor(ix, query, opts).lists.raw
        /\ via = LexFor(ix, query, opts).via_or /\ v = vector /\ n = note
        /\ fused = search_with(ix, query, opts, emb, now)
  OBVIOUS
<1>4. PICK e : e = explain(ix, query, opts, emb, now)
  OBVIOUS
<1>5. e = [cards |-> cards, raw |-> raw, via_or_fallback |-> via, vector |-> v, vector_note |-> n, fused |-> fused]
  BY <1>1, <1>3, <1>4, Zenon
<1>6. e.cards = cards /\ e.raw = raw /\ e.via_or_fallback = via /\ e.vector = v
  BY ONLY <1>5
<1>7. ShowsLists(ix, query, opts, emb, e)
  BY <1>2, <1>3, <1>6, Zenon DEF ShowsLists
<1> QED
  BY <1>4, <1>7

\* A hit tells the lists of e that have it, and the form of the query.
ToldFrom(e, h) ==
  /\ h.matched \in {"cards", "both"} <=> Contains(e.cards, h.section_id)
  /\ h.matched \in {"raw", "both"} <=> Contains(e.raw, h.section_id)
  /\ h.vector <=> Contains(e.vector, h.section_id)
  /\ h.via_or_fallback = e.via_or_fallback

WinnersTold(e) == \A i \in DOMAIN e.fused : ToldFrom(e, e.fused[i])

\* search.rs explain, for every index, query and options: each winner is in the lists that are
\* shown as having produced it and in no other, and says by which form of the query it came.
THEOREM WinnersAreShown ==
  ASSUME NEW ix, IsIndex(ix), NEW query, query # {}, NEW opts, IsOptions(opts), opts.vectors \in BOOLEAN,
         NEW emb, \A x, y \in emb : x = y, NEW now \in Int,
         NEW e, e = explain(ix, query, opts, emb, now)
  PROVE  \A i \in DOMAIN e.fused : ToldFrom(e, e.fused[i])
<1>1. PICK l, via_or, vector : /\ l = LexFor(ix, query, opts).lists /\ via_or = LexFor(ix, query, opts).via_or
                               /\ vector = VectorFor(ix, opts, emb)
  OBVIOUS
<1>2. e.cards = l.cards /\ e.raw = l.raw /\ e.via_or_fallback = via_or /\ e.vector = vector
  BY <1>1, ExplainShowsItsLists DEF ShowsLists
<1>3. PICK t, hits : t = search_with(ix, query, opts, emb, now) /\ hits = HitsFor(ix, query, opts, emb, now)
  OBVIOUS
<1>4. e.fused = t
  BY <1>3, Zenon DEF explain
<1>5. t \in Seq(hits)
  BY <1>3, AnswersAreTheBest DEF IsAnswer
<1>6. PICK C : C = CandidatesFor(ix, query, opts, emb)
  OBVIOUS
<1>7. C \subseteq DOMAIN ix.row /\ ListsOver(ix, l, vector)
  BY <1>1, <1>6, CandidatesAreSections, ListsOfQuery
<1>8. hits = {HitFor(ix, l, vector, opts, now, via_or, id) : id \in C}
  BY <1>1, <1>3, <1>6 DEF HitsFor
<1>9. ASSUME NEW h \in hits
      PROVE  /\ h.matched = matched(l, h.section_id) /\ h.vector = Contains(vector, h.section_id)
             /\ h.via_or_fallback = via_or
  <2>1. PICK id \in C : h = HitFor(ix, l, vector, opts, now, via_or, id)
    BY <1>8
  <2> QED
    BY <1>7, <2>1, HitFields
<1>10. \A id : /\ matched(l, id) \in {"cards", "both"} <=> Contains(l.cards, id)
               /\ matched(l, id) \in {"raw", "both"} <=> Contains(l.raw, id)
  BY DEF matched
<1>11. \A i \in DOMAIN t : t[i] \in hits
  BY <1>5
<1>12. ASSUME NEW i \in DOMAIN t
       PROVE  /\ t[i].matched \in {"cards", "both"} <=> Contains(l.cards, t[i].section_id)
              /\ t[i].matched \in {"raw", "both"} <=> Contains(l.raw, t[i].section_id)
              /\ t[i].vector <=> Contains(vector, t[i].section_id)
              /\ t[i].via_or_fallback = via_or
  <2>1. PICK h \in hits : h = t[i]
    BY <1>11
  <2>2. PICK id : id = h.section_id
    OBVIOUS
  <2> QED
    BY <1>9, <1>10, <2>1, <2>2
<1> QED
  BY <1>2, <1>4, <1>12, Zenon DEF ToldFrom

\* A power of two is above its exponent: the subsets of 1 .. n are more than its elements.
LEMMA PowersGrow ==
  ASSUME NEW n \in Nat
  PROVE  2 ^ n \in Nat \ {0} /\ n <= 2 ^ n
<1> DEFINE S == 1 .. n
           one == [i \in S |-> {i}]
           ones == {one[i] : i \in S}
<1>1. IsFiniteSet(S) /\ Cardinality(S) = n
  BY UpTo
<1>2. Cardinality(SUBSET S) = 2 ^ n /\ IsFiniteSet(SUBSET S)
  BY <1>1, FS_SUBSET
<1>3. one \in Bijection(S, ones)
  <2>1. one \in [S -> ones]
    OBVIOUS
  <2>2. \A i, j \in S : one[i] = one[j] => i = j
    OBVIOUS
  <2> HIDE DEF one
  <2> QED
    BY <2>1, <2>2, Fun_IsBij
<1>4. ones \subseteq SUBSET S
  OBVIOUS
<1> HIDE DEF one, ones, S
<1>5. IsFiniteSet(ones) /\ Cardinality(ones) = n
  BY <1>1, <1>3, FS_Bijection, Fun_ExistsBij
<1>6. Cardinality(ones) <= Cardinality(SUBSET S)
  BY <1>2, <1>4, FS_Subset
<1>7. 2 ^ n \in Nat
  BY PowersAreIntegers
<1>8. 2 ^ n # 0
  <2>1. CASE n = 0
    BY <2>1
  <2>2. CASE n # 0
    BY <1>2, <1>5, <1>6, <1>7, <2>2
  <2> QED
    BY <2>1, <2>2
<1> QED
  BY <1>2, <1>5, <1>6, <1>7, <1>8

\* The depths are depths up to the cap, and end with it.
LEMMA DepthsEndAtTheCap ==
  ASSUME NEW first \in Int
  PROVE  Depths(first) \subseteq 1 .. FETCH_CAP /\ FETCH_CAP \in Depths(first)
<1>1. PICK cap \in Nat \ {0} : cap = FETCH_CAP
  BY DocsqaAssumption
<1>2. PICK c \in 1 .. cap : c = Clamp(first, 1, cap)
  BY DEF Clamp
<1>3. ASSUME NEW n \in Nat
      PROVE  Min({c * 2 ^ n, cap}) \in 1 .. cap /\ (cap <= 2 ^ n => Min({c * 2 ^ n, cap}) = cap)
  <2>1. PICK p \in Nat \ {0} : p = 2 ^ n
    BY PowersGrow
  <2>2. c * p \in Nat \ {0} /\ p <= c * p
    BY <1>2
  <2>3. PICK m \in Nat \ {0} : m = c * p
    BY <2>2
  <2>4. Min({m, cap}) = IF m < cap THEN m ELSE cap
    BY SmallerOfTwo
  <2>5. cap <= p => ~(m < cap)
    BY <2>2, <2>3
  <2>6. Min({m, cap}) \in 1 .. cap /\ (cap <= p => Min({m, cap}) = cap)
    BY <2>4, <2>5
  <2> QED
    BY <2>1, <2>3, <2>6
<1>4. Depths(first) = {Min({c * 2 ^ n, cap}) : n \in 0 .. cap}
  BY <1>1, <1>2 DEF Depths
<1>5. \A n \in 0 .. cap : n \in Nat
  OBVIOUS
<1>6. cap <= 2 ^ cap
  BY PowersGrow
<1>7. \A n \in 0 .. cap : Min({c * 2 ^ n, cap}) \in 1 .. cap
  BY <1>3, <1>5
<1>8. cap \in 0 .. cap /\ Min({c * 2 ^ cap, cap}) = cap
  BY <1>3, <1>6
<1> QED
  BY <1>1, <1>4, <1>7, <1>8

\* The list tells the pages of the answer t at depth d, and is truncated unless that was enough.
EndsWith(list, t, d) ==
  /\ ToSet(list.ranked) = {t[i].rel_path : i \in DOMAIN t} /\ Len(list.ranked) \in Nat
  /\ ~list.truncated => Len(list.ranked) >= PAGES_NEEDED \/ Len(t) < d

\* FetchPages: the pages of the answer at one of its depths, which brought enough of them or
\* all there was to find, unless the list is marked truncated.
LEMMA FetchedAtADepth ==
  ASSUME NEW T, NEW found, \A k \in 1 .. FETCH_CAP : found[k] \in Seq(T), NEW first \in Int,
         NEW list, list = FetchPages(found, first)
  PROVE  \E d \in 1 .. FETCH_CAP : EndsWith(list, found[d], d)
<1> DEFINE Pages(depth) == pages_of(MapSeq(found[depth], LAMBDA h : h.rel_path))
           Enough(depth) == Len(Pages(depth)) >= PAGES_NEEDED \/ Len(found[depth]) < depth
           D == {depth \in Depths(first) : Enough(depth) \/ depth = FETCH_CAP}
           d == Min(D)
<1>1. list = [ranked |-> Pages(d), fetched |-> d, truncated |-> ~Enough(d)]
  BY Zenon DEF FetchPages
<1>2. d \in 1 .. FETCH_CAP
  <2>1. D # {} /\ D \subseteq 1 .. FETCH_CAP
    <3> HIDE DEF Enough
    <3> QED
      BY DepthsEndAtTheCap
  <2> HIDE DEF D
  <2>2. D \subseteq Nat
    BY <2>1
  <2>3. Min(D) \in D
    BY <2>1, <2>2, LeastExists
  <2> QED
    BY <2>1, <2>3
<1> HIDE DEF d
<1>3. PICK t : t = found[d]
  OBVIOUS
<1>4. t \in Seq(T)
  BY <1>2, <1>3
<1> DEFINE paths == [i \in DOMAIN t |-> t[i].rel_path]
<1>5. Pages(d) = Distinct(paths)
  BY <1>3, Zenon DEF pages_of, MapSeq
<1>6. PICK P, s : P = {t[i].rel_path : i \in DOMAIN t} /\ s = paths
  OBVIOUS
<1>7. s \in Seq(P) /\ ToSet(s) = P
  <2>1. DOMAIN t = 1 .. Len(t) /\ Len(t) \in Nat
    BY <1>4
  <2>2. s \in [1 .. Len(t) -> P]
    BY <1>6, <2>1
  <2>3. s \in Seq(P) /\ DOMAIN s = DOMAIN t
    BY <2>1, <2>2
  <2>4. ToSet(s) = P
    BY <1>6, <2>3 DEF ToSet
  <2> QED
    BY <2>3, <2>4
<1> HIDE DEF paths
<1>8. PICK r : r = Distinct(s)
  OBVIOUS
<1>9. ToSet(r) = P /\ Len(r) \in Nat
  <2>1. r \in Seq(P) /\ ToSet(r) = ToSet(s)
    BY ONLY <1>7, <1>8, DistinctElements
  <2> QED
    BY <1>7, <2>1
<1>10. Pages(d) = r
  BY <1>5, <1>6, <1>8
<1>11. list.ranked = r /\ (~list.truncated => Len(r) >= PAGES_NEEDED \/ Len(t) < d)
  <2> HIDE DEF Pages
  <2>1. PICK e \in BOOLEAN : e = ~Enough(d)
    BY DEF Enough
  <2>2. list = [ranked |-> r, fetched |-> d, truncated |-> e]
    BY <1>1, <1>10, <2>1
  <2> HIDE DEF Enough
  <2>3. list.ranked = r /\ list.truncated = e
    BY <2>2
  <2>4. ~e => Enough(d)
    BY <2>1
  <2>5. Enough(d) => Len(r) >= PAGES_NEEDED \/ Len(t) < d
    BY <1>3, <1>10 DEF Enough
  <2> QED
    BY <2>3, <2>4, <2>5
<1>12. EndsWith(list, found[d], d)
  BY <1>3, <1>6, <1>9, <1>11 DEF EndsWith
<1> QED
  BY <1>2, <1>12

\* A list that is not full holds everything it could.
LEMMA ShortListIsWhole ==
  ASSUME NEW ix, NEW s, NEW all, NEW fetch \in Nat, ListFrom(ix, s, all, fetch),
         NEW C, IsFiniteSet(C), ToSet(s) \subseteq C, Cardinality(C) < fetch
  PROVE  ToSet(s) = all
<1>1. s \in Seq(DOMAIN ix.row) /\ NoRepeats(s) /\ (ToSet(s) = all \/ Len(s) = fetch)
  BY DEF ListFrom
<1>2. IsFiniteSet(ToSet(s)) /\ Cardinality(ToSet(s)) = Len(s)
  BY <1>1, ElementsCounted
<1>3. Cardinality(ToSet(s)) <= Cardinality(C)
  BY FS_Subset
<1>4. Len(s) \in Nat /\ Cardinality(C) \in Nat
  BY <1>1, FS_CardinalityType
<1> QED
  BY <1>1, <1>2, <1>3, <1>4

LEMMA UnfilteredPass ==
  ASSUME NEW ix, NEW opts, ~Filtered(opts), NEW ids
  PROVE  Passing(ix, ids, opts) = ids
BY DEF Passing, passes, Filtered

\* search.rs search_with, for every index, query and options without a filter: an answer
\* shorter than was asked for holds every match; no list it is made of was cut.
THEOREM ShortAnswersAreWhole ==
  ASSUME NEW ix, IsIndex(ix), NEW query, IsFiniteSet(query), query # {}, NEW opts, IsOptions(opts),
         ~Filtered(opts), NEW emb, NEW now \in Int, NEW t, t = search_with(ix, query, opts, emb, now),
         Len(t) < opts.k
  PROVE  /\ IdsOf(t) = Wanted(ix, query, opts, emb)
         /\ CandidatesFor(ix, query, opts, emb) = Wanted(ix, query, opts, emb)
<1>17. PICK u, C : u = search_with(ix, query, opts, emb, now) /\ C = CandidatesFor(ix, query, opts, emb)
  OBVIOUS
<1>18. IdsFrom(t, C, opts.k)
  <2>1. IdsFrom(u, C, opts.k)
    BY <1>17, AnswerIds
  <2> QED
    BY <1>17, <2>1
<1>1. PICK c \in Nat : C = CandidatesFor(ix, query, opts, emb) /\ c = Cardinality(C)
  BY <1>17, <1>18 DEF IdsFrom
<1>2. PICK fetch \in Nat \ {0} : fetch = fetch_depth(opts) /\ opts.k <= fetch
  BY DepthCoversAsked
<1>3. IdsOf(t) = C /\ c < fetch
  <2>1. c < opts.k
    BY <1>1, <1>18 DEF IsOptions, IdsFrom
  <2> QED
    BY <1>1, <1>2, <1>18, <2>1 DEF IsOptions, IdsFrom
<1>4. IsFiniteSet(C)
  <2>1. /\ C \subseteq DOMAIN ix.row /\ IsFiniteSet(C) /\ C \subseteq Int
        /\ \A h \in HitsFor(ix, query, opts, emb, now) : h.section_id \in C
    BY ONLY IsIndex(ix), IsOptions(opts), now \in Int, <1>17, CandidatesAreSections, Zenon
  <2> QED
    BY <2>1
<1>5. PICK first, second, l, vector :
        /\ first = ListsOf(ix, AndForm(query, opts), fetch, opts)
        /\ second = ListsOf(ix, OrForm(query), fetch, opts)
        /\ l = lexical_lists(ix, query, fetch, opts).lists
        /\ vector = vector_list(ix, fetch, opts, emb)
  OBVIOUS
<1>6. C = Both(l) \cup ToSet(vector)
  <2>1. C = Passing(ix, Both(l) \cup ToSet(vector), opts)
    BY <1>1, <1>2, <1>5 DEF CandidatesFor, Candidates, LexFor, VectorFor
  <2> QED
    BY <2>1, UnfilteredPass
<1>7. PICK e, f : e = AndForm(query, opts) /\ f = OrForm(query)
  OBVIOUS
<1>8. /\ ListFrom(ix, first.raw, InText(ix, e), fetch) /\ ListFrom(ix, first.cards, InCard(ix, e, opts), fetch)
      /\ ListFrom(ix, second.raw, InText(ix, f), fetch) /\ ListFrom(ix, second.cards, InCard(ix, f, opts), fetch)
  BY <1>2, <1>5, <1>7, ListsFound
<1>9. ASSUME NEW m, ListFrom(ix, m.raw, InText(ix, e), fetch), ListFrom(ix, m.cards, InCard(ix, e, opts), fetch),
             Both(m) \subseteq C
      PROVE  Both(m) = Matching(ix, e, opts)
  <2>1. ToSet(m.raw) \subseteq C /\ ToSet(m.cards) \subseteq C /\ Cardinality(C) < fetch /\ fetch \in Nat
    BY <1>1, <1>3, <1>9 DEF Both
  <2>2. PICK a, b : a = m.raw /\ b = m.cards
    OBVIOUS
  <2>3. PICK in_text, in_card : in_text = InText(ix, e) /\ in_card = InCard(ix, e, opts)
    OBVIOUS
  <2>4. ListFrom(ix, a, in_text, fetch) /\ ListFrom(ix, b, in_card, fetch)
    BY <1>9, <2>2, <2>3
  <2>5. ToSet(a) = in_text
    BY <1>4, <2>1, <2>2, <2>4, ShortListIsWhole
  <2>6. ToSet(b) = in_card
    BY <1>4, <2>1, <2>2, <2>4, ShortListIsWhole
  <2> QED
    BY <2>2, <2>3, <2>5, <2>6 DEF Both, Matching
<1>10. FallsBack(ix, query, opts, first) => Both(first) \subseteq C
  <2>1. FallsBack(ix, query, opts, first) => Passing(ix, Both(first), opts) = {}
    BY DEF FallsBack
  <2> QED
    BY <2>1, UnfilteredPass
<1>11. ~FallsBack(ix, query, opts, first) => Both(first) \subseteq C
  <2>1. ~FallsBack(ix, query, opts, first) => l = first
    BY <1>5, ListsChosen
  <2> QED
    BY <1>6, <2>1
<1>12. Both(first) = Matching(ix, AndForm(query, opts), opts)
  BY <1>7, <1>8, <1>9, <1>10, <1>11
<1>13. FallsBack(ix, query, opts, first) => Both(second) = Matching(ix, OrForm(query), opts)
  <2> SUFFICES ASSUME FallsBack(ix, query, opts, first)
               PROVE  Both(second) = Matching(ix, f, opts)
    BY <1>7
  <2>1. l = second
    BY <1>5, ListsChosen
  <2>2. ToSet(second.raw) \subseteq C /\ ToSet(second.cards) \subseteq C /\ Cardinality(C) < fetch /\ fetch \in Nat
    BY <1>1, <1>3, <1>6, <2>1 DEF Both
  <2>3. PICK a, b, in_text, in_card :
          a = second.raw /\ b = second.cards /\ in_text = InText(ix, f) /\ in_card = InCard(ix, f, opts)
    OBVIOUS
  <2>4. ListFrom(ix, a, in_text, fetch) /\ ListFrom(ix, b, in_card, fetch)
    BY <1>8, <2>3
  <2>5. ToSet(a) = in_text
    BY <1>4, <2>2, <2>3, <2>4, ShortListIsWhole
  <2>6. ToSet(b) = in_card
    BY <1>4, <2>2, <2>3, <2>4, ShortListIsWhole
  <2> QED
    BY <2>3, <2>5, <2>6 DEF Both, Matching
<1>14. Passing(ix, Both(l), opts) = ByText(ix, query, opts)
  BY <1>5, <1>12, <1>13, FullTextComplete
<1>15. ToSet(vector) = ByVectors(ix, opts, emb)
  <2>1. PICK all : all = ByVectors(ix, opts, emb)
    OBVIOUS
  <2>2. ListFrom(ix, vector, all, fetch)
    BY <1>5, <2>1, VectorList
  <2>3. ToSet(vector) \subseteq C /\ Cardinality(C) < fetch
    BY <1>1, <1>3, <1>6
  <2>4. ToSet(vector) = all
    BY <1>4, <2>2, <2>3, ShortListIsWhole
  <2> QED
    BY <2>1, <2>4
<1>16. C = Wanted(ix, query, opts, emb)
  BY <1>6, <1>14, <1>15, UnfilteredPass DEF Wanted
<1> QED
  BY <1>1, <1>3, <1>16

\* The fields of SearchOptions a search reads, besides k.
OptionFields ==
  {"raw_only", "since", "until", "path_prefix", "recency_half_life", "or_fallback", "vectors",
   "rrf_k", "raw_list_weight", "and_stopwords"}

\* Options that differ in k alone ask for the same sections.
LEMMA OnlyTheDepthChanges ==
  ASSUME NEW opts, IsOptions(opts), OptionFields \cup {"k"} \subseteq DOMAIN opts, NEW k \in Nat,
         NEW deep, deep = [opts EXCEPT !.k = k]
  PROVE  /\ IsOptions(deep) /\ deep.k = k /\ (Filtered(deep) <=> Filtered(opts))
         /\ \A ix, query, emb : Wanted(ix, query, deep, emb) = Wanted(ix, query, opts, emb)
<1>1. deep.k = k /\ \A f \in OptionFields : deep[f] = opts[f]
  BY DEF OptionFields
<1>2. /\ deep.raw_only = opts.raw_only /\ deep.since = opts.since /\ deep.until = opts.until
      /\ deep.path_prefix = opts.path_prefix /\ deep.recency_half_life = opts.recency_half_life
      /\ deep.or_fallback = opts.or_fallback /\ deep.vectors = opts.vectors /\ deep.rrf_k = opts.rrf_k
      /\ deep.raw_list_weight = opts.raw_list_weight /\ deep.and_stopwords = opts.and_stopwords
  BY <1>1 DEF OptionFields
<1> QED
  <2>1. IsOptions(deep) /\ (Filtered(deep) <=> Filtered(opts))
    BY <1>1, <1>2 DEF IsOptions, Filtered
  <2>2. ASSUME NEW ix, NEW query, NEW emb
        PROVE  Wanted(ix, query, deep, emb) = Wanted(ix, query, opts, emb)
    <3>1. AndForm(query, deep) = AndForm(query, opts)
      BY <1>2 DEF AndForm
    <3>2. ASSUME NEW section
          PROVE  passes(section, deep) <=> passes(section, opts)
      BY <1>2 DEF passes
    <3>3. ASSUME NEW ids
          PROVE  Passing(ix, ids, deep) = Passing(ix, ids, opts)
      BY <3>2 DEF Passing
    <3>4. ASSUME NEW expr
          PROVE  Matching(ix, expr, deep) = Matching(ix, expr, opts)
      BY <1>2 DEF Matching, InCard
    <3>5. ByVectors(ix, deep, emb) = ByVectors(ix, opts, emb)
      BY <1>2 DEF ByVectors
    <3>6. PICK e, f : e = AndForm(query, opts) /\ f = OrForm(query)
      OBVIOUS
    <3>7. PICK byAnd, byOr : byAnd = Passing(ix, Matching(ix, e, opts), opts) /\ byOr = Passing(ix, Matching(ix, f, opts), opts)
      OBVIOUS
    <3>8. ByText(ix, query, opts) = IF byAnd = {} /\ opts.or_fallback THEN byOr ELSE byAnd
      BY <3>6, <3>7, Zenon DEF ByText
    <3>9. Passing(ix, Matching(ix, e, deep), deep) = byAnd /\ Passing(ix, Matching(ix, f, deep), deep) = byOr
      BY <3>3, <3>4, <3>7
    <3>10. ByText(ix, query, deep) = IF byAnd = {} /\ deep.or_fallback THEN byOr ELSE byAnd
      BY <3>1, <3>6, <3>9 DEF ByText
    <3> QED
      BY <1>2, <3>3, <3>5, <3>8, <3>10 DEF Wanted
  <2> QED
    BY <1>1, <2>1, <2>2

\* The hits of t name the pages of its sections.
NamesItsPages(ix, t) == {t[i].rel_path : i \in DOMAIN t} = {ix.row[id].path : id \in IdsOf(t)}

LEMMA PagesOfAnswer ==
  ASSUME NEW ix, IsIndex(ix), NEW query, query # {}, NEW opts, IsOptions(opts), NEW emb, NEW now \in Int,
         NEW t, t = search_with(ix, query, opts, emb, now)
  PROVE  /\ t \in Seq(HitsFor(ix, query, opts, emb, now))
         /\ NamesItsPages(ix, t)
<1>1. PICK l, via_or, vector : /\ l = LexFor(ix, query, opts).lists /\ via_or = LexFor(ix, query, opts).via_or
                               /\ vector = VectorFor(ix, opts, emb)
  OBVIOUS
<1>2. PICK hits : hits = HitsFor(ix, query, opts, emb, now)
  OBVIOUS
<1>3. t \in Seq(hits)
  BY <1>2, AnswersAreTheBest DEF IsAnswer
<1>4. PICK C : C = CandidatesFor(ix, query, opts, emb)
  OBVIOUS
<1>5. C \subseteq DOMAIN ix.row /\ ListsOver(ix, l, vector)
  BY <1>1, <1>4, CandidatesAreSections, ListsOfQuery
<1>6. hits = {HitFor(ix, l, vector, opts, now, via_or, id) : id \in C}
  BY <1>1, <1>2, <1>4 DEF HitsFor
<1>7. ASSUME NEW h \in hits
      PROVE  h.rel_path = ix.row[h.section_id].path
  <2>1. PICK id \in C : h = HitFor(ix, l, vector, opts, now, via_or, id)
    BY <1>6
  <2> QED
    BY <1>5, <2>1, HitFields
<1>8. \A i \in DOMAIN t : t[i] \in hits
  BY <1>3
<1>9. \A i \in DOMAIN t : t[i].rel_path = ix.row[t[i].section_id].path
  BY <1>7, <1>8
<1> QED
  BY <1>2, <1>3, <1>9 DEF IdsOf, NamesItsPages

\* What docsqa asks for one question, at every depth.
FoundAt(ix, query, opts, emb, now) ==
  [k \in 1 .. FETCH_CAP |-> search_with(ix, query, [opts EXCEPT !.k = k], emb, now)]

\* A ranking that is short and not marked truncated lists the pages of all these sections.
ShortIsWhole(list, ix, sections) ==
  ~list.truncated /\ Len(list.ranked) < PAGES_NEEDED =>
    ToSet(list.ranked) = {ix.row[id].path : id \in sections}

\* docsqa.rs evaluate, for every index, query and options without a filter: a ranking of fewer
\* pages than the metrics need, and not marked truncated, lists every page that has a match,
\* so a relevant page that is missing from it was not found and not merely not fetched.
THEOREM ShortRankingsAreWhole ==
  ASSUME NEW ix, IsIndex(ix), NEW query, IsFiniteSet(query), query # {},
         NEW opts, IsOptions(opts), OptionFields \cup {"k"} \subseteq DOMAIN opts, ~Filtered(opts),
         NEW emb, NEW now \in Int, NEW first \in Int
  PROVE  ShortIsWhole(FetchPages(FoundAt(ix, query, opts, emb, now), first), ix, Wanted(ix, query, opts, emb))
<1>16. PICK found : found = FoundAt(ix, query, opts, emb, now)
  OBVIOUS
<1>17. PICK list : list = FetchPages(found, first)
  OBVIOUS
<1>18. SUFFICES ASSUME ~list.truncated, Len(list.ranked) < PAGES_NEEDED
                PROVE  ToSet(list.ranked) = {ix.row[id].path : id \in Wanted(ix, query, opts, emb)}
  BY <1>16, <1>17 DEF ShortIsWhole
<1>1. PICK cap \in Nat : cap = FETCH_CAP
  BY DocsqaAssumption
<1>2. ASSUME NEW k \in 1 .. cap
      PROVE  \E deep : /\ IsOptions(deep) /\ deep.k = k /\ ~Filtered(deep)
                       /\ Wanted(ix, query, deep, emb) = Wanted(ix, query, opts, emb)
                       /\ found[k] = search_with(ix, query, deep, emb, now)
  <2>1. PICK deep : deep = [opts EXCEPT !.k = k]
    OBVIOUS
  <2>2. /\ IsOptions(deep) /\ deep.k = k /\ (Filtered(deep) <=> Filtered(opts))
        /\ \A x, y, z : Wanted(x, y, deep, z) = Wanted(x, y, opts, z)
    BY <2>1, OnlyTheDepthChanges
  <2>3. found[k] = search_with(ix, query, deep, emb, now)
    BY <1>1, <1>16, <2>1 DEF FoundAt
  <2> QED
    BY <2>2, <2>3
<1> DEFINE T == UNION {ToSet(found[k]) : k \in 1 .. cap}
<1>3. \A k \in 1 .. FETCH_CAP : found[k] \in Seq(T)
  <2>1. SUFFICES ASSUME NEW k \in 1 .. cap
                 PROVE  found[k] \in Seq(T)
    BY <1>1
  <2>2. PICK deep, t : IsOptions(deep) /\ t = search_with(ix, query, deep, emb, now) /\ t = found[k]
    BY <1>2
  <2>3. PICK H : t \in Seq(H)
    BY <2>2, PagesOfAnswer
  <2>4. ToSet(t) \subseteq T
    BY <2>2
  <2> HIDE DEF T
  <2>5. \A i \in 1 .. Len(t) : t[i] \in T
    BY <2>3, <2>4 DEF ToSet
  <2>6. t \in Seq(T)
    BY <2>3, <2>5
  <2> QED
    BY <2>2, <2>6
<1> HIDE DEF T
<1>4. PICK d \in 1 .. FETCH_CAP : EndsWith(list, found[d], d)
  <2>2. \E d \in 1 .. FETCH_CAP : EndsWith(list, found[d], d)
    BY ONLY <1>3, <1>17, first \in Int, FetchedAtADepth
  <2> QED
    BY <2>2
<1>5. PICK deep, t : /\ IsOptions(deep) /\ deep.k = d /\ ~Filtered(deep)
                     /\ Wanted(ix, query, deep, emb) = Wanted(ix, query, opts, emb)
                     /\ t = search_with(ix, query, deep, emb, now) /\ t = found[d]
  BY <1>1, <1>2
<1>6. EndsWith(list, t, d)
  BY <1>4, <1>5
<1>7. PICK pages : pages = {t[i].rel_path : i \in DOMAIN t}
  OBVIOUS
<1>8. ~list.truncated /\ ~(Len(list.ranked) >= PAGES_NEEDED)
  BY <1>6, <1>18, DocsqaAssumption DEF EndsWith
<1>9. ToSet(list.ranked) = pages /\ Len(t) < deep.k
  BY ONLY <1>5, <1>6, <1>7, <1>8 DEF EndsWith
<1>10. PICK asked : asked = deep /\ IsOptions(asked) /\ ~Filtered(asked) /\ Len(t) < asked.k
  BY <1>5, <1>9
<1>11. t = search_with(ix, query, asked, emb, now)
  BY <1>5, <1>10
<1>12. IdsOf(t) = Wanted(ix, query, asked, emb)
  BY ONLY IsIndex(ix), IsFiniteSet(query), query # {}, now \in Int, <1>10, <1>11, ShortAnswersAreWhole
<1>13. NamesItsPages(ix, t)
  BY ONLY IsIndex(ix), query # {}, now \in Int, <1>10, <1>11, PagesOfAnswer
<1>14. IdsOf(t) = Wanted(ix, query, opts, emb)
  BY <1>5, <1>10, <1>12
<1>15. pages = {ix.row[id].path : id \in IdsOf(t)}
  BY <1>7, <1>13 DEF NamesItsPages
<1> QED
  BY <1>9, <1>14, <1>15

------------------------------------------------------------------------------
(* The population of a dataset. *)

\* A question has these fields, whatever is in them; its pages are a list.
IsQuestion(q) ==
  /\ q = [id |-> q.id, query |-> q.query, relevant |-> q.relevant, original_relevant |-> q.original_relevant,
          reference |-> q.reference, category |-> q.category, anchors |-> q.anchors,
          unmapped_qrels |-> q.unmapped_qrels, image_evidence |-> q.image_evidence,
          multimodal_judgment |-> q.multimodal_judgment]
  /\ \E S : q.original_relevant \in Seq(S)

IsDataset(ds) ==
  /\ ds = [project |-> ds.project, pages |-> ds.pages, questions |-> ds.questions]
  /\ \E S : ds.questions \in Seq(S)
  /\ \A i \in DOMAIN ds.questions : IsQuestion(ds.questions[i])

\* docsqa.rs coverage counts the pages present where eligible asks for all of them: the two
\* ways to write the rule name the same questions.
THEOREM CoverageCountsTheEligible ==
  ASSUME NEW q, IsQuestion(q), q.image_evidence \in BOOLEAN, NEW indexed
  PROVE  CoverageClass(q, indexed) = "eligible" <=> eligible(q, indexed)
<1>1. PICK s : s = q.original_relevant
  OBVIOUS
<1>2. PICK S : s \in Seq(S)
  BY <1>1 DEF IsQuestion
<1>3. PICK present : present = {i \in DOMAIN s : s[i] \in indexed}
  OBVIOUS
<1>4. DOMAIN s = 1 .. Len(s) /\ Len(s) \in Nat
  BY <1>2
<1>5. IsFiniteSet(1 .. Len(s)) /\ Cardinality(1 .. Len(s)) = Len(s)
  BY <1>4, FS_Interval
<1>6. present \subseteq 1 .. Len(s)
  BY <1>3, <1>4
<1>7. /\ IsFiniteSet(present) /\ Cardinality(present) \in Nat /\ Cardinality(present) <= Len(s)
      /\ Cardinality(present) = Len(s) => present = 1 .. Len(s)
  BY <1>5, <1>6, FS_Subset, FS_CardinalityType
<1>8. ~(Cardinality(present) < Len(s)) <=> \A i \in 1 .. Len(s) : s[i] \in indexed
  <2>1. ASSUME ~(Cardinality(present) < Len(s)), NEW i \in 1 .. Len(s)
        PROVE  s[i] \in indexed
    <3>1. present = 1 .. Len(s)
      BY <1>4, <1>7, <2>1
    <3> QED
      BY <1>3, <3>1
  <2>2. ASSUME \A i \in 1 .. Len(s) : s[i] \in indexed
        PROVE  ~(Cardinality(present) < Len(s))
    <3>1. present = 1 .. Len(s)
      BY <1>3, <1>4, <2>2
    <3> QED
      BY <1>4, <1>5, <3>1
  <2> QED
    BY <2>1, <2>2
<1>9. ToSet(s) \subseteq indexed <=> \A i \in 1 .. Len(s) : s[i] \in indexed
  BY <1>4 DEF ToSet
<1>10. s = <<>> <=> Len(s) = 0
  BY <1>2
<1>11. CoverageClass(q, indexed) = "eligible"
         <=> /\ ~q.image_evidence
             /\ ~(q.unmapped_qrels # <<>> \/ Cardinality(present) < Len(s) \/ s = <<>>)
  BY <1>1, <1>3 DEF CoverageClass
<1> QED
  BY <1>1, <1>8, <1>9, <1>11 DEF eligible

\* Two questions that differ in their relevant pages at most.
Relabelled(q, p) == \E pages : p = [q EXCEPT !.relevant = pages]

\* The questions of a dataset and of the same one with pooled labels differ in `relevant`.
LEMMA LabelsAddPages ==
  ASSUME NEW ds, IsDataset(ds), NEW extra, NEW pooled, pooled = add_labels(ds, extra).ds.questions
  PROVE  /\ DOMAIN pooled = DOMAIN ds.questions /\ pooled = [i \in DOMAIN pooled |-> pooled[i]]
         /\ add_labels(ds, extra).ds = [ds EXCEPT !.questions = pooled]
         /\ \A i \in DOMAIN pooled : Relabelled(ds.questions[i], pooled[i])
<1> DEFINE For(i) == Filter(extra, LAMBDA x : x.id = ds.questions[i].id
                                 /\ \A j \in 1 .. i - 1 : ds.questions[j].id # x.id)
           Added(i) == Distinct(ds.questions[i].relevant \o MapSeq(For(i), LAMBDA x : x.page))
           new == [i \in DOMAIN ds.questions |-> [ds.questions[i] EXCEPT !.relevant = Added(i)]]
<1>1. add_labels(ds, extra).ds = [ds EXCEPT !.questions = new]
  BY DEF add_labels
<1> HIDE DEF Added
<1>2. "questions" \in DOMAIN ds
  BY DEF IsDataset
<1>3. pooled = new
  BY <1>1, <1>2
<1>4. DOMAIN new = DOMAIN ds.questions /\ new = [i \in DOMAIN new |-> new[i]]
  OBVIOUS
<1>5. \A i \in DOMAIN new : Relabelled(ds.questions[i], new[i])
  BY DEF Relabelled
<1> HIDE DEF new
<1> QED
  BY <1>1, <1>3, <1>4, <1>5

\* docsqa.rs eligible and Question.original_relevant: labels pooled from other systems never
\* change who is scored, in any split, with the holdout open or closed, nor what is covered.
THEOREM LabelsChangeNobody ==
  ASSUME NEW ds, IsDataset(ds), NEW extra, NEW indexed, NEW splits, NEW split, NEW open, NEW only
  PROVE  LET pooled == add_labels(ds, extra).ds.questions
         IN  /\ DOMAIN pooled = DOMAIN ds.questions
             /\ \A i \in DOMAIN pooled :
                  /\ pooled[i].id = ds.questions[i].id
                  /\ eligible(pooled[i], indexed) <=> eligible(ds.questions[i], indexed)
                  /\ Scored(pooled[i], indexed, splits, split, open, only)
                       <=> Scored(ds.questions[i], indexed, splits, split, open, only)
                  /\ CoverageClass(pooled[i], indexed) = CoverageClass(ds.questions[i], indexed)
<1>1. PICK pooled : pooled = add_labels(ds, extra).ds.questions
  OBVIOUS
<1>2. /\ DOMAIN pooled = DOMAIN ds.questions
      /\ \A i \in DOMAIN pooled : Relabelled(ds.questions[i], pooled[i])
  BY <1>1, LabelsAddPages
<1>3. ASSUME NEW i \in DOMAIN pooled
      PROVE  /\ pooled[i].id = ds.questions[i].id
             /\ eligible(pooled[i], indexed) <=> eligible(ds.questions[i], indexed)
             /\ Scored(pooled[i], indexed, splits, split, open, only)
                  <=> Scored(ds.questions[i], indexed, splits, split, open, only)
             /\ CoverageClass(pooled[i], indexed) = CoverageClass(ds.questions[i], indexed)
  <2>1. PICK q, p : q = ds.questions[i] /\ p = pooled[i]
    OBVIOUS
  <2>2. IsQuestion(q)
    BY <1>2, <2>1 DEF IsDataset
  <2>3. PICK pages : p = [q EXCEPT !.relevant = pages]
    BY <1>2, <2>1 DEF Relabelled
  <2>4. {"id", "original_relevant", "unmapped_qrels", "image_evidence"} \subseteq DOMAIN q
    BY <2>2 DEF IsQuestion
  <2>5. /\ p.id = q.id /\ p.original_relevant = q.original_relevant
        /\ p.unmapped_qrels = q.unmapped_qrels /\ p.image_evidence = q.image_evidence
    BY <2>3, <2>4
  <2>6. eligible(p, indexed) <=> eligible(q, indexed)
    BY <2>5 DEF eligible
  <2>7. Scored(p, indexed, splits, split, open, only) <=> Scored(q, indexed, splits, split, open, only)
    BY <2>5, <2>6 DEF Scored
  <2>8. CoverageClass(p, indexed) = CoverageClass(q, indexed)
    BY <2>5 DEF CoverageClass
  <2> QED
    BY <2>1, <2>5, <2>6, <2>7, <2>8
<1> QED
  BY <1>1, <1>2, <1>3


\* The places of the questions that the scorer lets through.
ScoredAt(ds, indexed, splits, split, open, only) ==
  {i \in DOMAIN ds.questions : Scored(ds.questions[i], indexed, splits, split, open, only)}

IdsAt(ds, places) == {ds.questions[i].id : i \in places}

\* The ids of a run that has one result, with its id, for each question asked.
LEMMA IdsOfRun ==
  ASSUME NEW ds, IsDataset(ds), NEW P, P \subseteq DOMAIN ds.questions,
         NEW asked, asked = Kept(ds.questions, P),
         NEW run, DOMAIN run.results = DOMAIN asked,
         \A n \in DOMAIN asked : run.results[n].id = asked[n].id
  PROVE  Ids(run) = IdsAt(ds, P)
<1>1. PICK S : ds.questions \in Seq(S)
  BY DEF IsDataset
<1>2. PICK qs \in Seq(S) : qs = ds.questions
  BY <1>1
<1>3. P \subseteq 1 .. Len(qs) /\ asked = Kept(qs, P)
  BY <1>2
<1>4. ToSet(asked) = {qs[i] : i \in P}
  BY <1>3, KeptElements
<1>5. Ids(run) = {q.id : q \in ToSet(asked)}
  BY DEF Ids, ToSet
<1> QED
  BY <1>2, <1>4, <1>5 DEF IdsAt

LEMMA EvaluateScores ==
  ASSUME NEW ix, NEW docs, NEW emb, NEW ds, IsDataset(ds), NEW splits, NEW split, NEW opts, NEW now
  PROVE  Ids(evaluate(ix, docs, emb, ds, splits, split, opts, now))
           = IdsAt(ds, ScoredAt(ds, DOMAIN docs, splits, split, opts.include_holdout, opts.only))
<1> DEFINE P == ScoredAt(ds, DOMAIN docs, splits, split, opts.include_holdout, opts.only)
           how == [opts.search EXCEPT !.raw_only = opts.raw_only, !.recency_half_life = 0]
           Pages(q) == FetchPages([k \in 1 .. FETCH_CAP |-> search_with(ix, q.query, [how EXCEPT !.k = k], emb, now)],
                                  opts.fetch)
           asked == Kept(ds.questions, P)
           results == [n \in DOMAIN asked |-> ResultOf(asked[n], splits, Pages(asked[n]))]
           run == evaluate(ix, docs, emb, ds, splits, split, opts, now)
<1>1. run = [run |-> opts.name, split |-> split, metrics |-> MetricsOf(results), results |-> results,
             missing |-> <<>>, unknown |-> {}]
  BY DEF evaluate, MapSeq, Filter, ScoredAt
<1> HIDE DEF Pages
<1>2. \A n \in DOMAIN asked : results[n].id = asked[n].id
  BY DEF ResultOf
<1> HIDE DEF results
<1>3. run.results = results
  BY <1>1
<1>4. DOMAIN results = DOMAIN asked
  BY DEF results
<1>5. P \subseteq DOMAIN ds.questions
  BY DEF ScoredAt
<1> HIDE DEF run, asked, P
<1>6. asked = Kept(ds.questions, P)
  BY DEF asked
<1>7. Ids(run) = IdsAt(ds, P)
  BY <1>2, <1>3, <1>4, <1>5, <1>6, IdsOfRun
<1> QED
  BY <1>7 DEF run, P

LEMMA ArmScores ==
  ASSUME NEW docs, NEW ds, IsDataset(ds), NEW splits, NEW split, NEW rows, NEW how
  PROVE  Ids(score_arm(docs, ds, splits, split, rows, how))
           = IdsAt(ds, ScoredAt(ds, DOMAIN docs, splits, split, how.include_holdout, how.only))
<1> DEFINE P == ScoredAt(ds, DOMAIN docs, splits, split, how.include_holdout, how.only)
           asked == Kept(ds.questions, P)
           results == [n \in DOMAIN asked |-> ResultOf(asked[n], splits, ArmList(rows, asked[n].id))]
           run == score_arm(docs, ds, splits, split, rows, how)
<1>1. run.results = results
  BY DEF score_arm, MapSeq, Filter, ScoredAt
<1>2. \A n \in DOMAIN asked : results[n].id = asked[n].id
  BY DEF ResultOf
<1>3. DOMAIN results = DOMAIN asked
  OBVIOUS
<1>4. P \subseteq DOMAIN ds.questions
  BY DEF ScoredAt
<1> HIDE DEF run, results, asked, P
<1>5. asked = Kept(ds.questions, P)
  BY DEF asked
<1>6. Ids(run) = IdsAt(ds, P)
  BY <1>1, <1>2, <1>3, <1>4, <1>5, IdsOfRun
<1> QED
  BY <1>6 DEF run, P

\* A function on 1 .. n is a sequence.
LEMMA ListOf ==
  ASSUME NEW n \in Nat, NEW f, f = [i \in 1 .. n |-> f[i]]
  PROVE  f \in Seq({f[i] : i \in 1 .. n}) /\ Len(f) = n
<1> DEFINE T == {f[i] : i \in 1 .. n}
<1>1. f \in [1 .. n -> T]
  OBVIOUS
<1> HIDE DEF T
<1>2. f \in Seq(T) /\ Len(f) = n
  BY <1>1
<1> QED
  BY <1>2 DEF T

\* Without a limit the turns of the categories pass over no question.
LEMMA TurnsTakeAll ==
  ASSUME NEW n \in Nat, NEW pool, pool = [i \in 1 .. n |-> pool[i]]
  PROVE  Len(RoundRobin(pool, 0)) = n
<1> DEFINE cats == Distinct(MapSeq(pool, LAMBDA q : q.category))
           Turn(i) == Cardinality({j \in 1 .. i - 1 : pool[j].category = pool[i].category})
           before == Pairs(DOMAIN pool, LAMBDA i, j :
                       \/ Turn(i) < Turn(j)
                       \/ /\ Turn(i) = Turn(j)
                          /\ Position(cats, pool[i].category) < Position(cats, pool[j].category))
           order == InOrder(DOMAIN pool, before)
           turns == [i \in DOMAIN order |-> pool[order[i]]]
<1>1. RoundRobin(pool, 0) = Take(turns, Len(pool))
  BY DEF RoundRobin, MapSeq
<1>2. DOMAIN pool = 1 .. n /\ Len(pool) = n
  BY ListOf
<1> HIDE DEF before
<1>3. Cardinality(DOMAIN pool) = n
  BY <1>2, FS_Interval
<1>4. DOMAIN order = 1 .. n
  BY <1>3 DEF InOrder
<1> HIDE DEF order
<1>5. turns = [i \in 1 .. n |-> turns[i]]
  BY <1>4
<1> HIDE DEF turns
<1>6. turns \in Seq({turns[i] : i \in 1 .. n}) /\ Len(turns) = n
  BY <1>5, ListOf
<1>7. Take(turns, n) = turns
  BY <1>6, TakePrefix
<1> QED
  BY <1>1, <1>2, <1>6, <1>7

\* The places of the questions a sample is drawn from.
OpenAt(ds, indexed, splits, split) ==
  {i \in DOMAIN ds.questions : /\ eligible(ds.questions[i], indexed)
                               /\ \A s \in split : SplitOf(splits, ds.questions[i].id) = s}

\* A sample counts the eligible questions, drawn or without a reference.
AddsUp(s, ds, splits, split, indexed) ==
  /\ s.eligible = Cardinality(OpenAt(ds, indexed, splits, split))
  /\ Len(s.questions) + Len(s.without_reference) = s.eligible

LEMMA SampleCounts ==
  ASSUME NEW ds, IsDataset(ds), NEW splits, NEW split, NEW indexed, NEW order,
         NEW s, s = sample(ds, splits, split, indexed, 0, order)
  PROVE  AddsUp(s, ds, splits, split, indexed)
<1> DEFINE P == OpenAt(ds, indexed, splits, split)
           open == Kept(ds.questions, P)
           Cited == {i \in DOMAIN open : open[i].reference # {}}
           Bare == {i \in DOMAIN open : open[i].reference = {}}
           cited == Kept(open, Cited)
           bare == Kept(open, Bare)
           before == Pairs(DOMAIN cited, LAMBDA i, j : Position(order, cited[i].id) < Position(order, cited[j].id))
           drawn == InOrder(DOMAIN cited, before)
           pool == [i \in DOMAIN drawn |-> cited[drawn[i]]]
<1>1. s = [questions |-> RoundRobin(pool, 0), eligible |-> Len(open),
           without_reference |-> [i \in DOMAIN bare |-> bare[i].id]]
  BY DEF sample, MapSeq, Filter, OpenAt
<1>2. PICK S : ds.questions \in Seq(S)
  BY DEF IsDataset
<1>3. P \subseteq 1 .. Len(ds.questions)
  BY <1>2 DEF OpenAt
<1> HIDE DEF P, open, before, RoundRobin
<1>4. open \in Seq(S) /\ Len(open) = Cardinality(P)
  BY <1>2, <1>3, KeptElements DEF open
<1>5. PICK m \in Nat : m = Len(open)
  BY <1>4
<1>6. Cited \subseteq 1 .. m /\ Bare = (1 .. m) \ Cited
  BY <1>4, <1>5
<1> HIDE DEF Cited, Bare
<1>7. cited \in Seq(S) /\ Len(cited) = Cardinality(Cited)
  BY <1>4, <1>5, <1>6, KeptElements
<1>8. bare \in Seq(S) /\ Len(bare) = Cardinality(Bare)
  <2>1. Bare \subseteq 1 .. Len(open)
    BY <1>5, <1>6
  <2> QED
    BY <1>4, <2>1, KeptElements
<1> HIDE DEF cited, bare
<1>9. PICK c \in Nat, b \in Nat : c = Len(cited) /\ b = Len(bare)
  BY <1>7, <1>8
<1>10. DOMAIN cited = 1 .. c /\ DOMAIN bare = 1 .. b
  BY <1>7, <1>8, <1>9
<1>11. Cardinality(1 .. c) = c
  BY UpTo
<1>12. DOMAIN drawn = 1 .. c
  BY <1>10, <1>11 DEF InOrder
<1> HIDE DEF drawn
<1>13. pool = [i \in 1 .. c |-> pool[i]]
  BY <1>12
<1> HIDE DEF pool
<1>14. Len(RoundRobin(pool, 0)) = c
  BY <1>9, <1>13, TurnsTakeAll
<1>15. Len([i \in DOMAIN bare |-> bare[i].id]) = b
  BY <1>9, <1>10
<1>16. /\ s.eligible = m /\ Len(s.questions) = c
       /\ Len(s.without_reference) = b
  BY <1>1, <1>5, <1>14, <1>15
<1>17. Cardinality(Bare) = m - Cardinality(Cited)
  <2>1. IsFiniteSet(1 .. m) /\ Cardinality(1 .. m) = m
    BY UpTo
  <2>2. (1 .. m) \cap Cited = Cited
    BY <1>6
  <2>3. Cardinality((1 .. m) \ Cited) = Cardinality(1 .. m) - Cardinality((1 .. m) \cap Cited)
    BY <2>1, FS_Difference
  <2> QED
    BY <1>6, <2>1, <2>2, <2>3
<1>18. b = m - c
  BY <1>7, <1>8, <1>9, <1>17
<1>19. m = Cardinality(P)
  BY <1>4, <1>5
<1>20. c + b = m
  BY ONLY <1>18, m \in Nat, c \in Nat, b \in Nat
<1> QED
  BY <1>16, <1>19, <1>20 DEF P, AddsUp

LEMMA CoverageCounts ==
  ASSUME NEW ds, IsDataset(ds), NEW docs
  PROVE  coverage(ds, docs).eligible
           = Cardinality({i \in DOMAIN ds.questions : CoverageClass(ds.questions[i], DOMAIN docs) = "eligible"})
<1> DEFINE P == {i \in DOMAIN ds.questions : CoverageClass(ds.questions[i], DOMAIN docs) = "eligible"}
<1>1. PICK S : ds.questions \in Seq(S)
  BY DEF IsDataset
<1>2. coverage(ds, docs).eligible = Len(Kept(ds.questions, P))
  BY DEF coverage, Filter
<1>3. P \subseteq 1 .. Len(ds.questions)
  BY <1>1
<1> HIDE DEF P
<1>4. Len(Kept(ds.questions, P)) = Cardinality(P)
  BY <1>1, <1>3, KeptElements
<1> QED
  BY <1>2, <1>4 DEF P

\* No two questions have one id.
OwnIds(ds) == \A i, j \in DOMAIN ds.questions : ds.questions[i].id = ds.questions[j].id => i = j

LEMMA IdsCounted ==
  ASSUME NEW ds, IsDataset(ds), OwnIds(ds), NEW P, P \subseteq DOMAIN ds.questions
  PROVE  Cardinality(IdsAt(ds, P)) = Cardinality(P)
<1> DEFINE f == [i \in P |-> ds.questions[i].id]
<1>1. PICK S : ds.questions \in Seq(S)
  BY DEF IsDataset
<1>2. IsFiniteSet(P)
  <2>1. P \subseteq 1 .. Len(ds.questions) /\ Len(ds.questions) \in Nat
    BY <1>1
  <2> QED
    BY <2>1, UpTo, FS_Subset
<1>3. f \in Bijection(P, IdsAt(ds, P))
  <2>1. f \in [P -> IdsAt(ds, P)]
    BY DEF IdsAt
  <2>2. \A i, j \in P : f[i] = f[j] => i = j
    BY DEF OwnIds
  <2>3. \A id \in IdsAt(ds, P) : \E i \in P : f[i] = id
    BY DEF IdsAt
  <2> HIDE DEF f
  <2> QED
    BY <2>1, <2>2, <2>3, Fun_IsBij
<1> HIDE DEF f
<1> QED
  BY <1>2, <1>3, FS_Bijection, Fun_ExistsBij

\* The ids that may be scored, with the holdout open or not.
Allowed(ids, splits, holdout) == {id \in ids : SplitOf(splits, id) = "holdout" => holdout}

LEMMA ScoredAreOpen ==
  ASSUME NEW ds, NEW indexed, NEW splits, NEW split, NEW holdout
  PROVE  IdsAt(ds, ScoredAt(ds, indexed, splits, split, holdout, {}))
           = Allowed(IdsAt(ds, OpenAt(ds, indexed, splits, split)), splits, holdout)
<1> DEFINE May(id) == SplitOf(splits, id) = "holdout" => holdout
           P == ScoredAt(ds, indexed, splits, split, holdout, {})
           Q == OpenAt(ds, indexed, splits, split)
<1>1. \A i \in DOMAIN ds.questions :
        Scored(ds.questions[i], indexed, splits, split, holdout, {})
          <=> (i \in OpenAt(ds, indexed, splits, split) /\ May(ds.questions[i].id))
  BY Zenon DEF Scored, OpenAt
<1>2. Q \subseteq DOMAIN ds.questions
  BY DEF OpenAt
<1>3. \A i : i \in P <=> i \in Q /\ May(ds.questions[i].id)
  BY <1>1, <1>2, Zenon DEF ScoredAt
<1>4. Allowed(IdsAt(ds, Q), splits, holdout) = {id \in IdsAt(ds, Q) : May(id)}
  BY DEF Allowed
<1> HIDE DEF May, P, Q
<1>5. IdsAt(ds, P) = {id \in IdsAt(ds, Q) : May(id)}
  BY <1>3 DEF IdsAt
<1> QED
  BY <1>4, <1>5 DEF P, Q

\* Pooled labels leave the same questions open, and the dataset a dataset.
LEMMA PoolingKeepsOpen ==
  ASSUME NEW ds, IsDataset(ds), NEW extra, NEW pooled, pooled = add_labels(ds, extra).ds,
         NEW indexed, NEW splits, NEW split
  PROVE  /\ IsDataset(pooled) /\ DOMAIN pooled.questions = DOMAIN ds.questions
         /\ \A i \in DOMAIN ds.questions : pooled.questions[i].id = ds.questions[i].id
                                           /\ pooled.questions[i].image_evidence = ds.questions[i].image_evidence
         /\ OpenAt(pooled, indexed, splits, split) = OpenAt(ds, indexed, splits, split)
<1> DEFINE qs == pooled.questions
<1>1. /\ DOMAIN qs = DOMAIN ds.questions /\ qs = [i \in DOMAIN qs |-> qs[i]]
      /\ pooled = [ds EXCEPT !.questions = qs]
      /\ \A i \in DOMAIN qs : Relabelled(ds.questions[i], qs[i])
  BY LabelsAddPages
<1>2. ASSUME NEW i \in DOMAIN qs
      PROVE  /\ IsQuestion(qs[i]) /\ qs[i].image_evidence = ds.questions[i].image_evidence
             /\ qs[i].id = ds.questions[i].id
             /\ eligible(qs[i], indexed) <=> eligible(ds.questions[i], indexed)
  <2>1. PICK q, p : q = ds.questions[i] /\ p = qs[i]
    OBVIOUS
  <2>2. IsQuestion(q)
    BY <1>1, <2>1 DEF IsDataset
  <2>3. PICK pages : p = [q EXCEPT !.relevant = pages]
    BY <1>1, <2>1 DEF Relabelled
  <2>4. /\ q = [id |-> q.id, query |-> q.query, relevant |-> q.relevant, original_relevant |-> q.original_relevant,
                reference |-> q.reference, category |-> q.category, anchors |-> q.anchors,
                unmapped_qrels |-> q.unmapped_qrels, image_evidence |-> q.image_evidence,
                multimodal_judgment |-> q.multimodal_judgment]
        /\ \E S : q.original_relevant \in Seq(S)
    BY <2>2 DEF IsQuestion
  <2>5. /\ p = [id |-> q.id, query |-> q.query, relevant |-> pages, original_relevant |-> q.original_relevant,
                reference |-> q.reference, category |-> q.category, anchors |-> q.anchors,
                unmapped_qrels |-> q.unmapped_qrels, image_evidence |-> q.image_evidence,
                multimodal_judgment |-> q.multimodal_judgment]
    BY <2>3, <2>4
  <2>6. IsQuestion(p) /\ p.image_evidence = q.image_evidence /\ p.id = q.id
    BY <2>4, <2>5 DEF IsQuestion
  <2>7. eligible(p, indexed) <=> eligible(q, indexed)
    BY <2>5 DEF eligible
  <2> QED
    BY <2>1, <2>6, <2>7
<1>3. pooled = [project |-> ds.project, pages |-> ds.pages, questions |-> qs]
  <2>1. ds = [project |-> ds.project, pages |-> ds.pages, questions |-> ds.questions]
    BY DEF IsDataset
  <2>2. PICK new : new = qs
    OBVIOUS
  <2>3. pooled = [ds EXCEPT !.questions = new]
    BY <1>1, <2>2
  <2> QED
    BY <2>1, <2>2, <2>3
<1>4. IsDataset(pooled)
  <2>1. PICK S : ds.questions \in Seq(S)
    BY DEF IsDataset
  <2>2. PICK n \in Nat : DOMAIN ds.questions = 1 .. n
    BY <2>1
  <2>3. qs = [i \in 1 .. n |-> qs[i]]
    BY <1>1, <2>2
  <2>4. \E T : pooled.questions \in Seq(T)
    BY <2>3, ListOf
  <2>5. pooled.project = ds.project /\ pooled.pages = ds.pages
    BY <1>3
  <2> QED
    BY <1>2, <1>3, <2>4, <2>5 DEF IsDataset
<1>5. OpenAt(pooled, indexed, splits, split) = OpenAt(ds, indexed, splits, split)
  BY <1>1, <1>2 DEF OpenAt
<1> QED
  BY <1>1, <1>2, <1>4, <1>5

ImagesKnown(ds) == \A i \in DOMAIN ds.questions : ds.questions[i].image_evidence \in BOOLEAN

LEMMA CoverageCountsOpen ==
  ASSUME NEW ds, IsDataset(ds), ImagesKnown(ds), NEW docs, NEW splits
  PROVE  coverage(ds, docs).eligible = Cardinality(OpenAt(ds, DOMAIN docs, splits, {}))
<1> DEFINE C == {i \in DOMAIN ds.questions : CoverageClass(ds.questions[i], DOMAIN docs) = "eligible"}
<1>1. coverage(ds, docs).eligible = Cardinality(C)
  BY CoverageCounts
<1>2. ASSUME NEW i \in DOMAIN ds.questions
      PROVE  CoverageClass(ds.questions[i], DOMAIN docs) = "eligible" <=> eligible(ds.questions[i], DOMAIN docs)
  <2>1. PICK q : q = ds.questions[i]
    OBVIOUS
  <2>2. IsQuestion(q) /\ q.image_evidence \in BOOLEAN
    BY <2>1 DEF IsDataset, ImagesKnown
  <2> QED
    BY <2>1, <2>2, CoverageCountsTheEligible
<1>3. C = OpenAt(ds, DOMAIN docs, splits, {})
  BY <1>2 DEF OpenAt
<1> QED
  BY <1>1, <1>3

\* Docsqa: for every dataset, index, split and label set, evaluate and score_arm score one set
\* of questions, the one coverage calls eligible and sample draws from; labels pooled from
\* other systems do not change it, and the holdout is in it only when it is opened.
THEOREM OneSetOfQuestions ==
  ASSUME NEW ds, IsDataset(ds), OwnIds(ds), ImagesKnown(ds),
         NEW extra, NEW pooled, pooled = add_labels(ds, extra).ds,
         NEW docs, NEW splits, NEW split, NEW order,
         NEW ix, NEW emb, NEW opts, NEW now, opts.only = {}, NEW rows, NEW how, how.only = {}
  PROVE  LET open  == IdsAt(ds, OpenAt(ds, DOMAIN docs, splits, split))
             drawn == sample(pooled, splits, split, DOMAIN docs, 0, order)
         IN  /\ \A d \in {ds, pooled} :
                  /\ Ids(evaluate(ix, docs, emb, d, splits, split, opts, now))
                       = Allowed(open, splits, opts.include_holdout)
                  /\ Ids(score_arm(docs, d, splits, split, rows, how))
                       = Allowed(open, splits, how.include_holdout)
             /\ drawn.eligible = Cardinality(open)
             /\ Len(drawn.questions) + Len(drawn.without_reference) = drawn.eligible
             /\ split = {} => coverage(pooled, docs).eligible = Cardinality(open)
<1> DEFINE P == OpenAt(ds, DOMAIN docs, splits, split)
           open == IdsAt(ds, P)
           drawn == sample(pooled, splits, split, DOMAIN docs, 0, order)
<1>1. /\ IsDataset(pooled) /\ DOMAIN pooled.questions = DOMAIN ds.questions
      /\ \A i \in DOMAIN ds.questions : pooled.questions[i].id = ds.questions[i].id
                                        /\ pooled.questions[i].image_evidence = ds.questions[i].image_evidence
      /\ OpenAt(pooled, DOMAIN docs, splits, split) = P
  BY PoolingKeepsOpen
<1>2. P \subseteq DOMAIN ds.questions
  BY DEF OpenAt
<1>3. IdsAt(pooled, P) = open
  BY <1>1, <1>2 DEF IdsAt
<1>4. ASSUME NEW d \in {ds, pooled}, NEW holdout
      PROVE  IdsAt(d, ScoredAt(d, DOMAIN docs, splits, split, holdout, {})) = Allowed(open, splits, holdout)
  <2>1. OpenAt(d, DOMAIN docs, splits, split) = P /\ IdsAt(d, P) = open
    BY <1>1, <1>3
  <2> QED
    BY <2>1, ScoredAreOpen
<1>5. Cardinality(open) = Cardinality(P)
  BY <1>2, IdsCounted
<1>6. /\ drawn.eligible = Cardinality(P)
      /\ Len(drawn.questions) + Len(drawn.without_reference) = drawn.eligible
  <2>1. PICK s, d : s = drawn /\ d = pooled
    OBVIOUS
  <2>2. PICK indexed : indexed = DOMAIN docs
    OBVIOUS
  <2>3. IsDataset(d) /\ s = sample(d, splits, split, indexed, 0, order)
    BY <1>1, <2>1, <2>2
  <2>4. OpenAt(d, indexed, splits, split) = P
    BY <1>1, <2>1, <2>2
  <2>5. AddsUp(s, d, splits, split, indexed)
    BY ONLY <2>3, SampleCounts, Zenon
  <2> QED
    BY <2>1, <2>4, <2>5 DEF AddsUp
<1>7. split = {} => coverage(pooled, docs).eligible = Cardinality(P)
  <2>1. ImagesKnown(pooled)
    BY <1>1 DEF ImagesKnown
  <2> QED
    BY <1>1, <2>1, CoverageCountsOpen
<1> HIDE DEF open
<1>8. ASSUME NEW d \in {ds, pooled}
      PROVE  /\ Ids(evaluate(ix, docs, emb, d, splits, split, opts, now)) = Allowed(open, splits, opts.include_holdout)
             /\ Ids(score_arm(docs, d, splits, split, rows, how)) = Allowed(open, splits, how.include_holdout)
  <2>1. IsDataset(d)
    BY <1>1
  <2>2. Ids(evaluate(ix, docs, emb, d, splits, split, opts, now)) = Allowed(open, splits, opts.include_holdout)
    BY <1>4, <2>1, EvaluateScores
  <2>3. Ids(score_arm(docs, d, splits, split, rows, how)) = Allowed(open, splits, how.include_holdout)
    BY <1>4, <2>1, ArmScores
  <2> QED
    BY <2>2, <2>3
<1> QED
  BY <1>5, <1>6, <1>7, <1>8 DEF open

------------------------------------------------------------------------------
(* The runs of MCAlgorithms. *)

\* A step picks an input of the algorithm it names.
LEMMA StepsNameTheirAlgorithm ==
  /\ BudgetCase => case'.alg = "budget"
  /\ LinesCase => case'.alg = "lines"
  /\ HttpCase => case'.alg \in {"api", "local"}
  /\ CliCase => case'.alg = "cli"
  /\ CardCase => case'.alg = "date"
  /\ AnswerCase => case'.alg = "card"
  /\ StoredCase => case'.alg = "stored"
  /\ OpenCase => case'.alg = "open"
  /\ IndexCase => case'.alg = "index"
  /\ SearchCase => case'.alg = "search"
  /\ DatasetCase => case'.alg = "dataset"
  /\ MdaGradeCase => case'.alg = "mda"
  /\ GradeCase => case'.alg = "grades"
  /\ PairCase => case'.alg = "paired"
<1>1. CardCase => case'.alg = "date"
  <2>1. CardCase => \E d : case' = [alg |-> "date", date |-> d]
    BY Zenon DEF CardCase
  <2> QED
    BY <2>1
<1>2. AnswerCase => case'.alg = "card"
  <2>1. AnswerCase => \E a : case' = [alg |-> "card", answer |-> a]
    BY Zenon DEF AnswerCase
  <2> QED
    BY <2>1
<1>3. HttpCase => case'.alg \in {"api", "local"}
  BY DEF HttpCase
<1>4. CliCase => case'.alg = "cli"
  <2>1. CliCase => \E empty, reply : case' = [alg |-> "cli", empty |-> empty, reply |-> reply]
    BY Zenon DEF CliCase
  <2> QED
    BY <2>1
<1>5. /\ BudgetCase => case'.alg = "budget"
      /\ LinesCase => case'.alg = "lines"
      /\ StoredCase => case'.alg = "stored"
      /\ OpenCase => case'.alg = "open"
  BY DEF BudgetCase, LinesCase, StoredCase, OpenCase
<1>6. IndexCase => case'.alg = "index"
  BY DEF IndexCase
<1>7. SearchCase => case'.alg = "search"
  BY DEF SearchCase
<1>8. DatasetCase => case'.alg = "dataset"
  BY DEF DatasetCase
<1>9. /\ MdaGradeCase => case'.alg = "mda"
      /\ GradeCase => case'.alg = "grades"
  BY DEF MdaGradeCase, GradeCase
<1>10. PairCase => case'.alg = "paired"
  BY DEF PairCase
<1> QED
  BY <1>1, <1>2, <1>3, <1>4, <1>5, <1>6, <1>7, <1>8, <1>9, <1>10

\* The searches of the run.
RunVectors == <<[hash |-> "h1", model |-> "m", dim |-> 2, whole |-> TRUE],
                [hash |-> "h2", model |-> "m", dim |-> 2, whole |-> TRUE]>>

RunIndex(ix) ==
  /\ IsIndex(ix) /\ DOMAIN ix.row = 1 .. 3 /\ ix.vectors = RunVectors
  /\ {ix.row[id].hash : id \in 1 .. 3} = {"h1", "h2"}

SearchesTyped ==
  case.alg = "search" =>
    /\ RunIndex(case.ix) /\ IsOptions(case.opts) /\ OptionFields \cup {"k"} \subseteq DOMAIN case.opts
    /\ ~case.opts.and_stopwords /\ case.opts.vectors \in BOOLEAN
    /\ IsFiniteSet(case.query) /\ case.query # {} /\ case.emb \in {{}, {Model}}

LEMMA IndexIsIndex ==
  ASSUME NEW text, NEW card, NEW states, NEW order \in Orders, NEW ix,
         ix = Index(text, card, states, order, <<0, 1, 1>>)
  PROVE  RunIndex(ix)
<1>1. /\ DOMAIN ix.row = 1 .. 3 /\ \A id \in 1 .. 3 : ix.row[id].at = <<0, 1, 1>>[id] /\ ix.row[id].hash = HashOf[id]
      /\ ix.rank = [raw |-> order, cards |-> <<2, 3, 1>>]
      /\ ix.cosine = [h1 |-> 1, h2 |-> 2]
  BY DEF Index
<1>2. ix.vectors = RunVectors
  BY Zenon DEF Index, RunVectors
<1>3. \A id \in 1 .. 3 : ix.row[id].at \in Int /\ ix.row[id].hash \in {"h1", "h2"}
  BY <1>1 DEF HashOf
<1>4. {ix.row[id].hash : id \in 1 .. 3} = {"h1", "h2"}
  <2>1. ix.row[1].hash = "h1" /\ ix.row[2].hash = "h1" /\ ix.row[3].hash = "h2"
    BY <1>1 DEF HashOf
  <2> QED
    BY <1>3, <2>1
<1>5. \A h \in {"h1", "h2"} : ix.cosine[h] \in Int
  BY <1>1
<1>6. ASSUME NEW s \in {<<1, 2, 3>>, <<3, 1, 2>>, <<2, 3, 1>>}
      PROVE  s \in Seq(1 .. 3) /\ NoRepeats(s) /\ ToSet(s) = 1 .. 3
  <2>1. s \in Seq(1 .. 3) /\ Len(s) = 3 /\ DOMAIN s = 1 .. 3
    <3>1. CASE s = <<1, 2, 3>>
      BY <3>1
    <3>2. CASE s = <<3, 1, 2>>
      BY <3>2
    <3>3. CASE s = <<2, 3, 1>>
      BY <3>3
    <3> QED
      BY <3>1, <3>2, <3>3
  <2>2. /\ s[1] \in 1 .. 3 /\ s[2] \in 1 .. 3 /\ s[3] \in 1 .. 3
        /\ s[1] # s[2] /\ s[2] # s[3] /\ s[1] # s[3]
    OBVIOUS
  <2>3. NoRepeats(s)
    <3>1. \A m, n \in 1 .. 3 : s[m] = s[n] => m = n
      BY <2>2
    <3> QED
      BY <2>1, <3>1 DEF NoRepeats
  <2>4. ToSet(s) = 1 .. 3
    BY <2>1, <2>2 DEF ToSet
  <2> QED
    BY <2>1, <2>3, <2>4
<1>7. \A list \in {"raw", "cards"} : ix.rank[list] \in {<<1, 2, 3>>, <<3, 1, 2>>, <<2, 3, 1>>}
  BY <1>1 DEF Orders
<1>8. IsFiniteSet(1 .. 3) /\ 1 .. 3 \subseteq Int
  <2>1. PICK n \in Nat : n = 3
    OBVIOUS
  <2>2. IsFiniteSet(1 .. n)
    BY UpTo
  <2>3. 1 .. 3 \subseteq Int
    OBVIOUS
  <2> QED
    BY <2>1, <2>2, <2>3
<1>9. \E S : ix.vectors \in Seq(S)
  <2>1. PICK v, w : ix.vectors = <<v, w>>
    BY <1>2 DEF RunVectors
  <2>2. <<v, w>> \in Seq({v, w})
    OBVIOUS
  <2> QED
    BY <2>1, <2>2
<1> QED
  BY <1>1, <1>2, <1>3, <1>4, <1>5, <1>6, <1>7, <1>8, <1>9 DEF RunIndex, IsIndex

LEMMA SearchesTypedInvariant == Spec => []SearchesTyped
<1>1. Init => SearchesTyped
  BY DEF Init, Idle, SearchesTyped
<1>2. SearchesTyped /\ [Next]_case => SearchesTyped'
  <2> SUFFICES ASSUME SearchesTyped, [Next]_case
               PROVE  SearchesTyped'
    OBVIOUS
  <2>1. CASE UNCHANGED case
    BY <2>1 DEF SearchesTyped
  <2>2. CASE SearchCase
    <3>1. PICK order \in Orders, query \in {{"w1"}, Words}, f \in Filters, k \in 1 .. 2,
               emb \in {{}, {Model}}, raw_only \in BOOLEAN :
            case' = [alg |-> "search", query |-> query, emb |-> emb,
                     ix |-> Index(case.text, case.card, case.states, order, <<0, 1, 1>>),
                     opts |-> [BaseOptions EXCEPT !.k = k, !.since = f.since, !.raw_only = raw_only,
                                                  !.path_prefix = f.path_prefix]]
      BY <2>2, ZenonT(60) DEF SearchCase
    <3>2. RunIndex(case'.ix)
      <4>1. case'.ix = Index(case.text, case.card, case.states, order, <<0, 1, 1>>)
        BY <3>1
      <4> QED
        BY <4>1, IndexIsIndex
    <3>3. IsFiniteSet(query) /\ query # {}
      <4>1. query = {"w1"} \/ query = {"w1", "w2"}
        BY <3>1 DEF Words
      <4>2. IsFiniteSet({"w1"})
        BY FS_Singleton
      <4>3. IsFiniteSet({"w1"} \cup {"w2"})
        BY <4>2, FS_AddElement
      <4>4. {"w1", "w2"} = {"w1"} \cup {"w2"}
        OBVIOUS
      <4> QED
        BY <4>1, <4>2, <4>3, <4>4
    <3>4. case'.query = query /\ case'.emb = emb
      BY <3>1
    <3>5. /\ case'.opts.k = k /\ case'.opts.rrf_k = 1 /\ case'.opts.raw_list_weight = 1
          /\ case'.opts.recency_half_life = 1
      BY <3>1 DEF BaseOptions
    <3>6. ~case'.opts.and_stopwords /\ case'.opts.vectors \in BOOLEAN
      BY <3>1 DEF BaseOptions
    <3>7. OptionFields \cup {"k"} \subseteq DOMAIN case'.opts
      BY <3>1 DEF BaseOptions, OptionFields
    <3> QED
      BY <3>2, <3>3, <3>4, <3>5, <3>6, <3>7 DEF SearchesTyped, IsOptions
  <2>3. CASE Next /\ ~SearchCase
    BY <2>3, StepsNameTheirAlgorithm DEF Next, SearchesTyped
  <2> QED
    BY <2>1, <2>2, <2>3
<1> QED
  BY <1>1, <1>2, PTL DEF Spec

\* The vectors of the run bring every section of its index.
LEMMA RunVectorsReachAll ==
  ASSUME NEW ix, RunIndex(ix), NEW opts, NEW emb \in {{}, {Model}}
  PROVE  ByVectors(ix, opts, emb) = IF emb = {} \/ ~opts.vectors \/ opts.raw_only THEN {} ELSE DOMAIN ix.row
<1> DEFINE e == CHOOSE x \in emb : TRUE
           Off == emb = {} \/ ~opts.vectors \/ opts.raw_only
<1>1. CASE Off
  BY <1>1, Zenon DEF ByVectors
<1>2. CASE ~Off
  <2>1. emb = {Model} /\ e = Model
    BY <1>2
  <2>2. e.model = "m" /\ e.dim = 2 /\ e.ready /\ e.works
    BY <2>1 DEF Model
  <2> HIDE DEF e
  <2>3. PICK v : v = ix.vectors
    OBVIOUS
  <2>4. PICK a, b : /\ a = [hash |-> "h1", model |-> "m", dim |-> 2, whole |-> TRUE]
                    /\ b = [hash |-> "h2", model |-> "m", dim |-> 2, whole |-> TRUE]
    OBVIOUS
  <2>5. v = <<a, b>>
    BY <2>3, <2>4 DEF RunIndex, RunVectors
  <2>6. /\ a.hash = "h1" /\ a.model = "m" /\ a.dim = 2 /\ a.whole
        /\ b.hash = "h2" /\ b.model = "m" /\ b.dim = 2 /\ b.whole
    BY <2>4
  <2>7. v \in Seq({a, b}) /\ Len(v) = 2 /\ DOMAIN v = 1 .. 2 /\ v[1] = a /\ v[2] = b
    BY <2>5
  <2>8. LiveHashes(ix) = {"h1", "h2"}
    BY DEF RunIndex, LiveHashes
  <2> DEFINE P == {i \in DOMAIN v : /\ v[i].model = e.model /\ v[i].hash \in LiveHashes(ix)
                                    /\ v[i].whole /\ v[i].dim > 0}
             sound == Kept(v, P)
             Q == {i \in DOMAIN sound : sound[i].dim = sound[1].dim}
  <2>9. vector_set(ix, e.model) = Kept(sound, Q)
    BY <2>3, Zenon DEF vector_set, Filter
  <2>10. P = 1 .. 2
    <3>1. \A i \in 1 .. 2 : (v[i] = a \/ v[i] = b)
      BY <2>7
    <3> QED
      BY <2>2, <2>6, <2>7, <2>8, <3>1
  <2> HIDE DEF P
  <2>11. sound \in Seq({a, b}) /\ Len(sound) = 2 /\ ToSet(sound) = {a, b}
    <3>1. P \subseteq 1 .. Len(v) /\ Cardinality(P) = 2
      <4>1. PICK n \in Nat : n = 2
        OBVIOUS
      <4>2. Cardinality(1 .. n) = n
        BY UpTo
      <4> QED
        BY <2>7, <2>10, <4>1, <4>2
    <3>2. sound \in Seq({a, b}) /\ Len(sound) = Cardinality(P) /\ ToSet(sound) = {v[i] : i \in P}
      <4>1. PICK T, t : T = {a, b} /\ t = sound
        OBVIOUS
      <4>2. v \in Seq(T) /\ P \subseteq 1 .. Len(v) /\ t = Kept(v, P)
        BY <2>7, <3>1, <4>1 DEF sound
      <4>3. t \in Seq(T) /\ Len(t) = Cardinality(P) /\ ToSet(t) = {v[i] : i \in P}
        BY ONLY <4>2, KeptElements
      <4> QED
        BY <4>1, <4>3
    <3> QED
      BY <2>7, <2>10, <3>1, <3>2
  <2> HIDE DEF sound
  <2>12. Q = 1 .. 2
    <3>1. \A i \in 1 .. 2 : sound[i] \in {a, b}
      BY <2>11
    <3>2. DOMAIN sound = 1 .. 2
      BY <2>11
    <3>3. \A i \in 1 .. 2 : sound[i].dim = 2
      BY <2>6, <3>1
    <3> QED
      BY <3>2, <3>3
  <2> HIDE DEF Q
  <2>13. PICK set : set = vector_set(ix, e.model)
    OBVIOUS
  <2>14. set \in Seq({a, b}) /\ Len(set) = 2 /\ ToSet(set) = {a, b}
    <3>1. Q \subseteq 1 .. Len(sound) /\ Cardinality(Q) = 2
      <4>1. PICK n \in Nat : n = 2
        OBVIOUS
      <4>2. Cardinality(1 .. n) = n
        BY UpTo
      <4> QED
        BY <2>11, <2>12, <4>1, <4>2
    <3>2. PICK T, s : T = {a, b} /\ s = sound
      OBVIOUS
    <3>5. s \in Seq(T) /\ Q \subseteq 1 .. Len(s) /\ set = Kept(s, Q)
      BY <2>9, <2>11, <2>13, <3>1, <3>2
    <3>6. set \in Seq(T) /\ Len(set) = Cardinality(Q) /\ ToSet(set) = {s[i] : i \in Q}
      BY ONLY <3>5, KeptElements
    <3>3. set \in Seq({a, b}) /\ Len(set) = Cardinality(Q) /\ ToSet(set) = {sound[i] : i \in Q}
      BY <3>2, <3>6
    <3>4. {sound[i] : i \in Q} = ToSet(sound)
      BY <2>11, <2>12 DEF ToSet
    <3> QED
      BY <2>11, <3>1, <3>3, <3>4
  <2>15. set # <<>> /\ set[1].dim = 2 /\ \A h \in {"h1", "h2"} : \E i \in DOMAIN set : set[i].hash = h
    <3>1. DOMAIN set = 1 .. 2 /\ set[1] \in {a, b}
      BY <2>14
    <3>2. (\E i \in DOMAIN set : set[i] = a) /\ (\E i \in DOMAIN set : set[i] = b)
      BY <2>14 DEF ToSet
    <3> QED
      BY <2>6, <2>14, <3>1, <3>2
  <2>16. VectorSections(ix, set) = DOMAIN ix.row
    <3>1. DOMAIN ix.row = 1 .. 3 /\ {ix.row[id].hash : id \in 1 .. 3} = {"h1", "h2"}
      BY DEF RunIndex
    <3>2. \A id \in DOMAIN ix.row : ix.row[id].hash \in {"h1", "h2"}
      BY <3>1
    <3> QED
      BY <2>15, <3>2 DEF VectorSections
  <2>17. ByVectors(ix, opts, emb) = VectorSections(ix, set)
    BY <1>2, <2>2, <2>13, <2>15 DEF ByVectors, e
  <2> QED
    BY <1>2, <2>16, <2>17
<1> QED
  BY <1>1, <1>2

\* Without the stop-word option, what the run calls relevant is what the answer should hold.
LEMMA RelevantIsWanted ==
  ASSUME NEW ix, RunIndex(ix), NEW query, NEW opts, ~opts.and_stopwords, NEW emb \in {{}, {Model}}
  PROVE  Relevant(ix, query, opts, emb) = Wanted(ix, query, opts, emb)
<1>1. ASSUME NEW expr PROVE AllMatching(ix, expr, opts) = Matching(ix, expr, opts)
  BY Zenon DEF AllMatching, Matching, InText, InCard
<1>2. AndForm(query, opts) = fts_escape(query) /\ OrForm(query) = or_expression(query)
  BY DEF AndForm, OrForm
<1>3. PICK e, f : e = fts_escape(query) /\ f = or_expression(query)
  OBVIOUS
<1>4. Relevant(ix, query, opts, emb)
        = (IF Passing(ix, AllMatching(ix, e, opts), opts) = {} /\ opts.or_fallback
           THEN Passing(ix, AllMatching(ix, f, opts), opts) ELSE Passing(ix, AllMatching(ix, e, opts), opts))
            \cup Passing(ix, IF emb = {} \/ ~opts.vectors \/ opts.raw_only THEN {} ELSE DOMAIN ix.row, opts)
  BY <1>3, Zenon DEF Relevant, Passing
<1>5. ByText(ix, query, opts)
        = IF Passing(ix, Matching(ix, e, opts), opts) = {} /\ opts.or_fallback
          THEN Passing(ix, Matching(ix, f, opts), opts) ELSE Passing(ix, Matching(ix, e, opts), opts)
  BY <1>2, <1>3 DEF ByText
<1>6. AllMatching(ix, e, opts) = Matching(ix, e, opts) /\ AllMatching(ix, f, opts) = Matching(ix, f, opts)
  BY <1>1
<1> QED
  BY <1>4, <1>5, <1>6, RunVectorsReachAll DEF Wanted

\* The property the run checks on its searches, from DeepListsMissNothing about all indexes.
THEOREM EligibleMatchesAnswered == Spec => []EligibleMatchesAnswer
<1>1. SearchesTyped => EligibleMatchesAnswer
  <2> SUFFICES ASSUME SearchesTyped, case.alg = "search", fetch_depth(case.opts) >= 3
               PROVE  LET hits == search_with(case.ix, case.query, case.opts, case.emb, 1)
                          ids  == {hits[i].section_id : i \in DOMAIN hits}
                          all  == Relevant(case.ix, case.query, case.opts, case.emb)
                      IN  ids \subseteq all /\ Cardinality(ids) = Min({case.opts.k, Cardinality(all)})
    BY DEF EligibleMatchesAnswer
  <2>1. PICK ix, query, opts, emb : ix = case.ix /\ query = case.query /\ opts = case.opts /\ emb = case.emb
    OBVIOUS
  <2>2. /\ RunIndex(ix) /\ IsOptions(opts) /\ ~opts.and_stopwords /\ IsFiniteSet(query) /\ query # {}
        /\ emb \in {{}, {Model}} /\ fetch_depth(opts) >= 3
    BY <2>1 DEF SearchesTyped
  <2>3. IsIndex(ix) /\ Cardinality(DOMAIN ix.row) <= fetch_depth(opts)
    <3>1. PICK n \in Nat : n = 3
      OBVIOUS
    <3>2. Cardinality(1 .. n) = n
      BY UpTo
    <3> QED
      BY <2>2, <3>1, <3>2 DEF RunIndex
  <2>10. PICK now \in Int : now = 1
    OBVIOUS
  <2>4. PICK t, C : t = search_with(ix, query, opts, emb, now) /\ C = CandidatesFor(ix, query, opts, emb)
    OBVIOUS
  <2>5. C = Wanted(ix, query, opts, emb)
    BY <2>2, <2>3, <2>4, DeepListsMissNothing
  <2>6. Relevant(ix, query, opts, emb) = C
    BY <2>2, <2>5, RelevantIsWanted
  <2>7. IdsFrom(t, C, opts.k)
    BY <2>2, <2>3, <2>4, <2>10, AnswerIds
  <2>9. IdsOf(t) \subseteq C
    BY <2>7 DEF IdsFrom
  <2>8. Cardinality(IdsOf(t)) = Min({opts.k, Cardinality(C)})
    BY <2>2, <2>7, SmallerOfTwo DEF IsOptions, IdsFrom
  <2> QED
    BY <2>1, <2>10, <2>4, <2>6, <2>8, <2>9, Zenon DEF IdsOf
<1> QED
  BY <1>1, SearchesTypedInvariant, PTL

\* The property the run checks on its searches, from WinnersAreShown about all of them.
THEOREM WinnersShown == Spec => []ExplainShowsWinners
<1>1. SearchesTyped => ExplainShowsWinners
  <2> SUFFICES ASSUME SearchesTyped, case.alg = "search"
               PROVE  ExplainShowsWinners
    BY DEF ExplainShowsWinners
  <2>1. PICK ix, query, opts, emb : ix = case.ix /\ query = case.query /\ opts = case.opts /\ emb = case.emb
    OBVIOUS
  <2>2. /\ IsIndex(ix) /\ IsOptions(opts) /\ opts.vectors \in BOOLEAN /\ query # {}
        /\ \A x, y \in emb : x = y
    BY <2>1 DEF SearchesTyped, RunIndex
  <2>3. PICK now \in Int : now = 1
    OBVIOUS
  <2>4. PICK e : e = explain(ix, query, opts, emb, now)
    OBVIOUS
  <2>5. \A i \in DOMAIN e.fused : ToldFrom(e, e.fused[i])
    BY <2>2, <2>3, <2>4, WinnersAreShown
  <2>6. WinnersTold(e)
    BY <2>5 DEF WinnersTold
  <2>7. WinnersTold(explain(case.ix, case.query, case.opts, case.emb, 1))
    BY ONLY <2>1, <2>3, <2>4, <2>6, Zenon
  <2> QED
    BY <2>7, Zenon DEF ExplainShowsWinners, WinnersTold, ToldFrom
<1> QED
  BY <1>1, SearchesTypedInvariant, PTL

RunRanking(ix, query, opts, emb) ==
  ShortIsWhole(FetchPages(FoundAt(ix, query, opts, emb, 1), opts.k), ix, Relevant(ix, query, opts, emb))

\* The property the run checks on its searches, from ShortRankingsAreWhole about all of them.
THEOREM ShortRankingsComplete == Spec => []ShortRankingIsComplete
<1>1. SearchesTyped => ShortRankingIsComplete
  <2>1. SUFFICES ASSUME SearchesTyped, case.alg = "search", ~Filtered(case.opts)
                 PROVE  RunRanking(case.ix, case.query, case.opts, case.emb)
    BY Zenon DEF ShortRankingIsComplete, RunRanking, ShortIsWhole, FoundAt
  <2>2. PICK ix, query, opts, emb : ix = case.ix /\ query = case.query /\ opts = case.opts /\ emb = case.emb
    OBVIOUS
  <2>3. /\ RunIndex(ix) /\ IsOptions(opts) /\ OptionFields \cup {"k"} \subseteq DOMAIN opts /\ ~opts.and_stopwords
        /\ IsFiniteSet(query) /\ query # {} /\ emb \in {{}, {Model}} /\ ~Filtered(opts)
    BY <2>1, <2>2 DEF SearchesTyped
  <2>4. IsIndex(ix) /\ opts.k \in Int
    BY <2>3 DEF RunIndex, IsOptions
  <2>5. PICK now \in Int, first \in Int : now = 1 /\ first = opts.k
    BY <2>4
  <2>6. ShortIsWhole(FetchPages(FoundAt(ix, query, opts, emb, now), first), ix, Wanted(ix, query, opts, emb))
    BY <2>3, <2>4, <2>5, ShortRankingsAreWhole
  <2>7. Relevant(ix, query, opts, emb) = Wanted(ix, query, opts, emb)
    BY <2>3, RelevantIsWanted
  <2>8. RunRanking(ix, query, opts, emb)
    BY <2>5, <2>6, <2>7, Zenon DEF RunRanking
  <2> QED
    BY <2>2, <2>8, Zenon
<1> QED
  BY <1>1, SearchesTypedInvariant, PTL

\* The datasets of the run are datasets, whose questions are all split.
DatasetsTyped ==
  case.alg = "dataset" =>
    /\ IsDataset(case.ds) /\ OwnIds(case.ds)
    /\ \A i \in DOMAIN case.ds.questions : /\ case.ds.questions[i].image_evidence \in BOOLEAN
                                           /\ case.ds.questions[i].id \in DOMAIN case.splits

LEMMA QuestionsTyped ==
  ASSUME NEW kind \in QuestionKinds, NEW n, NEW ref, NEW q, q = QuestionFor(n, kind, ref)
  PROVE  IsQuestion(q) /\ q.image_evidence \in BOOLEAN /\ q.id = n
<1>1. kind.image \in BOOLEAN /\ \E S : kind.labels \in Seq(S)
  <2>1. <<"a">> \in Seq({"a", "c"}) /\ <<"a", "c">> \in Seq({"a", "c"}) /\ <<>> \in Seq({"a", "c"})
    OBVIOUS
  <2>2. \/ kind = [image |-> FALSE, unmapped |-> <<>>, labels |-> <<"a">>]
        \/ kind = [image |-> TRUE, unmapped |-> <<>>, labels |-> <<"a">>]
        \/ kind = [image |-> FALSE, unmapped |-> <<"x">>, labels |-> <<"a">>]
        \/ kind = [image |-> FALSE, unmapped |-> <<>>, labels |-> <<"a", "c">>]
        \/ kind = [image |-> FALSE, unmapped |-> <<>>, labels |-> <<>>]
    BY Zenon DEF QuestionKinds
  <2>3. CASE kind = [image |-> FALSE, unmapped |-> <<>>, labels |-> <<"a">>]
    BY <2>1, <2>3
  <2>4. CASE kind = [image |-> TRUE, unmapped |-> <<>>, labels |-> <<"a">>]
    BY <2>1, <2>4
  <2>5. CASE kind = [image |-> FALSE, unmapped |-> <<"x">>, labels |-> <<"a">>]
    BY <2>1, <2>5
  <2>6. CASE kind = [image |-> FALSE, unmapped |-> <<>>, labels |-> <<"a", "c">>]
    BY <2>1, <2>6
  <2>7. CASE kind = [image |-> FALSE, unmapped |-> <<>>, labels |-> <<>>]
    BY <2>1, <2>7
  <2> QED
    BY <2>2, <2>3, <2>4, <2>5, <2>6, <2>7
<1>2. q = [id |-> n, query |-> {"w1"}, relevant |-> kind.labels, original_relevant |-> kind.labels,
           reference |-> ref, category |-> {}, anchors |-> <<>>, unmapped_qrels |-> kind.unmapped,
           image_evidence |-> kind.image, multimodal_judgment |-> FALSE]
  BY DEF QuestionFor
<1> QED
  BY <1>1, <1>2 DEF IsQuestion

LEMMA DatasetsTypedInvariant == Spec => []DatasetsTyped
<1>1. Init => DatasetsTyped
  BY DEF Init, Idle, DatasetsTyped
<1>2. DatasetsTyped /\ [Next]_case => DatasetsTyped'
  <2> SUFFICES ASSUME DatasetsTyped, [Next]_case
               PROVE  DatasetsTyped'
    OBVIOUS
  <2>1. CASE UNCHANGED case
    BY <2>1 DEF DatasetsTyped
  <2>2. CASE DatasetCase
    <3>1. PICK kinds \in [1 .. 4 -> QuestionKinds],
               extra \in {<<>>, <<[id |-> 1, page |-> "c"], [id |-> 4, page |-> "b"]>>},
               order \in {<<1, 2, 3, 4>>, <<4, 2, 3, 1>>}, split \in {{}, {"test"}, {"holdout"}} :
            case' = [alg |-> "dataset", extra |-> extra, splits |-> split_ids(order), split |-> split, order |-> order,
                     ds |-> [project |-> "p", pages |-> <<>>,
                             questions |-> [n \in 1 .. 4 |-> QuestionFor(n, kinds[n], IF n = 2 THEN {} ELSE {"r"})]]]
      BY <2>2 DEF DatasetCase
    <3> DEFINE qs == [n \in 1 .. 4 |-> QuestionFor(n, kinds[n], IF n = 2 THEN {} ELSE {"r"})]
    <3>2. \A n \in 1 .. 4 : /\ IsQuestion(qs[n]) /\ qs[n].image_evidence \in BOOLEAN
                            /\ qs[n].id = n
      <4>1. \A n \in 1 .. 4 : \E ref : qs[n] = QuestionFor(n, kinds[n], ref)
        OBVIOUS
      <4> HIDE DEF qs
      <4> QED
        BY <4>1, QuestionsTyped
    <3>3. DOMAIN qs = 1 .. 4 /\ \E S : qs \in Seq(S)
      <4>1. qs = [n \in 1 .. 4 |-> qs[n]]
        OBVIOUS
      <4> HIDE DEF qs
      <4> QED
        BY <4>1, ListOf
    <3>4. DOMAIN split_ids(order) = 1 .. 4
      <4>1. DOMAIN split_ids(order) = ToSet(order)
        BY DEF split_ids
      <4>2. DOMAIN order = 1 .. 4 /\ \A i \in 1 .. 4 : \E j \in 1 .. 4 : order[j] = i /\ order[i] \in 1 .. 4
        BY <3>1
      <4> QED
        BY <4>1, <4>2 DEF ToSet
    <3> HIDE DEF qs
    <3>5. /\ case'.ds = [project |-> "p", pages |-> <<>>, questions |-> qs]
          /\ case'.splits = split_ids(order)
      BY <3>1 DEF qs
    <3> QED
      BY <3>2, <3>3, <3>4, <3>5 DEF DatasetsTyped, IsDataset, OwnIds
  <2>3. CASE Next /\ ~DatasetCase
    BY <2>3, StepsNameTheirAlgorithm DEF Next, DatasetsTyped
  <2> QED
    BY <2>1, <2>2, <2>3
<1> QED
  BY <1>1, <1>2, PTL DEF Spec

\* The scorers of the run, on any dataset and split.
RunScores(ds, splits, split, open) ==
  Ids(evaluate(OneIndex, TwoPages, {}, ds, splits, split,
               [name |-> "raw", raw_only |-> TRUE, fetch |-> 1, include_holdout |-> open,
                only |-> {}, search |-> BaseOptions], 1))

RunArms(ds, splits, split, open) ==
  Ids(score_arm(TwoPages, ds, splits, split, <<>>, [name |-> "arm", include_holdout |-> open, only |-> {}]))

LEMMA ScoresAndArms ==
  ASSUME NEW ds, IsDataset(ds), NEW splits, NEW split, NEW h
  PROVE  /\ RunScores(ds, splits, split, h) = Allowed(IdsAt(ds, OpenAt(ds, DOMAIN TwoPages, splits, split)), splits, h)
         /\ RunArms(ds, splits, split, h) = Allowed(IdsAt(ds, OpenAt(ds, DOMAIN TwoPages, splits, split)), splits, h)
<1>1. PICK opts : opts = [name |-> "raw", raw_only |-> TRUE, fetch |-> 1, include_holdout |-> h,
                          only |-> {}, search |-> BaseOptions]
  OBVIOUS
<1>2. PICK how : how = [name |-> "arm", include_holdout |-> h, only |-> {}]
  OBVIOUS
<1>3. opts.include_holdout = h /\ opts.only = {} /\ how.include_holdout = h /\ how.only = {}
  BY <1>1, <1>2
<1>4. PICK none : none = <<>>
  OBVIOUS
<1>5. /\ Ids(evaluate(OneIndex, TwoPages, {}, ds, splits, split, opts, 1))
           = IdsAt(ds, ScoredAt(ds, DOMAIN TwoPages, splits, split, opts.include_holdout, opts.only))
      /\ Ids(score_arm(TwoPages, ds, splits, split, none, how))
           = IdsAt(ds, ScoredAt(ds, DOMAIN TwoPages, splits, split, how.include_holdout, how.only))
  BY EvaluateScores, ArmScores
<1>6. IdsAt(ds, ScoredAt(ds, DOMAIN TwoPages, splits, split, h, {}))
        = Allowed(IdsAt(ds, OpenAt(ds, DOMAIN TwoPages, splits, split)), splits, h)
  BY ScoredAreOpen
<1> QED
  BY <1>1, <1>2, <1>3, <1>4, <1>5, <1>6, Zenon DEF RunScores, RunArms

\* The property the run checks on its datasets, from OneSetOfQuestions about all of them.
THEOREM PopulationsAgree == Spec => []OnePopulation
<1>1. DatasetsTyped => OnePopulation
  <2> SUFFICES ASSUME DatasetsTyped, case.alg = "dataset"
               PROVE  LET pooled == add_labels(case.ds, case.extra).ds
                      IN  SamePopulation(pooled, Scores(pooled, TRUE), Scores(pooled, FALSE),
                                         sample(pooled, case.splits, case.split, DOMAIN TwoPages, 0, case.order))
    BY DEF OnePopulation
  <2>1. PICK ds, extra, splits, split, order :
          ds = case.ds /\ extra = case.extra /\ splits = case.splits /\ split = case.split /\ order = case.order
    OBVIOUS
  <2>2. /\ IsDataset(ds) /\ OwnIds(ds)
        /\ ImagesKnown(ds)
        /\ \A i \in DOMAIN ds.questions : ds.questions[i].id \in DOMAIN splits
    BY <2>1 DEF DatasetsTyped, ImagesKnown
  <2>3. PICK pooled : pooled = add_labels(ds, extra).ds
    OBVIOUS
  <2>4. PICK drawn : drawn = sample(pooled, splits, split, DOMAIN TwoPages, 0, order)
    OBVIOUS
  <2>5. PICK P : P = OpenAt(ds, DOMAIN TwoPages, splits, split)
    OBVIOUS
  <2>6. PICK open : open = IdsAt(ds, P)
    OBVIOUS
  <2>7. \A id \in open : SplitOf(splits, id) = splits[id]
    <3>1. open \subseteq DOMAIN splits
      BY <2>2, <2>5, <2>6 DEF IdsAt, OpenAt
    <3> QED
      BY <3>1 DEF SplitOf
  <2>8. /\ IsDataset(pooled) /\ DOMAIN pooled.questions = DOMAIN ds.questions
        /\ \A i \in DOMAIN ds.questions : pooled.questions[i].id = ds.questions[i].id
                                          /\ pooled.questions[i].image_evidence = ds.questions[i].image_evidence
        /\ OpenAt(pooled, DOMAIN TwoPages, splits, split) = P
    BY <2>2, <2>3, <2>5, PoolingKeepsOpen
  <2>9. IdsAt(pooled, P) = open
    BY <2>5, <2>6, <2>8 DEF IdsAt, OpenAt
  <2>10. ASSUME NEW d \in {ds, pooled}, NEW h
         PROVE  Scores(d, h) = Allowed(open, splits, h) /\ Arms(d, h) = Allowed(open, splits, h)
    <3>1. IsDataset(d) /\ IdsAt(d, OpenAt(d, DOMAIN TwoPages, splits, split)) = open
      BY <2>2, <2>5, <2>6, <2>8, <2>9
    <3>2. Scores(d, h) = RunScores(d, splits, split, h) /\ Arms(d, h) = RunArms(d, splits, split, h)
      BY <2>1, Zenon DEF Scores, Arms, RunScores, RunArms
    <3> QED
      BY <3>1, <3>2, ScoresAndArms
  <2>11. Cardinality(open) = Cardinality(P)
    BY <2>2, <2>5, <2>6, IdsCounted DEF OpenAt
  <2>12. /\ drawn.eligible = Cardinality(P)
         /\ Len(drawn.questions) + Len(drawn.without_reference) = drawn.eligible
         /\ split = {} => coverage(pooled, TwoPages).eligible = Cardinality(P)
    <3>1. PICK indexed : indexed = DOMAIN TwoPages
      OBVIOUS
    <3>2. IsDataset(pooled) /\ drawn = sample(pooled, splits, split, indexed, 0, order)
      BY <2>4, <2>8, <3>1
    <3>3. AddsUp(drawn, pooled, splits, split, indexed)
      BY ONLY <3>2, SampleCounts, Zenon
    <3>4. /\ drawn.eligible = Cardinality(OpenAt(pooled, indexed, splits, split))
          /\ Len(drawn.questions) + Len(drawn.without_reference) = drawn.eligible
      BY <3>3, Zenon DEF AddsUp
    <3>5. ImagesKnown(pooled)
      BY <2>2, <2>8 DEF ImagesKnown
    <3>6. split = {} => coverage(pooled, TwoPages).eligible = Cardinality(P)
      BY <2>8, <3>5, CoverageCountsOpen
    <3> QED
      BY <2>8, <3>1, <3>4, <3>6
  <2>13. Allowed(open, splits, TRUE) = open
    BY Zenon DEF Allowed
  <2>14. Allowed(open, splits, FALSE) = {id \in open : splits[id] # "holdout"}
    BY <2>7, Zenon DEF Allowed
  <2>15. /\ Scores(pooled, TRUE) = open /\ Arms(pooled, TRUE) = open /\ Scores(ds, TRUE) = open
         /\ Scores(pooled, FALSE) = Arms(pooled, FALSE)
         /\ Arms(pooled, FALSE) = {id \in open : splits[id] # "holdout"}
    BY <2>10, <2>13, <2>14, Zenon
  <2>16. SamePopulation(pooled, Scores(pooled, TRUE), Scores(pooled, FALSE), drawn)
    BY <2>1, <2>11, <2>12, <2>15, Zenon DEF SamePopulation
  <2> QED
    BY <2>1, <2>3, <2>4, <2>16, Zenon
<1> QED
  BY <1>1, DatasetsTypedInvariant, PTL

==============================================================================
