------------------------------- MODULE Orders -------------------------------
(***************************************************************************)
(* Sorting and filtering, as the other modules use them: the code's        *)
(* sort_by with a total order, retain and filter, and truncate. An order   *)
(* is a set of pairs; an element's place is told by the elements before it.*)
(***************************************************************************)
EXTENDS Integers, Sequences, FiniteSets

\* The pairs of S of which Before holds.
Pairs(S, Before(_, _)) == {p \in S \X S : Before(p[1], p[2])}

\* The elements of S in the strict total order `before`.
InOrder(S, before) ==
  [n \in 1 .. Cardinality(S) |->
     CHOOSE x \in S : Cardinality({y \in S : <<y, x>> \in before}) = n - 1]

\* The elements of s at the positions of P, in their order in s.
Kept(s, P) ==
  LET places == InOrder(P, Pairs(P, LAMBDA i, j : i < j))
  IN  [n \in 1 .. Cardinality(P) |-> s[places[n]]]

\* The elements of s that pass the test, in their order in s.
Filter(s, Test(_)) == Kept(s, {i \in DOMAIN s : Test(s[i])})

\* The first of each group of equal elements.
Distinct(s) == Kept(s, {i \in DOMAIN s : \A j \in 1 .. i - 1 : s[j] # s[i]})

Take(s, k) == SubSeq(s, 1, IF k < Len(s) THEN k ELSE Len(s))

==============================================================================
