------------------------------ MODULE MCStore ------------------------------
(***************************************************************************)
(* Store and its refinement on two paths, four contents over two           *)
(* hashes (one content repeats a hash, two contents have the same          *)
(* sections), and just enough rowids for every path to be live at once.    *)
(***************************************************************************)
EXTENDS StoreRefinement, TLC

CONSTANTS d1, d2, h1, h2, k1, k2

MCContents == {"one", "both", "twice", "both_again"}

MCSectionsOf ==
  [c \in MCContents |-> CASE c = "one"   -> <<h1>>
                          [] c = "twice" -> <<h2, h2>>
                          [] OTHER       -> <<h1, h2>>]

MCRowids == 1..4

Symmetry == Permutations({d1, d2}) \cup Permutations({k1, k2})

=============================================================================
