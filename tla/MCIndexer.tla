----------------------------- MODULE MCIndexer -----------------------------
(***************************************************************************)
(* Indexer on two paths and two contents of different sizes.               *)
(***************************************************************************)
EXTENDS Indexer

CONSTANTS p1, p2, short, long

MCSizeOf == [c \in {short, long} |-> IF c = short THEN 1 ELSE 2]

=============================================================================
