----------------------------- MODULE MCReading -----------------------------
(***************************************************************************)
(* Two volumes, each in a version of two pages and a shorter one; room for *)
(* one open archive and one file in each cache.                            *)
(***************************************************************************)
EXTENDS Reading, TLC

CONSTANTS v1, v2, reader, other

MCPageCount == (1 :> 2) @@ (2 :> 1)

Symmetry == Permutations({v1, v2}) \cup Permutations({reader, other})
=============================================================================
