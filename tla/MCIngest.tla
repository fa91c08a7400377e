------------------------------ MODULE MCIngest ------------------------------
(* Small instances of Ingest for TLC. *)
EXTENDS Ingest, TLC

CONSTANTS i1, i2, n1, n2, j1, j2, w1

Symmetry == Permutations({i1, i2}) \cup Permutations({n1, n2}) \cup Permutations({j1, j2})
=============================================================================
