----------------------------- MODULE MCFairGate -----------------------------
(* Small instances of FairGate for TLC. *)
EXTENDS FairGate, TLC

CONSTANTS a1, a2, b1, c1, d1, a, b, c, d

\* Two requests of one account, one of each of three others: with two slots,
\* the fewest accounts among which one can be overtaken for ever.
UnevenTasks == {a1, a2, b1, c1, d1}
FourKeys == {a, b, c, d}
UnevenKeyOf == a1 :> a @@ a2 :> a @@ b1 :> b @@ c1 :> c @@ d1 :> d
=============================================================================
