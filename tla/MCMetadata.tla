----------------------------- MODULE MCMetadata -----------------------------
(***************************************************************************)
(* Two series and two jobs; titles score 0 (no match), 2 or 3 of 3, and    *)
(* two points apart are enough.                                            *)
(***************************************************************************)
EXTENDS Metadata

CONSTANTS j1, j2, s1, s2, p1, p2, e1, e2

\* The places of requests are alike: the second one is taken only while the first one is.
FirstFree == edit[e1].pc = "idle" /\ edit[e2].pc = "idle" => edit'[e2].pc = "idle"
=============================================================================
