---------------------------- MODULE MCLoginGuard ----------------------------
(***************************************************************************)
(* An address, and two passwords for one account, one of them wrong.       *)
(***************************************************************************)
EXTENDS LoginGuard, TLC

CONSTANTS r1, r2, r3, home, good, bad, ann

OneUser == good :> ann @@ bad :> ann
=============================================================================
