----------------------------- MODULE MCAccounts -----------------------------
(* Small instances of Accounts for TLC. *)
EXTENDS Accounts, TLC

CONSTANTS ann, bob, p1, p2, r1, r2, a1, a2, s1

\* Passwords are interchangeable; the bootstrap administrator is not.
PasswordSymmetry == Permutations({p1, p2})
=============================================================================
