----------------------------- MODULE AutoMatch -----------------------------
(***************************************************************************)
(* What an auto-match job promises: one job runs at a time; every series   *)
(* it was created for gets exactly one outcome, counted once; the job is   *)
(* complete when none is left, and a completed job never changes.          *)
(* Nothing is said about processes, tasks or restarts: whatever happens to *)
(* them, this is all that an administrator can see.                        *)
(***************************************************************************)
EXTENDS Naturals

CONSTANTS Jobs, Series

VARIABLES
    status,  \* of each job: "none", "running" or "complete"
    left,    \* the series a job still has to settle
    tally    \* how many series of a job ended which way

jobVars == <<status, left, tally>>

Results == {"linked", "review", "failed"}

Init ==
    /\ status = [j \in Jobs |-> "none"]
    /\ left = [j \in Jobs |-> {}]
    /\ tally = [j \in Jobs |-> [r \in Results |-> 0]]

Create(j, ss) ==
    /\ \A k \in Jobs : status[k] # "running"
    /\ status[j] = "none"
    /\ status' = [status EXCEPT ![j] = "running"]
    /\ left' = [left EXCEPT ![j] = ss]
    /\ UNCHANGED tally

Settle(j, s, r) ==
    /\ status[j] = "running" /\ s \in left[j]
    /\ left' = [left EXCEPT ![j] = @ \ {s}]
    /\ tally' = [tally EXCEPT ![j][r] = @ + 1]
    /\ UNCHANGED status

Complete(j) ==
    /\ status[j] = "running" /\ left[j] = {}
    /\ status' = [status EXCEPT ![j] = "complete"]
    /\ UNCHANGED <<left, tally>>

Next ==
    \E j \in Jobs :
        \/ \E ss \in (SUBSET Series) \ {{}} : Create(j, ss)
        \/ \E s \in Series, r \in Results : Settle(j, s, r)
        \/ Complete(j)

Spec == Init /\ [][Next]_jobVars
=============================================================================
