-------------------------- MODULE MCAuthenticated --------------------------
(***************************************************************************)
(* `authenticated` in http_api.py: a request is identified, by auth.py,    *)
(* and then taken from the budget of its account, by admission.py.  The    *)
(* two share no state, so that a step of one is the same whatever the      *)
(* other is at: each runs here while the other is as it was at the start.  *)
(***************************************************************************)
EXTENDS MCAccounts, RequestBudget

CONSTANTS cid

\* Bounds the instance: a second change is at work only beside the first one, and while
\* nobody signs in and nothing is remembered.
SecondChangeAlone ==
    /\ adm[a2] = NoChange /\ adm'[a2] # NoChange => adm[a1] # NoChange
    /\ adm'[a2] # NoChange => cache' = <<>> /\ \A r \in Requests : req'[r] = NoRequest

AuthenticatedInit == Init /\ BudgetInit

\* A server that only its bootstrap administrator has an account on.
Unused == Init /\ \A u \in Users \ {Root} : row[u] = None

AuthenticatedNext ==
    \/ BudgetInit /\ UNCHANGED budgetVars /\ Next
    \/ Unused /\ UNCHANGED vars /\ BudgetNext

AuthenticatedSpec ==
    AuthenticatedInit /\ [][AuthenticatedNext]_<<vars, budgetVars>>
=============================================================================
