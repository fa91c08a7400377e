----------------------------- MODULE Placement -----------------------------
(***************************************************************************)
(* What staging and placing a volume promises, with every call that        *)
(* matters done at one stroke: a volume is placed whole and as it was read *)
(* from staging, under a name that was free; it keeps the name once the    *)
(* name is on disk; and what the agent was told of stays staged until it   *)
(* is on disk or somebody withdraws it.  Only a loss of power takes        *)
(* anything else: what is staged, and a directory that is not firm.        *)
(***************************************************************************)
CONSTANTS Ids, Names, PowerLoss, None

VARIABLES
    staged,   \* of each upload: "absent", "whole", "torn", or "unlinked" again
    owed,     \* the uploads the agent was told of and nobody withdrew
    copying,  \* what commits have read from staging
    shelf,    \* what has each name: an upload, what was there before, or None
    kept,     \* the names that are on disk
    firm,     \* whether the directory that has them is on disk
    placed,   \* the uploads whose commit was answered
    exposed,  \* those answered while the directory was not firm
    struck    \* those owed that a loss of power took

placementVars == <<staged, owed, copying, shelf, kept, firm, placed, exposed, struck>>

\* A file made of an upload; its bytes are on disk.
Volume(i, bytes) == [id |-> i, bytes |-> bytes, safe |-> TRUE]

Init ==
    /\ staged = [i \in Ids |-> "absent"]
    /\ owed = {} /\ copying = {} /\ placed = {} /\ exposed = {} /\ struck = {}
    /\ shelf \in [Names -> {Volume(None, "whole"), None}]
    /\ kept = {n \in Names : shelf[n] # None}
    /\ firm \in BOOLEAN

Settled(i) == \E n \in kept : shelf[n] # None /\ shelf[n].id = i

Stage(i) ==
    /\ staged[i] = "absent" /\ i \notin owed \cup placed
    /\ staged' = [staged EXCEPT ![i] = "whole"]
    /\ UNCHANGED <<owed, copying, shelf, kept, firm, placed, exposed, struck>>

Tell(i) ==
    /\ staged[i] \in {"whole", "torn"}
    /\ owed' = owed \cup {i}
    /\ UNCHANGED <<staged, copying, shelf, kept, firm, placed, exposed, struck>>

Read(i) ==
    /\ staged[i] \in {"whole", "torn"}
    /\ copying' = copying \cup {Volume(i, staged[i])}
    /\ UNCHANGED <<staged, owed, shelf, kept, firm, placed, exposed, struck>>

\* Commits end without effect, by themselves or with the process.
GiveUp ==
    /\ copying' \subseteq copying
    /\ UNCHANGED <<staged, owed, shelf, kept, firm, placed, exposed, struck>>

Place(n) ==
    /\ shelf[n] = None
    /\ \E v \in copying : shelf' = [shelf EXCEPT ![n] = v]
    /\ copying' \subseteq copying
    /\ UNCHANGED <<staged, owed, kept, firm, placed, exposed, struck>>

Settle ==
    /\ kept' = kept \cup {n \in Names : shelf[n] # None}
    /\ UNCHANGED <<staged, owed, copying, shelf, firm, placed, exposed, struck>>

Confirm(i) ==
    /\ Settled(i)
    /\ placed' = placed \cup {i}
    /\ exposed' = exposed \cup (IF firm THEN {} ELSE {i})
    /\ UNCHANGED <<staged, owed, copying, shelf, kept, firm, struck>>

\* The staged archive goes: it is on disk elsewhere, or nobody waits for it.
Clear(i) ==
    /\ i \notin owed \ struck \/ Settled(i)
    /\ staged' = [staged EXCEPT ![i] = "unlinked"]
    /\ UNCHANGED <<owed, copying, shelf, kept, firm, placed, exposed, struck>>

Withdraw(i) ==
    /\ \/ staged' = staged
       \/ staged' = [staged EXCEPT ![i] = "unlinked"]
    /\ owed' = owed \ {i}
    /\ UNCHANGED <<copying, shelf, kept, firm, placed, exposed, struck>>

\* What is staged, or was, may go, come back, or come back torn.  Names stay if
\* they were on disk, and all go with a directory that was not firm.
LosePower ==
    /\ PowerLoss
    /\ staged' \in [Ids -> {"absent", "whole", "torn"}]
    /\ \A i \in Ids : staged[i] = "absent" => staged'[i] = "absent"
    /\ shelf' \in [Names -> {shelf[n] : n \in Names} \cup {None}]
    /\ \A n \in Names : shelf'[n] \in {shelf[n], None}
    /\ kept' = {n \in Names : shelf'[n] # None}
    /\ firm' \in BOOLEAN
    /\ kept \subseteq kept' \/ (~firm /\ kept' = {})
    /\ firm => firm'
    /\ copying' = {}
    /\ struck \subseteq struck' /\ struck' \subseteq struck \cup owed
    /\ \A i \in owed \ struck' : Settled(i)' \/ staged'[i] # "absent"
    /\ \A i \in struck' \ struck : ~Settled(i)'
    /\ UNCHANGED <<owed, placed, exposed>>

Next ==
    \/ \E i \in Ids : Stage(i) \/ Tell(i) \/ Read(i) \/ Confirm(i) \/ Clear(i) \/ Withdraw(i)
    \/ \E n \in Names : Place(n)
    \/ GiveUp \/ Settle \/ LosePower

Spec == Init /\ [][Next]_placementVars
=============================================================================
