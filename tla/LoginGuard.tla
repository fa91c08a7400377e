----------------------------- MODULE LoginGuard -----------------------------
(***************************************************************************)
(* The login guard of logins.py: attempts from one address run one at a    *)
(* time and pay a delay that grows with each failure; requests that carry  *)
(* the same credential together are verified once.                         *)
(*                                                                         *)
(* One event loop runs every request, so the code between two awaits is a  *)
(* step.  A request may be cancelled, or run into the queue timeout, at    *)
(* any await, also when what it waits for has just been resolved.          *)
(*                                                                         *)
(* A delay is modelled by its exponent: `delay` is 0 when the exponent is  *)
(* 0 and never shrinks when it grows.                                      *)
(***************************************************************************)
EXTENDS Naturals, Sequences, FiniteSets

CONSTANTS
    Requests,      \* requests that may be in flight together
    Addresses,     \* client addresses
    Credentials,   \* a side of the split, a username and a password
    UserOf,        \* the account of each credential
    Right,         \* the credentials that are right
    Locks,         \* asyncio.Lock objects
    MaxWaiting,    \* max_waiting
    Grace,         \* address_grace
    MaxFailures,   \* failures past which a delay no longer grows
    MaxInterrupts, \* bound: how often clients go away
    None

Users == {UserOf[c] : c \in Credentials}

ASSUME GuardAssumption ==
    /\ IsFiniteSet(Requests) /\ IsFiniteSet(Addresses)
    /\ Right \subseteq Credentials
    /\ Cardinality(Locks) > Cardinality(Addresses) + Cardinality(Requests)
    /\ MaxWaiting \in Nat \ {0}
    /\ {Grace, MaxFailures, MaxInterrupts} \subseteq Nat
    /\ None \notin Requests \cup Addresses \cup Credentials \cup Locks

VARIABLES
    req,        \* each request
    flights,    \* _flights: the request that leads each credential's verification
    waiting,    \* _waiting
    locks,      \* _locks
    locked,     \* Lock._locked of each lock object
    waiters,    \* Lock._waiters of each lock object
    byAddress,  \* _failures under an address key
    byAccount,  \* _failures under an account key
    interrupts  \* how often clients went away

vars == <<req, flights, waiting, locks, locked, waiters, byAddress, byAccount, interrupts>>

Outcomes == {"ok", "denied", "throttled", "cancelled"}

States ==
    {"idle",
     "following",  \* awaits another request's flight
     "resolved",   \* that flight ended; not yet resumed
     "refused",    \* the line is full: reports it, outside the line
     "queued",     \* in line for the address's lock
     "granted",    \* its turn; not yet resumed
     "late",       \* cancelled or timed out in line; not yet resumed
     "revoked",    \* the same, when it was its turn already
     "expired",    \* timed out: reports it, still counted in the line
     "sleeping",   \* has the lock, serves its delay
     "checking",   \* has the lock, verifies the password
     "reporting"}  \* has the lock, the failure is recorded

NoRequest ==
    [pc |-> "idle", address |-> None, cred |-> None, leader |-> None,
     outcome |-> None, lock |-> None, paid |-> 0]

Attempts ==
    [pc : States, address : Addresses \cup {None}, cred : Credentials \cup {None},
     leader : Requests \cup {None}, outcome : Outcomes \cup {None},
     lock : Locks \cup {None}, paid : Nat]

TypeOK ==
    /\ req \in [Requests -> Attempts]
    /\ flights \in [Credentials -> Requests \cup {None}]
    /\ waiting \in [Addresses -> Nat]
    /\ locks \in [Addresses -> Locks \cup {None}]
    /\ locked \in [Locks -> BOOLEAN]
    /\ waiters \in [Locks -> Seq(Requests)]
    /\ byAddress \in [Addresses -> 0..MaxFailures]
    /\ byAccount \in [Addresses \X Users -> 0..MaxFailures]
    /\ interrupts \in 0..MaxInterrupts

Init ==
    /\ req = [r \in Requests |-> NoRequest]
    /\ flights = [c \in Credentials |-> None]
    /\ waiting = [a \in Addresses |-> 0]
    /\ locks = [a \in Addresses |-> None]
    /\ locked = [l \in Locks |-> FALSE]
    /\ waiters = [l \in Locks |-> <<>>]
    /\ byAddress = [a \in Addresses |-> 0]
    /\ byAccount = [k \in Addresses \X Users |-> 0]
    /\ interrupts = 0

-----------------------------------------------------------------------------
(***************************************************************************)
(* asyncio.Lock.                                                           *)
(***************************************************************************)

\* acquire() returns at once: the lock is free and nobody is in line, but
\* requests whose cancelled futures are still there.
AtOnce(l) ==
    /\ ~locked[l]
    /\ \A i \in 1..Len(waiters[l]) : req[waiters[l][i]].pc = "late"

\* _wake_up_first: the head of the line, unless it is already set to wake up.
Woken(line, rs) ==
    IF line # <<>> /\ rs[Head(line)].pc = "queued"
    THEN [rs EXCEPT ![Head(line)].pc = "granted"]
    ELSE rs

-----------------------------------------------------------------------------
(***************************************************************************)
(* The delay.                                                              *)
(***************************************************************************)
AccountKey(q) == <<q.address, UserOf[q.cred]>>

\* max(own, shared) of `delay`, at least 0.
Exponent(q) ==
    LET own == byAccount[AccountKey(q)]
        shared == byAddress[q.address]
    IN  IF shared > own + Grace THEN shared - Grace ELSE own

\* _guarded, up to its first await.
Guarded(q) == [q EXCEPT
    !.pc = IF Exponent(q) = 0 THEN "checking" ELSE "sleeping",
    !.paid = Exponent(q)]

-----------------------------------------------------------------------------
(***************************************************************************)
(* verify: lead, or follow the flight of the same credential.              *)
(***************************************************************************)

\* The request in state q becomes a leader and enters _attempt.
Lead(r, q) ==
    LET a == q.address
        fresh == CHOOSE l \in Locks :
                    /\ \A b \in Addresses : locks[b] # l
                    /\ \A s \in Requests : req[s].lock # l
        l == IF locks[a] = None THEN fresh ELSE locks[a]
    IN
    /\ flights' = [flights EXCEPT ![q.cred] = r]
    /\ \/ /\ waiting[a] >= MaxWaiting
          /\ req' = [req EXCEPT ![r] = [q EXCEPT !.pc = "refused"]]
          /\ UNCHANGED <<waiting, locks, locked, waiters>>
       \/ /\ waiting[a] < MaxWaiting
          /\ waiting' = [waiting EXCEPT ![a] = @ + 1]
          /\ locks' = [locks EXCEPT ![a] = l]
          /\ \/ /\ AtOnce(l)
                /\ locked' = [locked EXCEPT ![l] = TRUE]
                /\ req' = [req EXCEPT ![r] = Guarded([q EXCEPT !.lock = l])]
                /\ UNCHANGED waiters
             \/ /\ ~AtOnce(l)
                /\ waiters' = [waiters EXCEPT ![l] = Append(@, r)]
                /\ req' = [req EXCEPT ![r] = [q EXCEPT !.pc = "queued", !.lock = l]]
                /\ UNCHANGED locked
    /\ UNCHANGED <<byAddress, byAccount, interrupts>>

Follow(r, q) ==
    /\ req' = [req EXCEPT ![r] = [q EXCEPT !.pc = "following", !.leader = flights[q.cred]]]
    /\ UNCHANGED <<flights, waiting, locks, locked, waiters, byAddress, byAccount, interrupts>>

\* Mutant of Verify: nobody follows.
VerifyAlone(r, q) == Lead(r, q)

Verify(r, q) ==
    \/ flights[q.cred] = None /\ Lead(r, q)
    \/ flights[q.cred] # None /\ Follow(r, q)

Arrive(r, a, c) ==
    /\ req[r].pc = "idle"
    /\ Verify(r, [NoRequest EXCEPT !.address = a, !.cred = c])

\* A follower resumes: it answers as its leader did, or, when the leader went
\* away, verifies for itself.
ResumeFollower(r) ==
    /\ req[r].pc = "resolved"
    /\ \/ /\ req[r].outcome = "cancelled"
          /\ Verify(r, [NoRequest EXCEPT !.address = req[r].address, !.cred = req[r].cred])
       \/ /\ req[r].outcome # "cancelled"
          /\ req' = [req EXCEPT ![r] = NoRequest]
          /\ UNCHANGED <<flights, waiting, locks, locked, waiters, byAddress, byAccount,
                         interrupts>>

-----------------------------------------------------------------------------
(***************************************************************************)
(* A leader's way through _attempt.                                        *)
(***************************************************************************)
\* A sequence without its i-th element.
Dropping(s, i) == [j \in 1..(Len(s) - 1) |-> s[IF j < i THEN j ELSE j + 1]]

\* self._waiters.remove(fut)
Left(r) ==
    LET line == waiters[req[r].lock]
    IN  Dropping(line, CHOOSE i \in 1..Len(line) : line[i] = r)

\* Mutant of Resolved: a leader that goes away leaves its followers waiting.
ResolvedUnlessCancelled(r, o, rs) ==
    [s \in Requests |->
        IF s = r THEN NoRequest
        ELSE IF rs[s].pc = "following" /\ rs[s].leader = r /\ o # "cancelled"
             THEN [rs[s] EXCEPT !.pc = "resolved", !.outcome = o]
             ELSE rs[s]]

\* r ends with outcome o, in the state rs of the others: its flight is resolved
\* and every follower gets the outcome.
Resolved(r, o, rs) ==
    [s \in Requests |->
        IF s = r THEN NoRequest
        ELSE IF rs[s].pc = "following" /\ rs[s].leader = r
             THEN [rs[s] EXCEPT !.pc = "resolved", !.outcome = o]
             ELSE rs[s]]

\* r leaves the line of its address; the last one out takes the lock with it.
LeaveLine(r) ==
    LET a == req[r].address IN
    /\ waiting' = [waiting EXCEPT ![a] = @ - 1]
    /\ locks' = IF waiting[a] = 1 THEN [locks EXCEPT ![a] = None] ELSE locks

EndFlight(r) == flights' = [flights EXCEPT ![req[r].cred] = None]

\* The end of a request that has the lock: release, leave, resolve.
EndHolding(r, o) ==
    LET l == req[r].lock IN
    /\ locked' = [locked EXCEPT ![l] = FALSE]
    /\ req' = Resolved(r, o, Woken(waiters[l], req))
    /\ LeaveLine(r)
    /\ EndFlight(r)
    /\ UNCHANGED waiters

\* Mutant of ResumeGranted: the delay as it was before the wait in line.
ResumeGrantedStale(r) ==
    LET l == req[r].lock IN
    /\ req[r].pc = "granted"
    /\ waiters' = [waiters EXCEPT ![l] = Left(r)]
    /\ locked' = [locked EXCEPT ![l] = TRUE]
    /\ req' = [req EXCEPT ![r].pc = "checking"]
    /\ UNCHANGED <<flights, waiting, locks, byAddress, byAccount, interrupts>>

\* Its turn: the lock is taken and the delay computed.
ResumeGranted(r) ==
    LET l == req[r].lock IN
    /\ req[r].pc = "granted"
    /\ waiters' = [waiters EXCEPT ![l] = Left(r)]
    /\ locked' = [locked EXCEPT ![l] = TRUE]
    /\ req' = [req EXCEPT ![r] = Guarded(req[r])]
    /\ UNCHANGED <<flights, waiting, locks, byAddress, byAccount, interrupts>>

\* Mutant of ResumeLate: a turn given to a request that left is lost.
ResumeLateKeepsTurn(r) ==
    LET l == req[r].lock IN
    /\ req[r].pc \in {"late", "revoked"}
    /\ waiters' = [waiters EXCEPT ![l] = Left(r)]
    /\ \/ /\ req[r].outcome = "cancelled"
          /\ req' = Resolved(r, "cancelled", req)
          /\ LeaveLine(r)
          /\ EndFlight(r)
       \/ /\ req[r].outcome = "throttled"
          /\ req' = [req EXCEPT ![r].pc = "expired"]
          /\ UNCHANGED <<flights, waiting, locks>>
    /\ UNCHANGED <<locked, byAddress, byAccount, interrupts>>

\* The wait ended before the lock was taken: acquire() passes a turn it was
\* given on.  A timeout is then reported; a cancelled request ends.
ResumeLate(r) ==
    LET l == req[r].lock
        rs == IF locked[l] THEN req ELSE Woken(Left(r), req)
    IN
    /\ req[r].pc \in {"late", "revoked"}
    /\ waiters' = [waiters EXCEPT ![l] = Left(r)]
    /\ \/ /\ req[r].outcome = "cancelled"
          /\ req' = Resolved(r, "cancelled", rs)
          /\ LeaveLine(r)
          /\ EndFlight(r)
       \/ /\ req[r].outcome = "throttled"
          /\ req' = [rs EXCEPT ![r].pc = "expired"]
          /\ UNCHANGED <<flights, waiting, locks>>
    /\ UNCHANGED <<locked, byAddress, byAccount, interrupts>>

\* The observer heard of a refusal: Throttled is raised.
EndExpired(r, o) ==
    /\ req' = Resolved(r, o, req)
    /\ LeaveLine(r)
    /\ EndFlight(r)
    /\ UNCHANGED <<locked, waiters>>

EndRefused(r, o) ==
    /\ req' = Resolved(r, o, req)
    /\ EndFlight(r)
    /\ UNCHANGED <<waiting, locks, locked, waiters>>

Throttle(r) ==
    /\ \/ req[r].pc = "expired" /\ EndExpired(r, "throttled")
       \/ req[r].pc = "refused" /\ EndRefused(r, "throttled")
    /\ UNCHANGED <<byAddress, byAccount, interrupts>>

\* The delay is served.
Wake(r) ==
    /\ req[r].pc = "sleeping"
    /\ req' = [req EXCEPT ![r].pc = "checking"]
    /\ UNCHANGED <<flights, waiting, locks, locked, waiters, byAddress, byAccount, interrupts>>

\* The password is right: only the account's own count clears.
CheckPasses(r) ==
    /\ req[r].pc = "checking"
    /\ req[r].cred \in Right
    /\ byAccount' = [byAccount EXCEPT ![AccountKey(req[r])] = 0]
    /\ EndHolding(r, "ok")
    /\ UNCHANGED <<byAddress, interrupts>>

\* The password gate is busy: the check raises Throttled.
CheckBusy(r) ==
    /\ req[r].pc = "checking"
    /\ EndHolding(r, "throttled")
    /\ UNCHANGED <<byAddress, byAccount, interrupts>>

Counted(n) == IF n < MaxFailures THEN n + 1 ELSE n

\* The password is wrong: _record_failure, then the observer is told.
CheckFails(r) ==
    /\ req[r].pc = "checking"
    /\ req[r].cred \notin Right
    /\ byAddress' = [byAddress EXCEPT ![req[r].address] = Counted(@)]
    /\ byAccount' = [byAccount EXCEPT ![AccountKey(req[r])] = Counted(@)]
    /\ req' = [req EXCEPT ![r].pc = "reporting"]
    /\ UNCHANGED <<flights, waiting, locks, locked, waiters, interrupts>>

Reported(r) ==
    /\ req[r].pc = "reporting"
    /\ EndHolding(r, "denied")
    /\ UNCHANGED <<byAddress, byAccount, interrupts>>

-----------------------------------------------------------------------------
\* The wait in line ends early with outcome o: the timeout, or task.cancel().
EndWait(r, o) ==
    /\ req[r].pc \in {"queued", "granted", "late", "revoked"}
    /\ req' = [req EXCEPT ![r].outcome = o,
          ![r].pc = CASE @ = "queued" -> "late" [] @ = "granted" -> "revoked"
                      [] OTHER -> @]
    /\ UNCHANGED <<flights, waiting, locks, locked, waiters>>

\* queue_timeout has passed.
TimeOut(r) ==
    /\ req[r].pc \in {"queued", "granted"}
    /\ EndWait(r, "throttled")
    /\ UNCHANGED <<byAddress, byAccount, interrupts>>

\* The client goes away: task.cancel().
Interrupt(r) ==
    /\ interrupts < MaxInterrupts
    /\ interrupts' = interrupts + 1
    /\ \/ EndWait(r, "cancelled")
       \/ req[r].pc \in {"sleeping", "checking", "reporting"} /\ EndHolding(r, "cancelled")
       \/ req[r].pc = "expired" /\ EndExpired(r, "cancelled")
       \/ req[r].pc = "refused" /\ EndRefused(r, "cancelled")
       \/ /\ req[r].pc \in {"following", "resolved"}
          /\ req' = [req EXCEPT ![r] = NoRequest]
          /\ UNCHANGED <<flights, waiting, locks, locked, waiters>>
    /\ UNCHANGED <<byAddress, byAccount>>

\* A quiet period has passed, or the entry was evicted at max_keys.
ForgetAddress(a) ==
    /\ byAddress[a] > 0
    /\ byAddress' = [byAddress EXCEPT ![a] = 0]
    /\ UNCHANGED <<req, flights, waiting, locks, locked, waiters, byAccount, interrupts>>

ForgetAccount(k) ==
    /\ byAccount[k] > 0
    /\ byAccount' = [byAccount EXCEPT ![k] = 0]
    /\ UNCHANGED <<req, flights, waiting, locks, locked, waiters, byAddress, interrupts>>

Step(r) ==
    \/ ResumeFollower(r)
    \/ ResumeGranted(r)
    \/ ResumeLate(r)
    \/ Throttle(r)
    \/ Wake(r)
    \/ CheckPasses(r)
    \/ CheckBusy(r)
    \/ CheckFails(r)
    \/ Reported(r)

Next ==
    \/ \E r \in Requests :
          \/ \E a \in Addresses, c \in Credentials : Arrive(r, a, c)
          \/ Step(r)
          \/ TimeOut(r)
          \/ Interrupt(r)
    \/ \E a \in Addresses : ForgetAddress(a)
    \/ \E k \in Addresses \X Users : ForgetAccount(k)

\* A resolved await resumes, sleeps and timeouts end, and a check is bounded by
\* the password gate's own timeout and one Argon2 hash.
Fairness == \A r \in Requests : WF_vars(Step(r)) /\ WF_vars(TimeOut(r))

Spec == Init /\ [][Next]_vars

FairSpec == Spec /\ Fairness

-----------------------------------------------------------------------------
(***************************************************************************)
(* Properties.                                                             *)
(***************************************************************************)
Holding(r) == req[r].pc \in {"sleeping", "checking", "reporting"}

\* The delay an attempt serves is not out of date when its password is checked:
\* no failure it should have waited for was recorded in the meantime.
DelayPaid ==
    \A r \in Requests :
        req[r].pc \in {"sleeping", "checking"} => Exponent(req[r]) <= req[r].paid

\* "a burst of identical credentials is verified once": at most one request that
\* carries a credential is past the flight, and it is the one the table names.
VerifiedOnce ==
    \A r \in Requests :
        req[r].pc \notin {"idle", "following", "resolved"} => flights[req[r].cred] = r

InLine(a) ==
    {r \in Requests : /\ req[r].address = a
                      /\ req[r].pc \notin {"idle", "following", "resolved", "refused"}}

\* "Attempts from one address run one at a time": also while the address's lock
\* is dropped and made anew, and when a turn is cancelled as it is given.
OneAtATime ==
    \A r, s \in Requests :
        Holding(r) /\ Holding(s) /\ req[r].address = req[s].address => r = s

\* The line of an address is counted exactly, within its limit; its lock exists
\* exactly while somebody is in line, and everybody in line uses that lock.
LineAccounted ==
    \A a \in Addresses :
        /\ waiting[a] = Cardinality(InLine(a))
        /\ waiting[a] <= MaxWaiting
        /\ (locks[a] = None) <=> (waiting[a] = 0)
        /\ \A r \in InLine(a) : req[r].lock = locks[a]

\* No lost turn: a lock that is free with a line has somebody on the way to it.
TurnPassedOn ==
    \A l \in Locks :
        ~locked[l] /\ waiters[l] # <<>> =>
            req[Head(waiters[l])].pc \in {"granted", "revoked", "late"}

\* The line of an address is sound (LoginGuard._attempt): one attempt at a time
\* over one lock, everybody in it counted, and no turn lost, whoever times out or
\* goes away at whatever await.
LineSound == OneAtATime /\ LineAccounted /\ TurnPassedOn

\* Every request is answered, whoever led its verification, when clients go away
\* only finitely often.
Answered == \A r \in Requests : req[r].pc # "idle" ~> req[r].pc = "idle"
=============================================================================
