------------------------------ MODULE FairGate ------------------------------
(***************************************************************************)
(* The admission gate of admission.py: bounded concurrency, shared between *)
(* accounts, where a request waits on the asyncio event loop and not in a  *)
(* worker thread.                                                          *)
(*                                                                         *)
(* A task is one request inside `slot(key)`.  The event loop runs one      *)
(* callback at a time, so the code between two awaits is atomic.  The only *)
(* loop inside such a stretch is `_dispatch`; its iterations are steps of  *)
(* their own, taken while `pc` is "dispatch", when nothing else may run.   *)
(*                                                                         *)
(* The hard part is the gap between an asyncio future being resolved and   *)
(* its task being resumed: a timeout or a client disconnect may fall in it *)
(* ("revoked"), and a release may meet a future that is already cancelled  *)
(* but whose task has not run yet ("cancelled").                           *)
(***************************************************************************)
EXTENDS Integers, Sequences, FiniteSets

CONSTANTS
    Tasks,        \* the requests that may be in flight
    Keys,         \* the accounts
    KeyOf,        \* the account of each request
    Capacity,     \* GateLimits.capacity
    PerKey,       \* GateLimits.per_key
    QueuePerKey,  \* GateLimits.queue_per_key
    NoKey         \* no account: `_dispatch` was called by acquire

ASSUME GateAssumption ==
    /\ IsFiniteSet(Tasks)
    /\ KeyOf \in [Tasks -> Keys]
    /\ Capacity \in Nat \ {0}
    /\ PerKey \in Nat \ {0}
    /\ QueuePerKey \in Nat \ {0}
    /\ NoKey \notin Keys

VARIABLES
    st,       \* where each request is
    inUse,    \* _in_use
    held,     \* _held; an account that is not in the dict has 0
    waiting,  \* _waiting; an account that is not in the dict has <<>>
    order,    \* the insertion order of the dict _waiting
    served,   \* _last_served: its accounts, the least recently served first
    pc,       \* "dispatch" inside `_dispatch`, else "ready"
    leaving   \* the account `release` looks at after `_dispatch`, or NoKey

vars == <<st, inUse, held, waiting, order, served, pc, leaving>>

TaskStates == {"idle", "queued", "granted", "revoked", "cancelled", "holding"}

TypeOK ==
    /\ st \in [Tasks -> TaskStates]
    /\ inUse \in Int
    /\ held \in [Keys -> Int]
    /\ waiting \in [Keys -> Seq(Tasks)]
    /\ order \in Seq(Keys)
    /\ served \in Seq(Keys)
    /\ pc \in {"ready", "dispatch"}
    /\ leaving \in Keys \cup {NoKey}

Init ==
    /\ st = [t \in Tasks |-> "idle"]
    /\ inUse = 0
    /\ held = [k \in Keys |-> 0]
    /\ waiting = [k \in Keys |-> <<>>]
    /\ order = <<>>
    /\ served = <<>>
    /\ pc = "ready"
    /\ leaving = NoKey

-----------------------------------------------------------------------------
(***************************************************************************)
(* Sequences without repetition, as the dicts and deques of the gate.      *)
(***************************************************************************)
InSeq(s, e) == \E i \in 1..Len(s) : s[i] = e

Distinct(s) == \A i, j \in 1..Len(s) : s[i] = s[j] => i = j

Position(s, e) == IF InSeq(s, e) THEN CHOOSE i \in 1..Len(s) : s[i] = e ELSE 0

\* s without e, when e is there; the rest keeps its order.
Without(s, e) ==
    IF InSeq(s, e)
    THEN [i \in 1..(Len(s) - 1) |-> s[IF i < Position(s, e) THEN i ELSE i + 1]]
    ELSE s

-----------------------------------------------------------------------------
(***************************************************************************)
(* Which account a free slot goes to.                                      *)
(***************************************************************************)
\* Mutant of MayHold: one slot too many.
MayHoldOneMore(k) == held[k] <= PerKey

MayHold(k) == held[k] < PerKey

Eligible == {k \in Keys : waiting[k] # <<>> /\ MayHold(k)}

\* k comes before j in `min(eligible, key=(held, last_served))`.  Turn numbers
\* are unique, so only two accounts with no `_last_served` entry can tie, and
\* `min` keeps the one that entered the dict first.
Precedes(k, j) ==
    \/ held[k] < held[j]
    \/ /\ held[k] = held[j]
       /\ \/ Position(served, k) < Position(served, j)
          \/ /\ Position(served, k) = Position(served, j)
             /\ Position(order, k) <= Position(order, j)

IsNextKey(k) == k \in Eligible /\ \A j \in Eligible : Precedes(k, j)

-----------------------------------------------------------------------------
(***************************************************************************)
(* The operations.                                                         *)
(***************************************************************************)

\* acquire, up to its await.  With a full queue it raises Throttled first and
\* changes nothing.
Acquire(t) ==
    LET k == KeyOf[t] IN
    /\ pc = "ready"
    /\ st[t] = "idle"
    /\ Len(waiting[k]) < QueuePerKey
    /\ st' = [st EXCEPT ![t] = "queued"]
    /\ waiting' = [waiting EXCEPT ![k] = Append(@, t)]
    /\ order' = IF waiting[k] = <<>> THEN Append(order, k) ELSE order
    /\ pc' = "dispatch"
    /\ leaving' = NoKey
    /\ UNCHANGED <<inUse, held, served>>

\* _grant: take the head of the account's queue.  A future that was cancelled
\* while it queued is dropped and nothing is handed out.
Grant(k) ==
    LET t == Head(waiting[k]) IN
    /\ waiting' = [waiting EXCEPT ![k] = Tail(@)]
    /\ order' = IF Tail(waiting[k]) = <<>> THEN Without(order, k) ELSE order
    /\ \/ /\ st[t] = "cancelled"
          /\ UNCHANGED <<st, inUse, held, served>>
       \/ /\ st[t] # "cancelled"
          /\ st' = [st EXCEPT ![t] = "granted"]
          /\ inUse' = inUse + 1
          /\ held' = [held EXCEPT ![k] = @ + 1]
          /\ served' = Append(Without(served, k), k)
    /\ UNCHANGED <<pc, leaving>>

\* One iteration of the loop of _dispatch.
DispatchGrant ==
    /\ pc = "dispatch"
    /\ inUse < Capacity
    /\ \E k \in Keys : IsNextKey(k) /\ Grant(k)

\* Mutant of Forget: an idle account is remembered.
ForgetNobody(k, queues) == served

\* _forget_if_idle, with the queues as they are after the step.
Forget(k, queues) ==
    IF k \in Keys /\ held[k] = 0 /\ queues[k] = <<>>
    THEN Without(served, k)
    ELSE served

\* The loop of _dispatch ends; `release` then forgets an account gone idle.
DispatchEnd ==
    /\ pc = "dispatch"
    /\ inUse >= Capacity \/ Eligible = {}
    /\ served' = Forget(leaving, waiting)
    /\ pc' = "ready"
    /\ leaving' = NoKey
    /\ UNCHANGED <<st, inUse, held, waiting, order>>

\* The awaiting task is resumed with the granted slot and runs its body.
Resume(t) ==
    /\ pc = "ready"
    /\ st[t] = "granted"
    /\ st' = [st EXCEPT ![t] = "holding"]
    /\ UNCHANGED <<inUse, held, waiting, order, served, pc, leaving>>

\* asyncio.timeout expires, or the client goes away: both call task.cancel(),
\* which cancels a pending future at once, and a task whose future already has
\* its result when that task next runs.
Interrupt(t) ==
    /\ pc = "ready"
    /\ \/ /\ st[t] = "queued"
          /\ st' = [st EXCEPT ![t] = "cancelled"]
       \/ /\ st[t] = "granted"
          /\ st' = [st EXCEPT ![t] = "revoked"]
    /\ UNCHANGED <<inUse, held, waiting, order, served, pc, leaving>>

\* release, up to its call of _dispatch.
GiveBack(t) ==
    /\ st' = [st EXCEPT ![t] = "idle"]
    /\ inUse' = inUse - 1
    /\ held' = [held EXCEPT ![KeyOf[t]] = @ - 1]
    /\ pc' = "dispatch"
    /\ leaving' = KeyOf[t]
    /\ UNCHANGED <<waiting, order, served>>

\* The body of the slot ended, failed or was cancelled.
Release(t) ==
    /\ pc = "ready"
    /\ st[t] = "holding"
    /\ GiveBack(t)

\* Mutant of AbandonGranted: the slot is freed and passed to nobody.
AbandonGrantedQuietly(t) ==
    /\ pc = "ready"
    /\ st[t] = "revoked"
    /\ st' = [st EXCEPT ![t] = "idle"]
    /\ inUse' = inUse - 1
    /\ held' = [held EXCEPT ![KeyOf[t]] = @ - 1]
    /\ UNCHANGED <<waiting, order, served, pc, leaving>>

\* _abandon of a future that was granted just as the wait ended: pass it on.
AbandonGranted(t) ==
    /\ pc = "ready"
    /\ st[t] = "revoked"
    /\ GiveBack(t)

\* Mutant of AbandonQueued: the cancelled request stays in the queue.
AbandonQueuedInPlace(t) ==
    /\ pc = "ready"
    /\ st[t] = "cancelled"
    /\ st' = [st EXCEPT ![t] = "idle"]
    /\ UNCHANGED <<inUse, held, waiting, order, served, pc, leaving>>

\* _abandon of a future that was never granted: leave the queue, if a dispatch
\* has not removed it already.
AbandonQueued(t) ==
    LET k == KeyOf[t]
        rest == Without(waiting[k], t)
        queues == [waiting EXCEPT ![k] = rest]
    IN
    /\ pc = "ready"
    /\ st[t] = "cancelled"
    /\ st' = [st EXCEPT ![t] = "idle"]
    /\ waiting' = queues
    /\ order' = IF rest = <<>> THEN Without(order, k) ELSE order
    /\ served' = Forget(k, queues)
    /\ UNCHANGED <<inUse, held, pc, leaving>>

Dispatch == DispatchGrant \/ DispatchEnd

Next ==
    \/ Dispatch
    \/ \E t \in Tasks :
          \/ Acquire(t)
          \/ Resume(t)
          \/ Interrupt(t)
          \/ Release(t)
          \/ AbandonGranted(t)
          \/ AbandonQueued(t)

\* The event loop's ready queue is first-in first-out, so a task whose future
\* is resolved runs although other callbacks keep running in between, and a
\* slot's body ends: every use of a gate bounds its work.  New requests and
\* interruptions are not promised.
Fairness ==
    /\ WF_vars(Dispatch)
    /\ \A t \in Tasks :
          SF_vars(Resume(t) \/ Release(t) \/ AbandonGranted(t) \/ AbandonQueued(t))

Spec == Init /\ [][Next]_vars

FairSpec == Spec /\ Fairness

-----------------------------------------------------------------------------
(***************************************************************************)
(* Properties.                                                             *)
(***************************************************************************)
SlotStates == {"granted", "revoked", "holding"}

\* The requests a slot was handed to and not yet taken back from.
Owners == {t \in Tasks : st[t] \in SlotStates}

OwnersOf(k) == {t \in Owners : KeyOf[t] = k}

\* No slot leaks and none is handed out twice: _in_use and _held count exactly
\* the requests that own a slot, those interrupted between grant and resume
\* included, and both stay within the limits.
SlotsAccounted ==
    /\ inUse = Cardinality(Owners)
    /\ inUse <= Capacity
    /\ \A k \in Keys :
          /\ held[k] = Cardinality(OwnersOf(k))
          /\ held[k] <= PerKey

\* A request waits in its account's queue exactly while its future is pending;
\* what else is there was cancelled and not yet removed by its task.
QueuesMatch ==
    /\ \A k \in Keys :
          /\ Distinct(waiting[k])
          /\ \A t \in Tasks : InSeq(waiting[k], t) =>
                KeyOf[t] = k /\ st[t] \in {"queued", "cancelled"}
    /\ \A t \in Tasks : st[t] = "queued" => InSeq(waiting[KeyOf[t]], t)

\* No lost wakeup: when the event loop is between callbacks, no request that
\* may have a slot waits while one is free.
WorkConserving ==
    pc = "ready" /\ inUse < Capacity =>
        \A t \in Tasks : st[t] = "queued" => held[KeyOf[t]] >= PerKey

\* _waiting has no empty queue, so `_next_key` never picks an account with
\* nobody to grant to.
OrderMatches ==
    /\ \A k \in Keys : InSeq(order, k) <=> waiting[k] # <<>>
    /\ Distinct(order)

\* The gate's memory is bounded by its live requests: no account keeps an empty
\* queue and, between callbacks, every account it remembers holds a slot, waits,
\* or has a cancelled request whose task still has to run.
NothingRemembered ==
    /\ OrderMatches
    /\ pc = "ready" =>
          \A k \in Keys : InSeq(served, k) =>
              \E t \in Tasks : KeyOf[t] = k /\ st[t] # "idle"

\* A slot goes to an account whose turn is not remembered, ahead of k, which
\* waits and could have had it.
OvertakenByForgotten(k) ==
    /\ k \in Eligible
    /\ \E j \in Keys \ {k} : ~InSeq(served, j) /\ InSeq(served', j)

\* Nothing but the forgetting of idle accounts can starve a request.  Whoever
\* waits for ever (until its timeout, in the code) is overtaken for ever by
\* accounts that `_forget_if_idle` dropped and that came back: among accounts
\* that stay, and through any timeouts, disconnects and releases, each request
\* has its turn.  With Capacity + 2 accounts the exception does happen.
NoStarvation ==
    \A t \in Tasks :
        <>[](st[t] = "queued") => []<><<OvertakenByForgotten(KeyOf[t])>>_vars
=============================================================================
