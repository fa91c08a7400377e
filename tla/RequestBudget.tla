--------------------------- MODULE RequestBudget ---------------------------
(***************************************************************************)
(* The request rate of an account (admission.py, RequestBudget): a bucket  *)
(* of tokens per account, one token per request, that fills up with time.  *)
(* `take` runs on the event loop without an await, so it is one step.      *)
(* At most MaxKeys buckets are remembered; one that is forgotten is full   *)
(* when its account comes back.                                            *)
(*                                                                         *)
(* Time passes in ticks, Minute of them a minute.  A token is counted as   *)
(* Minute units, of which a tick brings PerMinute: the code's fractions,   *)
(* without rounding.                                                       *)
(***************************************************************************)
EXTENDS Integers, FiniteSets

CONSTANTS
    Accounts,
    PerMinute,   \* per_minute: the size of a bucket, and its rate
    Minute,      \* ticks in a minute
    MaxKeys,     \* max_keys
    MaxTime,     \* bound: how far the clock goes
    MaxTaken,    \* bound: requests of an account that are counted
    NoBucket     \* an account that is not remembered

ASSUME BudgetAssumption ==
    /\ PerMinute \in Nat \ {0} /\ Minute \in Nat \ {0} /\ MaxKeys \in Nat \ {0}
    /\ MaxTime \in Nat /\ MaxTaken \in Nat
    /\ NoBucket \notin [units : Nat, stamp : Nat]

VARIABLES
    now,      \* the clock
    bucket,   \* _buckets: of each account, or NoBucket
    behind,   \* the order of _buckets: of each account, those that come after it
    wait,     \* of each account, what its last request had to wait for, in units
    since,    \* history: when the observer began to count
    full,     \* history: the full buckets of each account since, or the one it had
    taken     \* history: the requests of each account admitted since

budgetVars == <<now, bucket, behind, wait, since, full, taken>>

BudgetTypeOK ==
    /\ now \in Nat
    /\ bucket \in [Accounts -> [units : Nat, stamp : Nat] \cup {NoBucket}]
    /\ behind \in [Accounts -> SUBSET Accounts]
    /\ wait \in [Accounts -> Nat]
    /\ since \in Nat
    /\ full \in [Accounts -> Nat]
    /\ taken \in [Accounts -> Nat]

Token == Minute

Full == PerMinute * Minute

Known == {a \in Accounts : bucket[a] # NoBucket}

BudgetInit ==
    /\ now = 0
    /\ bucket = [a \in Accounts |-> NoBucket]
    /\ behind = [a \in Accounts |-> {}]
    /\ wait = [a \in Accounts |-> 0]
    /\ since = 0
    /\ full = [a \in Accounts |-> 0]
    /\ taken = [a \in Accounts |-> 0]

-----------------------------------------------------------------------------
\* Mutant of Refilled: only whole tokens are added.
RefilledWhole(b) ==
    LET units == b.units + (((now - b.stamp) * PerMinute) \div Minute) * Minute
    IN  IF units < Full THEN units ELSE Full

\* What is in a bucket by now.
Refilled(b) ==
    LET units == b.units + (now - b.stamp) * PerMinute
    IN  IF units < Full THEN units ELSE Full

Units(a) == IF bucket[a] = NoBucket THEN Full ELSE Refilled(bucket[a])

Admitted(a) == Units(a) >= Token

\* Mutant of PutBack: a bucket keeps its place.
PutInPlace(a) ==
    [b \in Accounts |-> IF a \in Known THEN behind[b] ELSE IF b \in Known THEN behind[b] \cup {a} ELSE {}]

\* A bucket that is put back comes last.
PutBack(a) ==
    [b \in Accounts |-> IF b = a THEN {} ELSE IF b \in Known THEN behind[b] \cup {a} ELSE {}]

\* popitem(last=False): the one that all others come after.
Oldest(o, all, order) == order[o] = all \ {o}

Take(a) ==
    LET units == IF Admitted(a) THEN Units(a) - Token ELSE Units(a)
        put == [bucket EXCEPT ![a] = [units |-> units, stamp |-> now]]
        order == PutBack(a)
        all == Known \cup {a}
    IN  /\ taken[a] < MaxTaken
        /\ wait' = [wait EXCEPT ![a] = IF Admitted(a) THEN 0 ELSE Token - units]
        /\ taken' = [taken EXCEPT ![a] = IF Admitted(a) THEN @ + 1 ELSE @]
        /\ full' = [full EXCEPT ![a] = IF bucket[a] = NoBucket THEN @ + 1 ELSE @]
        /\ IF Cardinality(all) <= MaxKeys
           THEN bucket' = put /\ behind' = order
           ELSE \E o \in all :
                   /\ Oldest(o, all, order)
                   /\ bucket' = [put EXCEPT ![o] = NoBucket]
                   /\ behind' = [b \in Accounts |-> IF b = o THEN {} ELSE order[b] \ {o}]
        /\ UNCHANGED <<now, since>>

Tick ==
    /\ now < MaxTime
    /\ now' = now + 1
    /\ UNCHANGED <<bucket, behind, wait, since, full, taken>>

\* The observer begins to count anew.
Observe ==
    /\ since' = now
    /\ full' = [a \in Accounts |-> IF bucket[a] = NoBucket THEN 0 ELSE 1]
    /\ taken' = [a \in Accounts |-> 0]
    /\ UNCHANGED <<now, bucket, behind, wait>>

BudgetNext == Tick \/ Observe \/ \E a \in Accounts : Take(a)

BudgetSpec == BudgetInit /\ [][BudgetNext]_budgetVars

-----------------------------------------------------------------------------
\* "sustained floods do not" pass: from whenever it is counted, an account is
\* admitted no more often than its rate and the full buckets it was given allow, one
\* and another each time it was forgotten.
RateKept ==
    \A a \in Accounts : taken[a] * Token <= full[a] * Full + PerMinute * (now - since)

\* "generous bursts pass": nobody is refused who was admitted fewer than PerMinute
\* times in the last minute.
RefusedOnlyOverRate ==
    \A a \in Accounts :
        wait[a] # 0 /\ bucket[a] # NoBucket /\ bucket[a].stamp = now /\ now - since >= Minute
            => taken[a] >= PerMinute

\* A bucket lets through neither more nor less than its rate and its burst.
RateExact == RateKept /\ RefusedOnlyOverRate

\* An account is forgotten only when MaxKeys others have asked since it did, and never
\* are more remembered.
ForgottenInTurn ==
    [][/\ Cardinality(Known') <= MaxKeys
       /\ \A a \in Known \ Known' :
             Cardinality({b \in Known' : bucket'[b].stamp >= bucket[a].stamp}) >= MaxKeys]_budgetVars
=============================================================================
