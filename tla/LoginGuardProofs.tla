-------------------------- MODULE LoginGuardProofs --------------------------
(***************************************************************************)
(* Proofs about LoginGuard, for any requests, addresses, credentials and   *)
(* limits: the line of an address is sound, each attempt has paid its      *)
(* delay, and a credential is verified once at a time.                     *)
(*                                                                         *)
(* Most of it is about the line.  Somebody in line waits among the lock's  *)
(* waiters, has the lock, or is on the way out; what the steps do is put   *)
(* together from moves between these three.  The state they are about is   *)
(* passed as parameters: rq the requests, ws the waiters, ld which locks   *)
(* are locked, lo the addresses' locks, wa the counts.                     *)
(***************************************************************************)
EXTENDS LoginGuard, FiniteSetTheorems, TLAPS

-----------------------------------------------------------------------------
(***************************************************************************)
(* The inductive invariant.                                                *)
(***************************************************************************)
Waits   == {"queued", "granted", "late", "revoked"}
Holds   == {"sleeping", "checking", "reporting"}
InLines == Waits \cup Holds \cup {"expired"}

Typed(rq, ws, ld, lo, wa) ==
    /\ rq \in [Requests -> Attempts]
    /\ ws \in [Locks -> Seq(Requests)]
    /\ ld \in [Locks -> BOOLEAN]
    /\ lo \in [Addresses -> Locks \cup {None}]
    /\ wa \in [Addresses -> Nat]

\* Whoever is in line is in the line of an address, and uses a lock.
Placed(rq) ==
    \A r \in Requests : rq[r].pc \in InLines => rq[r].address \in Addresses /\ rq[r].lock \in Locks

\* The waiters of a lock are the requests that wait for it, each of them once.
Linked(rq, ws) ==
    /\ \A l \in Locks : \A i \in 1..Len(ws[l]) : rq[ws[l][i]].pc \in Waits /\ rq[ws[l][i]].lock = l
    /\ \A l \in Locks : \A i, j \in 1..Len(ws[l]) : ws[l][i] = ws[l][j] => i = j
    /\ \A r \in Requests : rq[r].pc \in Waits => \E i \in 1..Len(ws[rq[r].lock]) : ws[rq[r].lock][i] = r

\* A turn is given to the head of the line while the lock is free, and to somebody if
\* there is a line.
Turns(rq, ws, ld) ==
    /\ \A r \in Requests : rq[r].pc \in {"granted", "revoked"} =>
          ~ld[rq[r].lock] /\ ws[rq[r].lock][1] = r
    /\ \A l \in Locks : ~ld[l] /\ Len(ws[l]) > 0 => rq[ws[l][1]].pc # "queued"

\* A lock is locked by the one request that has it.
Had(rq, ld) ==
    /\ \A r \in Requests : rq[r].pc \in Holds => ld[rq[r].lock]
    /\ \A r, s \in Requests : rq[r].pc \in Holds /\ rq[s].pc \in Holds /\ rq[r].lock = rq[s].lock => r = s
    /\ \A l \in Locks : ld[l] => \E r \in Requests : rq[r].pc \in Holds /\ rq[r].lock = l

InLineOf(rq, a) == {r \in Requests : rq[r].address = a /\ rq[r].pc \in InLines}

\* Everybody in line is counted and uses the address's lock, which exists as long as that.
Lines(rq, lo, wa) ==
    \A a \in Addresses :
        /\ wa[a] = Cardinality(InLineOf(rq, a))
        /\ wa[a] <= MaxWaiting
        /\ lo[a] = None <=> wa[a] = 0
        /\ \A r \in InLineOf(rq, a) : rq[r].lock = lo[a]

Sound(rq, ws, ld, lo, wa) ==
    /\ Typed(rq, ws, ld, lo, wa)
    /\ Placed(rq)
    /\ Linked(rq, ws)
    /\ Turns(rq, ws, ld)
    /\ Had(rq, ld)
    /\ Lines(rq, lo, wa)

Asides == {"idle", "following", "resolved"}

\* Every request knows what it asks, and whoever is past the flight is the one it names.
Flown(rq, fl) ==
    /\ fl \in [Credentials -> Requests \cup {None}]
    /\ \A r \in Requests : rq[r].pc # "idle" => rq[r].address \in Addresses /\ rq[r].cred \in Credentials
    /\ \A r \in Requests : rq[r].pc \notin Asides => fl[rq[r].cred] = r

Counts ==
    /\ byAddress \in [Addresses -> 0..MaxFailures]
    /\ byAccount \in [Addresses \X Users -> 0..MaxFailures]
    /\ interrupts \in 0..MaxInterrupts

IInv ==
    /\ Sound(req, waiters, locked, locks, waiting)
    /\ Flown(req, flights)
    /\ Counts
    /\ DelayPaid
-----------------------------------------------------------------------------
(***************************************************************************)
(* Lines.                                                                  *)
(***************************************************************************)

\* A line without one of its places: the others, in their order.
LEMMA DroppedIs ==
    ASSUME NEW S, NEW s \in Seq(S), NEW i \in 1..Len(s),
           \A j, k \in 1..Len(s) : s[j] = s[k] => j = k
    PROVE  /\ Dropping(s, i) \in Seq(S) /\ Len(Dropping(s, i)) = Len(s) - 1
           /\ \A j \in 1..Len(Dropping(s, i)) :
                 \E k \in 1..Len(s) : k # i /\ Dropping(s, i)[j] = s[k]
           /\ \A j, k \in 1..Len(Dropping(s, i)) : Dropping(s, i)[j] = Dropping(s, i)[k] => j = k
           /\ \A k \in 1..Len(s) : k # i => \E j \in 1..Len(Dropping(s, i)) : Dropping(s, i)[j] = s[k]
           /\ i # 1 => Len(Dropping(s, i)) > 0 /\ Dropping(s, i)[1] = s[1]
<1> DEFINE n == Len(s) - 1
           at(j) == IF j < i THEN j ELSE j + 1
           d == [j \in 1..n |-> s[at(j)]]
<1>1. n \in Nat /\ Len(s) = n + 1
  OBVIOUS
<1>2. \A j \in 1..n : at(j) \in 1..Len(s) /\ at(j) # i
  OBVIOUS
<1>3. \A j, k \in 1..n : at(j) = at(k) => j = k
  OBVIOUS
<1>4. \A k \in 1..Len(s) : k # i => \E j \in 1..n : at(j) = k
  <2>1. ASSUME NEW k \in 1..Len(s), k < i PROVE k \in 1..n /\ at(k) = k
    BY <2>1
  <2>2. ASSUME NEW k \in 1..Len(s), k > i PROVE k - 1 \in 1..n /\ at(k - 1) = k
    BY <2>2
  <2> QED BY <2>1, <2>2
<1>5. i # 1 => 1 \in 1..n /\ at(1) = 1
  OBVIOUS
<1>6. Dropping(s, i) = d
  BY DEF Dropping
<1>7. d \in [1..n -> S]
  BY <1>2
<1>8. d \in Seq(S) /\ Len(d) = n
  <2> HIDE DEF d, n
  <2> QED BY <1>1, <1>7
<1>9. \A j \in 1..n : d[j] = s[at(j)]
  OBVIOUS
<1> HIDE DEF at, d, n
<1>10. \A j \in 1..n : \E k \in 1..Len(s) : k # i /\ d[j] = s[k]
  BY <1>2, <1>9
<1>11. \A j, k \in 1..n : d[j] = d[k] => j = k
  BY <1>2, <1>3, <1>9
<1>12. \A k \in 1..Len(s) : k # i => \E j \in 1..n : d[j] = s[k]
  BY <1>4, <1>9
<1>13. i # 1 => n > 0 /\ d[1] = s[1]
  BY <1>1, <1>5, <1>9
<1> QED BY <1>6, <1>8, <1>10, <1>11, <1>12, <1>13 DEF n

\* A request that is still in the line it was in.
StaysInLine(p, q) ==
    /\ q.pc \in InLines <=> p.pc \in InLines
    /\ p.pc \in InLines => q.address = p.address /\ q.lock = p.lock

LEMMA LinesKept ==
    ASSUME NEW rq, NEW rq2, NEW lo, NEW wa, Placed(rq), Lines(rq, lo, wa),
           \A s \in Requests : StaysInLine(rq[s], rq2[s])
    PROVE  Placed(rq2) /\ Lines(rq2, lo, wa)
<1>1. \A a \in Addresses : InLineOf(rq2, a) = InLineOf(rq, a)
  BY DEF InLineOf, StaysInLine
<1>2. Placed(rq2)
  BY DEF Placed, StaysInLine
<1>3. \A a \in Addresses : \A r \in InLineOf(rq, a) : rq2[r].lock = rq[r].lock
  BY DEF InLineOf, StaysInLine
<1> QED BY <1>1, <1>2, <1>3 DEF Lines

\* The waiters of a lock are requests; the first of them is one when there is one.
LEMMA WaitersAre ==
    ASSUME NEW rq, NEW ws, NEW ld, NEW lo, NEW wa, Typed(rq, ws, ld, lo, wa), Linked(rq, ws), NEW l \in Locks
    PROVE  /\ ws[l] \in Seq(Requests) /\ Len(ws[l]) \in Nat
           /\ \A i \in 1..Len(ws[l]) : ws[l][i] \in Requests /\ rq[ws[l][i]].pc \in Waits
           /\ Len(ws[l]) > 0 => 1 \in 1..Len(ws[l]) /\ ws[l][1] \in Requests /\ rq[ws[l][1]].pc \in Waits
<1>1. ws[l] \in Seq(Requests)
  BY DEF Typed
<1>2. Len(ws[l]) \in Nat /\ \A i \in 1..Len(ws[l]) : ws[l][i] \in Requests
  BY <1>1
<1>3. Len(ws[l]) > 0 => 1 \in 1..Len(ws[l])
  BY <1>2
<1> QED BY <1>1, <1>2, <1>3 DEF Linked

\* Steps outside the lines leave them as they are.
LEMMA Outside ==
    ASSUME NEW rq, NEW rq2 \in [Requests -> Attempts], NEW ws, NEW ld, NEW lo, NEW wa,
           Sound(rq, ws, ld, lo, wa),
           \A s \in Requests :
              StaysInLine(rq[s], rq2[s]) /\ (rq[s].pc \in InLines => rq2[s].pc = rq[s].pc)
    PROVE  Sound(rq2, ws, ld, lo, wa)
<1>1. Placed(rq2) /\ Lines(rq2, lo, wa)
  BY LinesKept DEF Sound
<1>2. Typed(rq2, ws, ld, lo, wa)
  BY DEF Sound, Typed
<1>3. \A s \in Requests :
          /\ rq2[s].pc \in InLines => rq2[s].pc = rq[s].pc /\ rq2[s].lock = rq[s].lock
          /\ rq[s].pc \in InLines => rq2[s].pc = rq[s].pc /\ rq2[s].lock = rq[s].lock
  BY DEF StaysInLine
<1>4. \A l \in Locks :
          /\ \A i \in 1..Len(ws[l]) : ws[l][i] \in Requests
          /\ Len(ws[l]) > 0 => ws[l][1] \in Requests /\ rq[ws[l][1]].pc \in Waits
  BY WaitersAre DEF Sound
<1>5. Linked(rq2, ws)
  BY <1>3, <1>4 DEF Sound, Linked, InLines
<1>6. Turns(rq2, ws, ld)
  BY <1>3, <1>4 DEF Sound, Turns, InLines, Waits
<1>7. Had(rq2, ld)
  BY <1>3 DEF Sound, Had, InLines
<1> QED BY <1>1, <1>2, <1>5, <1>6, <1>7 DEF Sound

\* The request that has the lock goes on with it.
LEMMA HoldMoves ==
    ASSUME NEW rq, NEW ws, NEW ld, NEW lo, NEW wa, Sound(rq, ws, ld, lo, wa),
           NEW r \in Requests, NEW q \in Attempts, rq[r].pc \in Holds, q.pc \in Holds,
           q.address = rq[r].address, q.lock = rq[r].lock
    PROVE  Sound([rq EXCEPT ![r] = q], ws, ld, lo, wa)
<1> DEFINE rq2 == [rq EXCEPT ![r] = q]
<1>1. rq \in [Requests -> Attempts] /\ rq2 \in [Requests -> Attempts]
  BY DEF Sound, Typed
<1>2. rq2[r] = q /\ \A s \in Requests : s # r => rq2[s] = rq[s]
  BY <1>1
<1> HIDE DEF rq2
<1>3. Placed(rq2) /\ Lines(rq2, lo, wa)
  BY <1>2, LinesKept DEF Sound, StaysInLine, InLines
<1>4. \A l \in Locks :
          /\ \A i \in 1..Len(ws[l]) : ws[l][i] \in Requests /\ ws[l][i] # r
          /\ Len(ws[l]) > 0 => ws[l][1] \in Requests /\ ws[l][1] # r
  <2>1. rq[r].pc \notin Waits
    BY DEF Waits, Holds
  <2> QED BY <2>1, WaitersAre DEF Sound
<1>5. Linked(rq2, ws)
  BY <1>2, <1>4 DEF Sound, Linked, Waits, Holds
<1>6. Turns(rq2, ws, ld)
  BY <1>2, <1>4 DEF Sound, Turns, Holds
<1>7. Had(rq2, ld)
  BY <1>2 DEF Sound, Had
<1> QED BY <1>1, <1>3, <1>5, <1>6, <1>7 DEF Sound, Typed, rq2

\* A wait that ends, by a timeout or a cancellation, is still in its place in the line.
LEMMA WaitEnds ==
    ASSUME NEW rq, NEW ws, NEW ld, NEW lo, NEW wa, Sound(rq, ws, ld, lo, wa),
           NEW r \in Requests, NEW q \in Attempts, rq[r].pc \in Waits, q.pc \in Waits \ {"queued"},
           q.pc \in {"granted", "revoked"} => rq[r].pc \in {"granted", "revoked"},
           q.address = rq[r].address, q.lock = rq[r].lock
    PROVE  Sound([rq EXCEPT ![r] = q], ws, ld, lo, wa)
<1> DEFINE rq2 == [rq EXCEPT ![r] = q]
<1>1. rq \in [Requests -> Attempts] /\ rq2 \in [Requests -> Attempts]
  BY DEF Sound, Typed
<1>2. rq2[r] = q /\ \A s \in Requests : s # r => rq2[s] = rq[s]
  BY <1>1
<1> HIDE DEF rq2
<1>3. Placed(rq2) /\ Lines(rq2, lo, wa)
  BY <1>2, LinesKept DEF Sound, StaysInLine, InLines
<1>4. \A l \in Locks :
          /\ \A i \in 1..Len(ws[l]) : ws[l][i] \in Requests
          /\ Len(ws[l]) > 0 => ws[l][1] \in Requests
  BY WaitersAre DEF Sound
<1>5. \A s \in Requests : rq2[s].lock = rq[s].lock /\ (rq2[s].pc \in Waits <=> rq[s].pc \in Waits)
  BY <1>2 DEF Waits
<1>6. Linked(rq2, ws)
  BY <1>4, <1>5 DEF Sound, Linked
<1>8. Turns(rq2, ws, ld)
  BY <1>2, <1>4, <1>5 DEF Sound, Turns
<1>7. Had(rq2, ld)
  BY <1>2 DEF Sound, Had, Waits, Holds
<1> QED BY <1>1, <1>3, <1>6, <1>7, <1>8 DEF Sound, Typed, rq2
-----------------------------------------------------------------------------
(***************************************************************************)
(* Taking the lock.  "expired", in line and on the way out, also stands    *)
(* for a request that is about to join its line or has just left the lock. *)
(***************************************************************************)

\* acquire() that returns at once: the lock is free and whoever is among its waiters left.
LEMMA TakesAtOnce ==
    ASSUME NEW rq, NEW ws, NEW ld, NEW lo, NEW wa, Sound(rq, ws, ld, lo, wa),
           NEW r \in Requests, NEW l \in Locks, NEW q \in Attempts,
           rq[r].pc = "expired", rq[r].lock = l, q.pc \in Holds,
           q.address = rq[r].address, q.lock = l,
           ~ld[l], \A i \in 1..Len(ws[l]) : rq[ws[l][i]].pc = "late"
    PROVE  Sound([rq EXCEPT ![r] = q], ws, [ld EXCEPT ![l] = TRUE], lo, wa)
<1> DEFINE rq2 == [rq EXCEPT ![r] = q]
           ld2 == [ld EXCEPT ![l] = TRUE]
<1>1. rq \in [Requests -> Attempts] /\ rq2 \in [Requests -> Attempts]
      /\ ld \in [Locks -> BOOLEAN] /\ ld2 \in [Locks -> BOOLEAN]
  BY DEF Sound, Typed
<1>2. rq2[r] = q /\ \A s \in Requests : s # r => rq2[s] = rq[s]
  BY <1>1
<1>3. ld2[l] /\ \A m \in Locks : m # l => ld2[m] = ld[m]
  BY <1>1
<1> HIDE DEF rq2, ld2
<1>4. Placed(rq2) /\ Lines(rq2, lo, wa)
  BY <1>2, LinesKept DEF Sound, StaysInLine, InLines
<1>5. \A m \in Locks :
          /\ \A i \in 1..Len(ws[m]) : ws[m][i] \in Requests /\ ws[m][i] # r
          /\ Len(ws[m]) > 0 => ws[m][1] \in Requests /\ ws[m][1] # r
  <2>1. rq[r].pc \notin Waits
    BY DEF Waits
  <2> QED BY <2>1, WaitersAre DEF Sound
<1>6. Linked(rq2, ws)
  BY <1>2, <1>5 DEF Sound, Linked, Waits, Holds
<1>7. \A s \in Requests : rq[s].pc \in {"granted", "revoked"} => rq[s].lock # l /\ rq[s].lock \in Locks
  BY DEF Sound, Linked, Placed, Waits, InLines
<1>8. Turns(rq2, ws, ld2)
  BY <1>2, <1>3, <1>5, <1>7 DEF Sound, Turns, Holds
<1>9. \A s \in Requests : rq[s].pc \in Holds => rq[s].lock # l /\ rq[s].lock \in Locks
  BY DEF Sound, Had, Placed, InLines
<1>10. Had(rq2, ld2)
  BY <1>2, <1>3, <1>9 DEF Sound, Had, Holds
<1> QED BY <1>1, <1>4, <1>6, <1>8, <1>10 DEF Sound, Typed, rq2, ld2

\* acquire() that waits.
LEMMA Joins ==
    ASSUME NEW rq, NEW ws, NEW ld, NEW lo, NEW wa, Sound(rq, ws, ld, lo, wa),
           NEW r \in Requests, NEW l \in Locks, NEW q \in Attempts,
           rq[r].pc = "expired", rq[r].lock = l, q.pc = "queued",
           q.address = rq[r].address, q.lock = l,
           ld[l] \/ \E i \in 1..Len(ws[l]) : rq[ws[l][i]].pc # "late"
    PROVE  Sound([rq EXCEPT ![r] = q], [ws EXCEPT ![l] = Append(@, r)], ld, lo, wa)
<1> DEFINE rq2 == [rq EXCEPT ![r] = q]
           s2 == Append(ws[l], r)
           ws2 == [ws EXCEPT ![l] = s2]
           n == Len(ws[l])
<1>1. rq \in [Requests -> Attempts] /\ rq2 \in [Requests -> Attempts]
  BY DEF Sound, Typed
<1>2. rq2[r] = q /\ \A s \in Requests : s # r => rq2[s] = rq[s]
  BY <1>1
<1>3. ws \in [Locks -> Seq(Requests)] /\ ws[l] \in Seq(Requests)
  BY DEF Sound, Typed
<1>4. s2 \in Seq(Requests) /\ n \in Nat /\ Len(s2) = n + 1 /\ s2[n + 1] = r /\ \A i \in 1..n : s2[i] = ws[l][i]
  BY <1>3
<1>5. ws2 \in [Locks -> Seq(Requests)] /\ ws2[l] = s2 /\ \A m \in Locks : m # l => ws2[m] = ws[m]
  BY <1>3, <1>4
<1>6. \A m \in Locks :
          /\ \A i \in 1..Len(ws[m]) : ws[m][i] \in Requests /\ ws[m][i] # r
          /\ Len(ws[m]) > 0 => ws[m][1] \in Requests /\ ws[m][1] # r
  <2>1. rq[r].pc \notin Waits
    BY DEF Waits
  <2> QED BY <2>1, WaitersAre DEF Sound
<1>7. \A i \in 1..Len(s2) : i \in 1..n \/ i = n + 1
  BY <1>4
<1>8. 1..n \subseteq 1..Len(s2) /\ n + 1 \in 1..Len(s2) /\ (n > 0 => 1 \in 1..n) /\ (n = 0 => s2[1] = r /\ 1..n = {})
  BY <1>4
<1> HIDE DEF rq2, ws2, s2
<1>9. Placed(rq2) /\ Lines(rq2, lo, wa)
  BY <1>2, LinesKept DEF Sound, StaysInLine, InLines, Waits
<1>10. Linked(rq2, ws2)
  <2>1. ASSUME NEW m \in Locks, NEW i \in 1..Len(ws2[m]) PROVE rq2[ws2[m][i]].pc \in Waits /\ rq2[ws2[m][i]].lock = m
    <3>1. CASE m # l
      BY <3>1, <2>1, <1>2, <1>5, <1>6 DEF Sound, Linked
    <3>2. CASE m = l
      BY <3>2, <2>1, <1>2, <1>4, <1>5, <1>6, <1>7 DEF Sound, Linked, Waits
    <3> QED BY <3>1, <3>2
  <2>2. ASSUME NEW m \in Locks, NEW i \in 1..Len(ws2[m]), NEW j \in 1..Len(ws2[m]), ws2[m][i] = ws2[m][j] PROVE i = j
    <3>1. CASE m # l
      BY <3>1, <2>2, <1>5 DEF Sound, Linked
    <3>2. CASE m = l
      BY <3>2, <2>2, <1>4, <1>5, <1>6, <1>7 DEF Sound, Linked
    <3> QED BY <3>1, <3>2
  <2>3. ASSUME NEW s \in Requests, rq2[s].pc \in Waits PROVE \E i \in 1..Len(ws2[rq2[s].lock]) : ws2[rq2[s].lock][i] = s
    <3>1. CASE s = r
      BY <3>1, <1>2, <1>4, <1>5, <1>8
    <3>2. CASE s # r
      <4>1. rq[s].pc \in Waits /\ rq2[s].lock = rq[s].lock /\ rq[s].lock \in Locks
        BY <3>2, <2>3, <1>2 DEF Sound, Placed, InLines
      <4>2. PICK i \in 1..Len(ws[rq[s].lock]) : ws[rq[s].lock][i] = s
        BY <4>1 DEF Sound, Linked
      <4>3. i \in 1..Len(ws2[rq[s].lock]) /\ ws2[rq[s].lock][i] = s
        BY <4>1, <4>2, <1>4, <1>5, <1>8
      <4> QED BY <4>1, <4>3
    <3> QED BY <3>1, <3>2
  <2> QED BY <2>1, <2>2, <2>3 DEF Linked
<1>11. Turns(rq2, ws2, ld)
  <2>1. ASSUME NEW s \in Requests, rq2[s].pc \in {"granted", "revoked"} PROVE ~ld[rq2[s].lock] /\ ws2[rq2[s].lock][1] = s
    <3>1. s # r /\ rq2[s] = rq[s] /\ rq[s].pc \in Waits
      BY <2>1, <1>2 DEF Waits
    <3>2. rq[s].lock \in Locks /\ ~ld[rq[s].lock] /\ ws[rq[s].lock][1] = s
      BY <3>1, <2>1 DEF Sound, Turns, Placed, InLines
    <3>3. CASE rq[s].lock # l
      BY <3>1, <3>2, <3>3, <1>5
    <3>4. CASE rq[s].lock = l
      <4>1. n > 0
        BY <3>1, <3>4, <1>4 DEF Sound, Linked
      <4> QED BY <4>1, <3>1, <3>2, <3>4, <1>4, <1>5, <1>8
    <3> QED BY <3>3, <3>4
  <2>2. ASSUME NEW m \in Locks, ~ld[m], Len(ws2[m]) > 0 PROVE rq2[ws2[m][1]].pc # "queued"
    <3>1. CASE m # l
      BY <3>1, <2>2, <1>2, <1>5, <1>6 DEF Sound, Turns
    <3>2. CASE m = l
      <4>1. n > 0
        BY <3>2, <2>2, <1>4, <1>8
      <4>2. ws2[m][1] = ws[l][1] /\ ws[l][1] \in Requests /\ ws[l][1] # r
        BY <4>1, <3>2, <1>4, <1>5, <1>6, <1>8
      <4> QED BY <4>1, <4>2, <3>2, <2>2, <1>2 DEF Sound, Turns
    <3> QED BY <3>1, <3>2
  <2> QED BY <2>1, <2>2 DEF Turns
<1>12. Had(rq2, ld)
  BY <1>2 DEF Sound, Had, Holds
<1>13. ws2 = [ws EXCEPT ![l] = Append(@, r)]
  BY DEF ws2, s2
<1> QED BY <1>1, <1>5, <1>9, <1>10, <1>11, <1>12, <1>13 DEF Sound, Typed, rq2
\* r is the one that stops waiting.
WaitsNoMore(rq, rq2, r) ==
    /\ rq2[r].pc \notin Waits
    /\ \A s \in Requests : s # r => rq2[s].lock = rq[s].lock /\ (rq2[s].pc \in Waits <=> rq[s].pc \in Waits)

TakenOut(ws, ws2, l, i) == ws2 = [ws EXCEPT ![l] = Dropping(ws[l], i)]

Shortened(rq2, ws, ws2, l, i, r) ==
    /\ ws2 \in [Locks -> Seq(Requests)] /\ Linked(rq2, ws2)
    /\ i # 1 => Len(ws2[l]) > 0 /\ ws2[l][1] = ws[l][1]
    /\ Len(ws2[l]) > 0 => ws2[l][1] \in Requests /\ ws2[l][1] # r

\* Who stops waiting is taken out of the waiters, and nobody else is.
LEMMA Unlinked ==
    ASSUME NEW rq, NEW rq2, NEW ws, NEW ws2, NEW l \in Locks, NEW i \in 1..Len(ws[l]), NEW r \in Requests,
           ws \in [Locks -> Seq(Requests)], Linked(rq, ws), Placed(rq), ws[l][i] = r,
           TakenOut(ws, ws2, l, i),
           WaitsNoMore(rq, rq2, r)
    PROVE  Shortened(rq2, ws, ws2, l, i, r)
<1> DEFINE s2 == Dropping(ws[l], i)
<1>1. /\ ws[l] \in Seq(Requests) /\ i \in 1..Len(ws[l])
      /\ \A j, k \in 1..Len(ws[l]) : ws[l][j] = ws[l][k] => j = k
  BY DEF Linked
<1>2. /\ s2 \in Seq(Requests)
      /\ \A j \in 1..Len(s2) : \E k \in 1..Len(ws[l]) : k # i /\ s2[j] = ws[l][k]
      /\ \A j, k \in 1..Len(s2) : s2[j] = s2[k] => j = k
      /\ \A k \in 1..Len(ws[l]) : k # i => \E j \in 1..Len(s2) : s2[j] = ws[l][k]
      /\ i # 1 => Len(s2) > 0 /\ s2[1] = ws[l][1]
  BY ONLY <1>1, DroppedIs
<1>3. ws2 \in [Locks -> Seq(Requests)] /\ ws2[l] = s2 /\ \A m \in Locks : m # l => ws2[m] = ws[m]
  BY <1>2 DEF TakenOut
<1>4. \A m \in Locks : \A j \in 1..Len(ws[m]) : ws[m][j] \in Requests
  OBVIOUS
<1>5. rq[r].lock = l
  BY DEF Linked
<1>6. \A k \in 1..Len(ws[l]) : k # i => ws[l][k] # r
  BY <1>1
<1>7. Len(s2) > 0 => 1 \in 1..Len(s2)
  BY <1>2
<1> HIDE DEF s2
<1>8. \A j \in 1..Len(s2) : s2[j] \in Requests /\ s2[j] # r /\ rq[s2[j]].pc \in Waits /\ rq[s2[j]].lock = l
  <2> TAKE j \in 1..Len(s2)
  <2>1. PICK k \in 1..Len(ws[l]) : k # i /\ s2[j] = ws[l][k]
    BY <1>2
  <2> QED BY <2>1, <1>4, <1>6 DEF Linked
<1>9. \A m \in Locks : \A j \in 1..Len(ws2[m]) : rq2[ws2[m][j]].pc \in Waits /\ rq2[ws2[m][j]].lock = m
  <2> TAKE m \in Locks
  <2> TAKE j \in 1..Len(ws2[m])
  <2>1. CASE m = l
    BY <2>1, <1>3, <1>8 DEF WaitsNoMore
  <2>2. CASE m # l
    <3>1. ws[m][j] \in Requests /\ rq[ws[m][j]].pc \in Waits /\ rq[ws[m][j]].lock = m
      BY <2>2, <1>3, <1>4 DEF Linked
    <3> QED BY <3>1, <2>2, <1>3, <1>5 DEF WaitsNoMore
  <2> QED BY <2>1, <2>2
<1>10. \A m \in Locks : \A j, k \in 1..Len(ws2[m]) : ws2[m][j] = ws2[m][k] => j = k
  <2> TAKE m \in Locks
  <2>1. CASE m = l
    BY <2>1, <1>2, <1>3
  <2>2. CASE m # l
    BY <2>2, <1>3 DEF Linked
  <2> QED BY <2>1, <2>2
<1>11. ASSUME NEW s \in Requests, rq2[s].pc \in Waits PROVE \E j \in 1..Len(ws2[rq2[s].lock]) : ws2[rq2[s].lock][j] = s
  <2>1. s # r /\ rq[s].pc \in Waits /\ rq2[s].lock = rq[s].lock /\ rq[s].lock \in Locks
    BY <1>11 DEF Placed, InLines, WaitsNoMore
  <2>2. PICK k \in 1..Len(ws[rq[s].lock]) : ws[rq[s].lock][k] = s
    BY <2>1 DEF Linked
  <2>3. CASE rq[s].lock = l
    <3>1. k \in 1..Len(ws[l]) /\ ws[l][k] = s /\ k # i
      BY <2>1, <2>2, <2>3
    <3>2. \E j \in 1..Len(s2) : s2[j] = s
      BY <3>1, <1>2
    <3> QED BY <3>2, <2>1, <2>3, <1>3
  <2>4. CASE rq[s].lock # l
    BY <2>1, <2>2, <2>4, <1>3
  <2> QED BY <2>3, <2>4
<1>12. Linked(rq2, ws2)
  BY <1>9, <1>10, <1>11 DEF Linked
<1>13. s2 = Dropping(ws[l], i)
  BY DEF s2
<1> QED BY <1>2, <1>3, <1>7, <1>8, <1>12, <1>13 DEF Shortened

\* Its turn: the request takes the lock.
LEMMA TakesTurn ==
    ASSUME NEW rq, NEW ws, NEW ld, NEW lo, NEW wa, Sound(rq, ws, ld, lo, wa),
           NEW r \in Requests, NEW l \in Locks, NEW i \in 1..Len(ws[l]), NEW q \in Attempts,
           rq[r].pc = "granted", rq[r].lock = l, ws[l][i] = r, q.pc \in Holds,
           q.address = rq[r].address, q.lock = l
    PROVE  Sound([rq EXCEPT ![r] = q], [ws EXCEPT ![l] = Dropping(ws[l], i)], [ld EXCEPT ![l] = TRUE], lo, wa)
<1> DEFINE rq2 == [rq EXCEPT ![r] = q]
           ld2 == [ld EXCEPT ![l] = TRUE]
           ws2 == [ws EXCEPT ![l] = Dropping(ws[l], i)]
<1>1. rq \in [Requests -> Attempts] /\ rq2 \in [Requests -> Attempts]
      /\ ld \in [Locks -> BOOLEAN] /\ ld2 \in [Locks -> BOOLEAN] /\ ws \in [Locks -> Seq(Requests)]
  BY DEF Sound, Typed
<1>2. rq2[r] = q /\ \A s \in Requests : s # r => rq2[s] = rq[s]
  BY <1>1
<1>3. ld2[l] /\ \A m \in Locks : m # l => ld2[m] = ld[m]
  BY <1>1
<1> HIDE DEF rq2, ld2
<1>4. Placed(rq2) /\ Lines(rq2, lo, wa)
  BY <1>2, LinesKept DEF Sound, StaysInLine, InLines, Waits
<1>5. rq2[r].pc \notin Waits
  BY <1>2 DEF Waits, Holds
<1>6. /\ ws2 \in [Locks -> Seq(Requests)] /\ Linked(rq2, ws2)
      /\ \A m \in Locks : m # l => ws2[m] = ws[m]
  <2>1. WaitsNoMore(rq, rq2, r)
    BY <1>2, <1>5 DEF WaitsNoMore
  <2>2. Linked(rq, ws) /\ Placed(rq)
    BY DEF Sound
  <2>3. TakenOut(ws, ws2, l, i) /\ ws \in [Locks -> Seq(Requests)]
    BY <1>1 DEF TakenOut
  <2> HIDE DEF ws2
  <2>4. Shortened(rq2, ws, ws2, l, i, r)
    BY <2>1, <2>2, <2>3, Unlinked
  <2> QED BY <2>4, <1>1 DEF ws2, Shortened
<1> HIDE DEF ws2
<1>7. ~ld[l] /\ \A s \in Requests : rq[s].pc \in {"granted", "revoked"} /\ rq[s].lock = l => s = r
  BY DEF Sound, Turns
<1>8. \A s \in Requests : rq2[s].pc \in {"granted", "revoked"} =>
         rq[s] = rq2[s] /\ rq[s].lock \in Locks /\ rq[s].lock # l /\ s # r
  BY <1>2, <1>5, <1>7 DEF Sound, Placed, Waits, InLines
<1>9. \A m \in Locks : m # l /\ Len(ws[m]) > 0 => ws[m][1] \in Requests /\ ws[m][1] # r
  <2>1. \A m \in Locks : Len(ws[m]) > 0 => 1 \in 1..Len(ws[m]) /\ ws[m][1] \in Requests
    BY WaitersAre DEF Sound
  <2> QED BY <2>1 DEF Sound, Linked
<1>10. Turns(rq2, ws2, ld2)
  <2>1. \A s \in Requests : rq2[s].pc \in {"granted", "revoked"} => ~ld2[rq2[s].lock] /\ ws2[rq2[s].lock][1] = s
    BY <1>3, <1>6, <1>8 DEF Sound, Turns
  <2>2. \A m \in Locks : ~ld2[m] /\ Len(ws2[m]) > 0 => rq2[ws2[m][1]].pc # "queued"
    BY <1>2, <1>3, <1>6, <1>9 DEF Sound, Turns
  <2> QED BY <2>1, <2>2 DEF Turns
<1>11. \A s \in Requests : rq[s].pc \in Holds => rq[s].lock # l /\ rq[s].lock \in Locks
  BY <1>7 DEF Sound, Had, Placed, InLines
<1>12. Had(rq2, ld2)
  BY <1>2, <1>3, <1>11 DEF Sound, Had, Holds
<1> QED BY <1>1, <1>4, <1>6, <1>10, <1>12 DEF Sound, Typed, rq2, ld2, ws2

-----------------------------------------------------------------------------
(***************************************************************************)
(* Giving up the lock, or a turn.                                          *)
(***************************************************************************)

\* rq2: as rq, but r is on the way out, and the head of the line, if there is one, has the
\* turn when it waited for it.
Handed(rq, rq2, r, line) ==
    /\ rq2[r].pc = "expired" /\ rq2[r].address = rq[r].address /\ rq2[r].lock = rq[r].lock
    /\ \A s \in Requests : s # r =>
          /\ rq2[s].address = rq[s].address /\ rq2[s].lock = rq[s].lock
          /\ \/ rq2[s].pc = rq[s].pc
             \/ rq2[s].pc = "granted" /\ rq[s].pc = "queued" /\ Len(line) > 0 /\ line[1] = s
    /\ Len(line) > 0 => rq2[line[1]].pc # "queued"

\* _wake_up_first does that.
LEMMA WakesUp ==
    ASSUME NEW rq \in [Requests -> Attempts], NEW line \in Seq(Requests), NEW r \in Requests, NEW q \in Attempts,
           \A i \in 1..Len(line) : line[i] # r,
           q.pc = "expired", q.address = rq[r].address, q.lock = rq[r].lock
    PROVE  /\ [Woken(line, rq) EXCEPT ![r] = q] \in [Requests -> Attempts]
           /\ Handed(rq, [Woken(line, rq) EXCEPT ![r] = q], r, line)
<1> DEFINE wk == Woken(line, rq)
           rq2 == [wk EXCEPT ![r] = q]
           h == line[1]
<1>1. line # <<>> <=> Len(line) > 0
  OBVIOUS
<1>2. Head(line) = h /\ (Len(line) > 0 => h \in Requests /\ h # r)
  BY <1>1
<1>3. CASE Len(line) > 0 /\ rq[h].pc = "queued"
  <2> DEFINE g == [rq[h] EXCEPT !.pc = "granted"]
  <2>1. h \in Requests /\ h # r
    BY <1>2, <1>3
  <2>2. wk = [rq EXCEPT ![h] = g]
    BY <1>1, <1>2, <1>3 DEF Woken
  <2>3. g \in Attempts /\ g.pc = "granted" /\ g.address = rq[h].address /\ g.lock = rq[h].lock
    BY <2>1 DEF Attempts, States
  <2> HIDE DEF g, wk, h
  <2>4. wk \in [Requests -> Attempts] /\ wk[h] = g /\ \A s \in Requests : s # h => wk[s] = rq[s]
    BY <2>1, <2>2, <2>3
  <2>5. rq2 \in [Requests -> Attempts] /\ rq2[r] = q /\ \A s \in Requests : s # r => rq2[s] = wk[s]
    BY <2>4
  <2> HIDE DEF rq2
  <2>6. Handed(rq, rq2, r, line)
    BY <1>3, <2>1, <2>3, <2>4, <2>5 DEF Handed, h
  <2> QED BY <2>5, <2>6 DEF rq2, wk
<1>4. CASE ~(Len(line) > 0 /\ rq[h].pc = "queued")
  <2>1. wk = rq
    BY <1>1, <1>2, <1>4 DEF Woken
  <2> HIDE DEF wk
  <2>2. rq2 \in [Requests -> Attempts] /\ rq2[r] = q /\ \A s \in Requests : s # r => rq2[s] = rq[s]
    BY <2>1
  <2> HIDE DEF rq2
  <2>3. Handed(rq, rq2, r, line)
    BY <1>2, <1>4, <2>2 DEF Handed
  <2> QED BY <2>2, <2>3 DEF rq2, wk
<1> QED BY <1>3, <1>4

\* The request that has the lock releases it.
LEMMA Releases ==
    ASSUME NEW rq, NEW rq2 \in [Requests -> Attempts], NEW ws, NEW ld, NEW lo, NEW wa,
           Sound(rq, ws, ld, lo, wa),
           NEW r \in Requests, NEW l \in Locks, rq[r].pc \in Holds, rq[r].lock = l,
           Handed(rq, rq2, r, ws[l])
    PROVE  Sound(rq2, ws, [ld EXCEPT ![l] = FALSE], lo, wa)
<1> DEFINE ld2 == [ld EXCEPT ![l] = FALSE]
<1>1. ld \in [Locks -> BOOLEAN] /\ ld2 \in [Locks -> BOOLEAN]
  BY DEF Sound, Typed
<1>2. ~ld2[l] /\ \A m \in Locks : m # l => ld2[m] = ld[m]
  BY <1>1
<1> HIDE DEF ld2
<1>3. \A s \in Requests : StaysInLine(rq[s], rq2[s])
  BY DEF Handed, StaysInLine, InLines, Waits, Holds
<1>4. Placed(rq2) /\ Lines(rq2, lo, wa)
  BY <1>3, LinesKept DEF Sound
<1>5. \A m \in Locks :
          /\ \A i \in 1..Len(ws[m]) : ws[m][i] \in Requests /\ ws[m][i] # r
          /\ Len(ws[m]) > 0 => ws[m][1] \in Requests /\ ws[m][1] # r /\ 1 \in 1..Len(ws[m])
  <2>1. rq[r].pc \notin Waits
    BY DEF Waits, Holds
  <2> QED BY <2>1, WaitersAre DEF Sound
<1>6. \A s \in Requests : rq2[s].lock = rq[s].lock /\ (rq2[s].pc \in Waits <=> rq[s].pc \in Waits)
  BY DEF Handed, Waits, Holds
<1>7. Linked(rq2, ws)
  BY <1>5, <1>6 DEF Sound, Linked
<1>8. ld[l]
  BY DEF Sound, Had
<1>9. \A s \in Requests : rq2[s].pc \in {"granted", "revoked"} => ~ld2[rq2[s].lock] /\ ws[rq2[s].lock][1] = s
  <2> SUFFICES ASSUME NEW s \in Requests, rq2[s].pc \in {"granted", "revoked"}
               PROVE  ~ld2[rq2[s].lock] /\ ws[rq2[s].lock][1] = s
    OBVIOUS
  <2>1. s # r
    BY DEF Handed
  <2>2. CASE rq2[s].pc = rq[s].pc
    <3>1. rq[s].lock \in Locks
      BY <2>2 DEF Sound, Placed, InLines, Waits
    <3> QED BY <3>1, <2>2, <1>2, <1>6 DEF Sound, Turns
  <2>3. CASE rq2[s].pc # rq[s].pc
    <3>1. Len(ws[l]) > 0 /\ ws[l][1] = s
      BY <2>1, <2>3 DEF Handed
    <3>2. rq[s].lock = l
      BY <3>1, <1>5 DEF Sound, Linked
    <3> QED BY <3>1, <3>2, <1>2, <1>6
  <2> QED BY <2>2, <2>3
<1>10. \A m \in Locks : ~ld2[m] /\ Len(ws[m]) > 0 => rq2[ws[m][1]].pc # "queued"
  <2> TAKE m \in Locks
  <2>1. CASE m = l
    BY <2>1 DEF Handed
  <2>2. CASE m # l
    BY <2>2, <1>2, <1>5 DEF Sound, Turns, Handed
  <2> QED BY <2>1, <2>2
<1>11. \A s \in Requests : rq2[s].pc \in Holds <=> s # r /\ rq[s].pc \in Holds
  BY DEF Handed, Holds
<1>12. \A s \in Requests : s # r /\ rq[s].pc \in Holds => rq[s].lock # l /\ rq[s].lock \in Locks
  BY DEF Sound, Had, Placed, InLines
<1>13. \A s, t \in Requests : rq2[s].pc \in Holds /\ rq2[t].pc \in Holds /\ rq2[s].lock = rq2[t].lock => s = t
  BY <1>6, <1>11 DEF Sound, Had
<1>14. \A m \in Locks : ld2[m] => \E s \in Requests : rq2[s].pc \in Holds /\ rq2[s].lock = m
  BY <1>2, <1>6, <1>11, <1>8 DEF Sound, Had
<1>15. Had(rq2, ld2)
  BY <1>2, <1>6, <1>11, <1>12, <1>13, <1>14 DEF Sound, Had
<1> QED BY <1>1, <1>4, <1>7, <1>9, <1>10, <1>15 DEF Sound, Typed, Turns, ld2
\* The request whose wait ended leaves the line; a turn it was given goes to the next.
LEMMA StepsOut ==
    ASSUME NEW rq, NEW rq2 \in [Requests -> Attempts], NEW ws, NEW ws2, NEW ld, NEW lo, NEW wa,
           Sound(rq, ws, ld, lo, wa),
           NEW r \in Requests, NEW l \in Locks, NEW i \in 1..Len(ws[l]),
           rq[r].pc \in {"late", "revoked"}, rq[r].lock = l, ws[l][i] = r, TakenOut(ws, ws2, l, i),
           Handed(rq, rq2, r, IF ld[l] THEN <<>> ELSE ws2[l])
    PROVE  Sound(rq2, ws2, ld, lo, wa)
<1> DEFINE line == IF ld[l] THEN <<>> ELSE ws2[l]
<1>1. ws \in [Locks -> Seq(Requests)] /\ ld \in [Locks -> BOOLEAN]
  BY DEF Sound, Typed
<1>2. Len(line) > 0 => ~ld[l] /\ line = ws2[l]
  OBVIOUS
<1>3. ~ld[l] => line = ws2[l]
  OBVIOUS
<1> HIDE DEF line
<1>4. Handed(rq, rq2, r, line)
  BY DEF line
<1>5. \A s \in Requests : StaysInLine(rq[s], rq2[s])
  BY <1>4 DEF Handed, StaysInLine, InLines, Waits
<1>6. Placed(rq2) /\ Lines(rq2, lo, wa)
  BY <1>5, LinesKept DEF Sound
<1>7. WaitsNoMore(rq, rq2, r)
  BY <1>4 DEF Handed, Waits, WaitsNoMore
<1>8. /\ ws2 \in [Locks -> Seq(Requests)] /\ Linked(rq2, ws2)
      /\ i # 1 => Len(ws2[l]) > 0 /\ ws2[l][1] = ws[l][1]
      /\ Len(ws2[l]) > 0 => ws2[l][1] \in Requests /\ ws2[l][1] # r
  <2>1. Linked(rq, ws) /\ Placed(rq) /\ TakenOut(ws, ws2, l, i) /\ ws[l][i] = r
    BY DEF Sound
  <2>2. Shortened(rq2, ws, ws2, l, i, r)
    BY <2>1, <1>1, <1>7, Unlinked
  <2> QED BY <2>2 DEF Shortened
<1>9. \A m \in Locks : m # l => ws2[m] = ws[m]
  BY <1>1 DEF TakenOut
<1>10. \A m \in Locks : m # l /\ Len(ws[m]) > 0 => ws[m][1] \in Requests /\ ws[m][1] # r
  <2>1. \A m \in Locks : Len(ws[m]) > 0 => 1 \in 1..Len(ws[m]) /\ ws[m][1] \in Requests
    BY WaitersAre DEF Sound
  <2> QED BY <2>1 DEF Sound, Linked
<1>11. \A s \in Requests : rq2[s].pc \in {"granted", "revoked"} => ~ld[rq2[s].lock] /\ ws2[rq2[s].lock][1] = s
  <2> SUFFICES ASSUME NEW s \in Requests, rq2[s].pc \in {"granted", "revoked"}
               PROVE  ~ld[rq2[s].lock] /\ ws2[rq2[s].lock][1] = s
    OBVIOUS
  <2>1. s # r /\ rq2[s].lock = rq[s].lock
    BY <1>4 DEF Handed
  <2>2. CASE rq2[s].pc = rq[s].pc
    <3>1. rq[s].lock \in Locks /\ ~ld[rq[s].lock] /\ ws[rq[s].lock][1] = s
      BY <2>2 DEF Sound, Placed, InLines, Waits, Turns
    <3>2. rq[s].lock = l => i # 1
      BY <2>1, <3>1
    <3> QED BY <2>1, <3>1, <3>2, <1>8, <1>9
  <2>3. CASE rq2[s].pc # rq[s].pc
    <3>1. Len(line) > 0 /\ line[1] = s
      BY <2>1, <2>3, <1>4 DEF Handed
    <3>2. ~ld[l] /\ ws2[l][1] = s /\ 1 \in 1..Len(ws2[l])
      BY <3>1, <1>2, <1>8
    <3>3. rq2[s].lock = l
      BY <3>2, <1>8 DEF Linked
    <3> QED BY <3>2, <3>3
  <2> QED BY <2>2, <2>3
<1>12. \A m \in Locks : ~ld[m] /\ Len(ws2[m]) > 0 => rq2[ws2[m][1]].pc # "queued"
  <2> TAKE m \in Locks
  <2>1. CASE m = l
    BY <2>1, <1>3, <1>4 DEF Handed
  <2>2. CASE m # l
    BY <2>2, <1>4, <1>9, <1>10 DEF Sound, Turns, Handed
  <2> QED BY <2>1, <2>2
<1>13. \A s \in Requests : rq2[s].lock = rq[s].lock /\ (rq2[s].pc \in Holds <=> rq[s].pc \in Holds)
  BY <1>4 DEF Handed, Holds
<1>14. Had(rq2, ld)
  <2>1. \A s \in Requests : rq2[s].pc \in Holds => ld[rq2[s].lock]
    BY <1>13 DEF Sound, Had
  <2>2. \A s, t \in Requests : rq2[s].pc \in Holds /\ rq2[t].pc \in Holds /\ rq2[s].lock = rq2[t].lock => s = t
    BY <1>13 DEF Sound, Had
  <2>3. \A m \in Locks : ld[m] => \E s \in Requests : rq2[s].pc \in Holds /\ rq2[s].lock = m
    BY <1>13 DEF Sound, Had
  <2> QED BY <2>1, <2>2, <2>3 DEF Had
<1> QED BY <1>1, <1>6, <1>8, <1>11, <1>12, <1>14 DEF Sound, Typed, Turns

-----------------------------------------------------------------------------
(***************************************************************************)
(* Entering and leaving the line of an address.                            *)
(***************************************************************************)

\* The members of a line are requests, finitely many.
LEMMA LineFinite ==
    ASSUME NEW rq, NEW a
    PROVE  IsFiniteSet(InLineOf(rq, a)) /\ Cardinality(InLineOf(rq, a)) \in Nat
<1>1. InLineOf(rq, a) \subseteq Requests
  BY DEF InLineOf
<1> QED BY <1>1, FS_Subset, FS_CardinalityType, GuardAssumption

LEMMA ImageFinite ==
    ASSUME NEW S, IsFiniteSet(S), NEW f
    PROVE  LET T == {f[x] : x \in S} IN IsFiniteSet(T) /\ Cardinality(T) <= Cardinality(S)
<1> DEFINE T == {f[x] : x \in S}
           g == [x \in S |-> f[x]]
<1>1. g \in Surjection(S, T)
  BY DEF Surjection
<1> QED BY <1>1, FS_Surjection

\* There is a lock object that is neither in _locks nor used by a request: a new one.
LEMMA FreshLock ==
    ASSUME NEW rq, NEW lo
    PROVE  \E l \in Locks : (\A b \in Addresses : lo[b] # l) /\ (\A s \in Requests : rq[s].lock # l)
<1> DEFINE A == {lo[b] : b \in Addresses}
           R == {rq[s].lock : s \in Requests}
<1>1. IsFiniteSet(A) /\ Cardinality(A) <= Cardinality(Addresses)
  BY ImageFinite, GuardAssumption
<1>2. IsFiniteSet(R) /\ Cardinality(R) <= Cardinality(Requests)
  <2> DEFINE f == [s \in Requests |-> rq[s].lock]
  <2>1. R = {f[s] : s \in Requests}
    OBVIOUS
  <2> HIDE DEF f, R
  <2> QED BY <2>1, ImageFinite, GuardAssumption
<1>3. IsFiniteSet(A \cup R) /\ Cardinality(A \cup R) <= Cardinality(Addresses) + Cardinality(Requests)
  <2> HIDE DEF A, R
  <2>1. IsFiniteSet(A \cup R) /\ Cardinality(A \cup R) = Cardinality(A) + Cardinality(R) - Cardinality(A \cap R)
    BY <1>1, <1>2, FS_Union
  <2>2. IsFiniteSet(A \cap R)
    BY <1>1, FS_Intersection
  <2>3. Cardinality(A) \in Nat /\ Cardinality(R) \in Nat /\ Cardinality(A \cap R) \in Nat
        /\ Cardinality(Addresses) \in Nat /\ Cardinality(Requests) \in Nat
    BY <1>1, <1>2, <2>2, FS_CardinalityType, GuardAssumption
  <2> QED BY <1>1, <1>2, <2>1, <2>3
<1>4. ~(Locks \subseteq A \cup R)
  <2> SUFFICES ASSUME Locks \subseteq A \cup R PROVE FALSE
    OBVIOUS
  <2> HIDE DEF A, R
  <2>1. IsFiniteSet(Locks) /\ Cardinality(Locks) <= Cardinality(A \cup R)
    BY <1>3, FS_Subset
  <2>2. Cardinality(Locks) \in Nat /\ Cardinality(A \cup R) \in Nat
        /\ Cardinality(Addresses) \in Nat /\ Cardinality(Requests) \in Nat
    BY <1>3, <2>1, FS_CardinalityType, GuardAssumption
  <2> QED BY <1>3, <2>1, <2>2, GuardAssumption
<1> QED BY <1>4
\* A request that neither waits for a lock nor has one does not matter to the locks.
LEMMA NoMatter ==
    ASSUME NEW rq, NEW ws, NEW ld, NEW lo, NEW wa, Sound(rq, ws, ld, lo, wa),
           NEW r \in Requests, NEW q \in Attempts,
           rq[r].pc \notin Waits \cup Holds, q.pc \notin Waits \cup Holds
    PROVE  LET rq2 == [rq EXCEPT ![r] = q]
           IN  rq2 \in [Requests -> Attempts] /\ Linked(rq2, ws) /\ Turns(rq2, ws, ld) /\ Had(rq2, ld)
<1> DEFINE rq2 == [rq EXCEPT ![r] = q]
<1>1. rq \in [Requests -> Attempts] /\ rq2 \in [Requests -> Attempts]
  BY DEF Sound, Typed
<1>2. rq2[r] = q /\ \A s \in Requests : s # r => rq2[s] = rq[s]
  BY <1>1
<1> HIDE DEF rq2
<1>3. \A m \in Locks :
          /\ \A i \in 1..Len(ws[m]) : ws[m][i] \in Requests /\ ws[m][i] # r
          /\ Len(ws[m]) > 0 => ws[m][1] \in Requests /\ ws[m][1] # r
  BY WaitersAre DEF Sound
<1>4. Linked(rq2, ws)
  BY <1>2, <1>3 DEF Sound, Linked
<1>5. Turns(rq2, ws, ld)
  BY <1>2, <1>3 DEF Sound, Turns, Waits
<1>6. Had(rq2, ld)
  BY <1>2 DEF Sound, Had
<1> QED BY <1>1, <1>4, <1>5, <1>6 DEF rq2

\* A request enters the line of its address, with the address's lock or a new one.
LEMMA Enters ==
    ASSUME NEW rq, NEW ws, NEW ld, NEW lo, NEW wa, Sound(rq, ws, ld, lo, wa),
           NEW r \in Requests, NEW a \in Addresses, NEW l \in Locks, NEW q \in Attempts,
           rq[r].pc \notin InLines, q.pc = "expired", q.address = a, q.lock = l,
           wa[a] < MaxWaiting, lo[a] # None => l = lo[a]
    PROVE  Sound([rq EXCEPT ![r] = q], ws, ld, [lo EXCEPT ![a] = l], [wa EXCEPT ![a] = @ + 1])
<1> DEFINE rq2 == [rq EXCEPT ![r] = q]
           lo2 == [lo EXCEPT ![a] = l]
           wa2 == [wa EXCEPT ![a] = @ + 1]
<1>1. /\ rq \in [Requests -> Attempts] /\ ws \in [Locks -> Seq(Requests)] /\ ld \in [Locks -> BOOLEAN]
      /\ lo \in [Addresses -> Locks \cup {None}] /\ wa \in [Addresses -> Nat]
  BY DEF Sound, Typed
<1>2. rq2 \in [Requests -> Attempts] /\ Linked(rq2, ws) /\ Turns(rq2, ws, ld) /\ Had(rq2, ld)
  BY NoMatter DEF InLines, Waits, Holds
<1>3. rq2[r] = q /\ \A s \in Requests : s # r => rq2[s] = rq[s]
  BY <1>1
<1>4. lo2 \in [Addresses -> Locks \cup {None}] /\ lo2[a] = l /\ \A b \in Addresses : b # a => lo2[b] = lo[b]
  BY <1>1
<1>5. wa2 \in [Addresses -> Nat] /\ wa2[a] = wa[a] + 1 /\ \A b \in Addresses : b # a => wa2[b] = wa[b]
  BY <1>1
<1>6. Placed(rq2)
  BY <1>3 DEF Sound, Placed
<1>7. InLineOf(rq2, a) = InLineOf(rq, a) \cup {r} /\ r \notin InLineOf(rq, a)
  BY <1>3 DEF InLineOf, InLines
<1>8. Cardinality(InLineOf(rq2, a)) = Cardinality(InLineOf(rq, a)) + 1
  <2> HIDE DEF rq2
  <2> QED BY <1>7, LineFinite, FS_AddElement
<1>9. \A b \in Addresses : b # a => InLineOf(rq2, b) = InLineOf(rq, b)
  BY <1>3 DEF InLineOf
<1> HIDE DEF rq2, lo2, wa2
<1>10. \A b \in Addresses :
          /\ wa[b] = Cardinality(InLineOf(rq, b)) /\ wa[b] <= MaxWaiting
          /\ lo[b] = None <=> wa[b] = 0
          /\ \A s \in InLineOf(rq, b) : rq[s].lock = lo[b]
  BY DEF Sound, Lines
<1>11. \A s \in InLineOf(rq, a) : rq[s].lock = l
  <2>1. CASE lo[a] = None
    <3>1. InLineOf(rq, a) = {}
      BY <2>1, <1>10, LineFinite, FS_EmptySet
    <3> QED BY <3>1
  <2>2. CASE lo[a] # None
    BY <2>2, <1>10
  <2> QED BY <2>1, <2>2
<1>12. l # None
  BY GuardAssumption
<1>13. /\ wa2[a] = Cardinality(InLineOf(rq2, a))
       /\ wa2[a] <= MaxWaiting
       /\ lo2[a] = None <=> wa2[a] = 0
  BY <1>1, <1>4, <1>5, <1>8, <1>10, <1>12, GuardAssumption
<1>14. \A s \in InLineOf(rq2, a) : rq2[s].lock = lo2[a]
  BY <1>3, <1>4, <1>7, <1>11 DEF InLineOf
<1>15. ASSUME NEW b \in Addresses, b # a
       PROVE  /\ wa2[b] = Cardinality(InLineOf(rq2, b))
              /\ wa2[b] <= MaxWaiting
              /\ lo2[b] = None <=> wa2[b] = 0
              /\ \A s \in InLineOf(rq2, b) : rq2[s].lock = lo2[b]
  <2>1. \A s \in InLineOf(rq, b) : s # r /\ s \in Requests
    BY DEF InLineOf
  <2> QED BY <1>15, <2>1, <1>3, <1>4, <1>5, <1>9, <1>10
<1>16. Lines(rq2, lo2, wa2)
  BY <1>13, <1>14, <1>15 DEF Lines
<1> QED BY <1>1, <1>2, <1>4, <1>5, <1>6, <1>16 DEF Sound, Typed, rq2, lo2, wa2

LocksLeft(lo, wa, a) == IF wa[a] = 1 THEN [lo EXCEPT ![a] = None] ELSE lo

\* A request leaves the line of its address; the last one out takes the lock with it.
LEMMA Leaves ==
    ASSUME NEW rq, NEW ws, NEW ld, NEW lo, NEW wa, Sound(rq, ws, ld, lo, wa),
           NEW r \in Requests, NEW q \in Attempts, NEW a, a = rq[r].address,
           rq[r].pc = "expired", q.pc \notin InLines
    PROVE  Sound([rq EXCEPT ![r] = q], ws, ld, LocksLeft(lo, wa, a),
                 [wa EXCEPT ![a] = @ - 1])
<1> DEFINE rq2 == [rq EXCEPT ![r] = q]
           lo2 == IF wa[a] = 1 THEN [lo EXCEPT ![a] = None] ELSE lo
           wa2 == [wa EXCEPT ![a] = @ - 1]
<1>0. lo2 = LocksLeft(lo, wa, a)
  BY DEF LocksLeft
<1>1. /\ rq \in [Requests -> Attempts] /\ ws \in [Locks -> Seq(Requests)] /\ ld \in [Locks -> BOOLEAN]
      /\ lo \in [Addresses -> Locks \cup {None}] /\ wa \in [Addresses -> Nat]
  BY DEF Sound, Typed
<1>2. rq2 \in [Requests -> Attempts] /\ Linked(rq2, ws) /\ Turns(rq2, ws, ld) /\ Had(rq2, ld)
  BY NoMatter DEF InLines, Waits, Holds
<1>3. rq2[r] = q /\ \A s \in Requests : s # r => rq2[s] = rq[s]
  BY <1>1
<1>4. a \in Addresses
  BY DEF Sound, Placed, InLines
<1>5. /\ lo2 \in [Addresses -> Locks \cup {None}]
      /\ lo2[a] = IF wa[a] = 1 THEN None ELSE lo[a]
      /\ \A b \in Addresses : b # a => lo2[b] = lo[b]
  BY <1>1, <1>4
<1>6. r \in InLineOf(rq, a)
  BY DEF InLineOf, InLines
<1>7. InLineOf(rq2, a) = InLineOf(rq, a) \ {r}
  BY <1>3 DEF InLineOf
<1>8. /\ Cardinality(InLineOf(rq2, a)) = Cardinality(InLineOf(rq, a)) - 1
      /\ Cardinality(InLineOf(rq2, a)) \in Nat
  <2> HIDE DEF rq2
  <2>1. Cardinality(InLineOf(rq, a) \ {r}) = Cardinality(InLineOf(rq, a)) - 1
    BY <1>6, LineFinite, FS_RemoveElement
  <2> QED BY <1>7, <2>1, LineFinite
<1>9. \A b \in Addresses : b # a => InLineOf(rq2, b) = InLineOf(rq, b)
  BY <1>3 DEF InLineOf
<1>10. \A b \in Addresses :
          /\ wa[b] = Cardinality(InLineOf(rq, b)) /\ wa[b] <= MaxWaiting
          /\ lo[b] = None <=> wa[b] = 0
          /\ \A s \in InLineOf(rq, b) : rq[s].lock = lo[b]
  BY DEF Sound, Lines
<1>11. wa[a] - 1 \in Nat /\ wa[a] - 1 = Cardinality(InLineOf(rq2, a)) /\ wa[a] \in Nat
  BY <1>1, <1>4, <1>8, <1>10
<1>12. wa2 \in [Addresses -> Nat] /\ wa2[a] = wa[a] - 1 /\ \A b \in Addresses : b # a => wa2[b] = wa[b]
  BY <1>1, <1>4, <1>11
<1>13. Placed(rq2)
  BY <1>3 DEF Sound, Placed
<1> HIDE DEF rq2, lo2, wa2
<1>14. /\ wa2[a] = Cardinality(InLineOf(rq2, a))
       /\ wa2[a] <= MaxWaiting
       /\ lo2[a] = None <=> wa2[a] = 0
  BY <1>4, <1>5, <1>10, <1>11, <1>12, GuardAssumption
<1>15. \A s \in InLineOf(rq2, a) : rq2[s].lock = lo2[a]
  <2>1. CASE wa[a] = 1
    <3>1. InLineOf(rq2, a) = {}
      BY <2>1, <1>11, LineFinite, FS_EmptySet
    <3> QED BY <3>1
  <2>2. CASE wa[a] # 1
    <3>1. \A s \in InLineOf(rq2, a) : s \in Requests /\ s # r /\ s \in InLineOf(rq, a)
      BY <1>7 DEF InLineOf
    <3> QED BY <2>2, <3>1, <1>3, <1>4, <1>5, <1>10
  <2> QED BY <2>1, <2>2
<1>16. ASSUME NEW b \in Addresses, b # a
       PROVE  /\ wa2[b] = Cardinality(InLineOf(rq2, b))
              /\ wa2[b] <= MaxWaiting
              /\ lo2[b] = None <=> wa2[b] = 0
              /\ \A s \in InLineOf(rq2, b) : rq2[s].lock = lo2[b]
  <2>1. \A s \in InLineOf(rq, b) : s # r /\ s \in Requests
    BY <1>16 DEF InLineOf
  <2> QED BY <1>16, <2>1, <1>3, <1>5, <1>9, <1>10, <1>12
<1>17. Lines(rq2, lo2, wa2)
  BY <1>14, <1>15, <1>16 DEF Lines
<1>18. Sound(rq2, ws, ld, lo2, wa2)
  BY <1>1, <1>2, <1>5, <1>12, <1>13, <1>17 DEF Sound, Typed
<1> QED BY <1>0, <1>18 DEF rq2, wa2
-----------------------------------------------------------------------------
(***************************************************************************)
(* The ways into the line, and the ways out.                               *)
(***************************************************************************)
LEMMA WokenTyped ==
    ASSUME NEW rq \in [Requests -> Attempts], NEW line \in Seq(Requests)
    PROVE  Woken(line, rq) \in [Requests -> Attempts]
<1>1. CASE line # <<>> /\ rq[Head(line)].pc = "queued"
  <2> DEFINE h == Head(line)
             g == [rq[h] EXCEPT !.pc = "granted"]
  <2>1. h \in Requests
    BY <1>1
  <2>2. g \in Attempts
    BY <2>1 DEF Attempts, States
  <2>3. Woken(line, rq) = [rq EXCEPT ![h] = g]
    BY <1>1 DEF Woken
  <2> HIDE DEF g, h
  <2> QED BY <2>1, <2>2, <2>3
<1>2. CASE ~(line # <<>> /\ rq[Head(line)].pc = "queued")
  BY <1>2 DEF Woken
<1> QED BY <1>1, <1>2

LEMMA Twice ==
    ASSUME NEW S, NEW T, NEW f \in [S -> T], NEW x \in S, NEW y, NEW z
    PROVE  [[f EXCEPT ![x] = y] EXCEPT ![x] = z] = [f EXCEPT ![x] = z]
OBVIOUS

\* A request enters its line and has the lock at once.
LEMMA Starts ==
    ASSUME NEW rq, NEW ws, NEW ld, NEW lo, NEW wa, Sound(rq, ws, ld, lo, wa),
           NEW r \in Requests, NEW a \in Addresses, NEW l \in Locks, NEW q \in Attempts,
           rq[r].pc \notin InLines, q.pc \in Holds, q.address = a, q.lock = l,
           wa[a] < MaxWaiting, lo[a] # None => l = lo[a],
           ~ld[l], \A i \in 1..Len(ws[l]) : rq[ws[l][i]].pc = "late"
    PROVE  Sound([rq EXCEPT ![r] = q], ws, [ld EXCEPT ![l] = TRUE], [lo EXCEPT ![a] = l],
                 [wa EXCEPT ![a] = @ + 1])
<1> DEFINE e == [q EXCEPT !.pc = "expired"]
           rq1 == [rq EXCEPT ![r] = e]
           lo2 == [lo EXCEPT ![a] = l]
           wa2 == [wa EXCEPT ![a] = @ + 1]
<1>1. e \in Attempts /\ e.pc = "expired" /\ e.address = a /\ e.lock = l
  BY DEF Attempts, States
<1> HIDE DEF e
<1>2. Sound(rq1, ws, ld, lo2, wa2)
  BY <1>1, Enters
<1>3. rq \in [Requests -> Attempts]
  BY DEF Sound, Typed
<1>4. rq1[r] = e /\ \A s \in Requests : s # r => rq1[s] = rq[s]
  BY <1>3
<1>5. \A i \in 1..Len(ws[l]) : ws[l][i] \in Requests /\ ws[l][i] # r
  BY WaitersAre DEF Sound, InLines
<1>6. \A i \in 1..Len(ws[l]) : rq1[ws[l][i]].pc = "late"
  BY <1>4, <1>5
<1>7. [rq1 EXCEPT ![r] = q] = [rq EXCEPT ![r] = q]
  BY <1>3, Twice
<1> HIDE DEF rq1, lo2, wa2
<1>8. Sound([rq1 EXCEPT ![r] = q], ws, [ld EXCEPT ![l] = TRUE], lo2, wa2)
  BY <1>1, <1>2, <1>4, <1>6, TakesAtOnce
<1> QED BY <1>7, <1>8 DEF lo2, wa2

\* A request enters its line and waits for the lock.
LEMMA Queues ==
    ASSUME NEW rq, NEW ws, NEW ld, NEW lo, NEW wa, Sound(rq, ws, ld, lo, wa),
           NEW r \in Requests, NEW a \in Addresses, NEW l \in Locks, NEW q \in Attempts,
           rq[r].pc \notin InLines, q.pc = "queued", q.address = a, q.lock = l,
           wa[a] < MaxWaiting, lo[a] # None => l = lo[a],
           ld[l] \/ \E i \in 1..Len(ws[l]) : rq[ws[l][i]].pc # "late"
    PROVE  Sound([rq EXCEPT ![r] = q], [ws EXCEPT ![l] = Append(@, r)], ld, [lo EXCEPT ![a] = l],
                 [wa EXCEPT ![a] = @ + 1])
<1> DEFINE e == [q EXCEPT !.pc = "expired"]
           rq1 == [rq EXCEPT ![r] = e]
           lo2 == [lo EXCEPT ![a] = l]
           wa2 == [wa EXCEPT ![a] = @ + 1]
<1>1. e \in Attempts /\ e.pc = "expired" /\ e.address = a /\ e.lock = l
  BY DEF Attempts, States
<1> HIDE DEF e
<1>2. Sound(rq1, ws, ld, lo2, wa2)
  BY <1>1, Enters
<1>3. rq \in [Requests -> Attempts]
  BY DEF Sound, Typed
<1>4. rq1[r] = e /\ \A s \in Requests : s # r => rq1[s] = rq[s]
  BY <1>3
<1>5. \A i \in 1..Len(ws[l]) : ws[l][i] \in Requests /\ ws[l][i] # r
  BY WaitersAre DEF Sound, InLines
<1>6. ld[l] \/ \E i \in 1..Len(ws[l]) : rq1[ws[l][i]].pc # "late"
  BY <1>4, <1>5
<1>7. [rq1 EXCEPT ![r] = q] = [rq EXCEPT ![r] = q]
  BY <1>3, Twice
<1> HIDE DEF rq1, lo2, wa2
<1>8. Sound([rq1 EXCEPT ![r] = q], [ws EXCEPT ![l] = Append(@, r)], ld, lo2, wa2)
  BY <1>1, <1>2, <1>4, <1>6, Joins
<1> QED BY <1>7, <1>8 DEF lo2, wa2

\* Resolving the flight of r changes r and its followers, who are in no line.
LEMMA ResolvedIs ==
    ASSUME NEW rs \in [Requests -> Attempts], NEW r \in Requests, NEW o \in Outcomes
    PROVE  LET rq2 == Resolved(r, o, rs)
           IN  /\ rq2 \in [Requests -> Attempts] /\ rq2[r] = NoRequest
               /\ \A s \in Requests : s # r =>
                     /\ rq2[s].address = rs[s].address /\ rq2[s].cred = rs[s].cred
                     /\ rq2[s].lock = rs[s].lock /\ rq2[s].paid = rs[s].paid
                     /\ rq2[s].pc = rs[s].pc \/ (rq2[s].pc = "resolved" /\ rs[s].pc = "following")
<1> DEFINE rq2 == Resolved(r, o, rs)
           h(s) == [rs[s] EXCEPT !.pc = "resolved", !.outcome = o]
<1>1. NoRequest \in Attempts
  BY DEF NoRequest, Attempts, States
<1>2. \A s \in Requests :
          /\ h(s) \in Attempts /\ h(s).pc = "resolved" /\ h(s).address = rs[s].address
          /\ h(s).cred = rs[s].cred /\ h(s).lock = rs[s].lock /\ h(s).paid = rs[s].paid
  BY DEF Attempts, States
<1>3. rq2 = [s \in Requests |-> IF s = r THEN NoRequest
                                ELSE IF rs[s].pc = "following" /\ rs[s].leader = r THEN h(s) ELSE rs[s]]
  BY DEF Resolved
<1> HIDE DEF rq2, h
<1>4. rq2 \in [Requests -> Attempts]
  BY <1>1, <1>2, <1>3
<1>5. rq2[r] = NoRequest
  BY <1>3
<1>6. \A s \in Requests : s # r => rq2[s] = rs[s] \/ (rq2[s] = h(s) /\ rs[s].pc = "following")
  BY <1>3
<1> QED BY <1>2, <1>4, <1>5, <1>6 DEF rq2

\* r leaves its line and is resolved: e is rs with r on the way out.
LEMMA LeavesResolved ==
    ASSUME NEW rs \in [Requests -> Attempts], NEW e \in [Requests -> Attempts],
           NEW ws, NEW ld, NEW lo, NEW wa, Sound(e, ws, ld, lo, wa),
           NEW r \in Requests, NEW o \in Outcomes, NEW a, a = e[r].address, e[r].pc = "expired",
           \A s \in Requests : s # r => e[s] = rs[s]
    PROVE  Sound(Resolved(r, o, rs), ws, ld, LocksLeft(lo, wa, a),
                 [wa EXCEPT ![a] = @ - 1])
<1> DEFINE lo2 == LocksLeft(lo, wa, a)
           wa2 == [wa EXCEPT ![a] = @ - 1]
           rq1 == [e EXCEPT ![r] = NoRequest]
           rq2 == Resolved(r, o, rs)
<1>1. NoRequest \in Attempts /\ NoRequest.pc \notin InLines
  BY DEF NoRequest, Attempts, States, InLines, Waits, Holds
<1>2. Sound(rq1, ws, ld, lo2, wa2)
  BY <1>1, Leaves
<1>3. rq1[r] = NoRequest /\ \A s \in Requests : s # r => rq1[s] = rs[s]
  OBVIOUS
<1>4. /\ rq2 \in [Requests -> Attempts] /\ rq2[r] = NoRequest
      /\ \A s \in Requests : s # r =>
            /\ rq2[s].address = rs[s].address /\ rq2[s].lock = rs[s].lock
            /\ rq2[s].pc = rs[s].pc \/ (rq2[s].pc = "resolved" /\ rs[s].pc = "following")
  BY ResolvedIs
<1> HIDE DEF rq1, rq2, lo2, wa2
<1>5. \A s \in Requests :
          StaysInLine(rq1[s], rq2[s]) /\ (rq1[s].pc \in InLines => rq2[s].pc = rq1[s].pc)
  BY <1>1, <1>3, <1>4 DEF StaysInLine, InLines, Waits, Holds
<1>6. Sound(rq2, ws, ld, lo2, wa2)
  BY <1>2, <1>4, <1>5, Outside
<1> QED BY <1>6 DEF rq2, lo2, wa2

\* The request that has the lock gives it up, leaves and is resolved.
LEMMA EndsHolding ==
    ASSUME NEW rq, NEW ws, NEW ld, NEW lo, NEW wa, Sound(rq, ws, ld, lo, wa),
           NEW r \in Requests, NEW o \in Outcomes, NEW a, a = rq[r].address,
           NEW l, l = rq[r].lock, rq[r].pc \in Holds
    PROVE  Sound(Resolved(r, o, Woken(ws[l], rq)), ws, [ld EXCEPT ![l] = FALSE],
                 LocksLeft(lo, wa, a), [wa EXCEPT ![a] = @ - 1])
<1> DEFINE q == [rq[r] EXCEPT !.pc = "expired"]
           rs == Woken(ws[l], rq)
           e == [rs EXCEPT ![r] = q]
<1>1. rq \in [Requests -> Attempts] /\ l \in Locks
  BY DEF Sound, Typed, Placed, InLines
<1>2. q \in Attempts /\ q.pc = "expired" /\ q.address = a /\ q.lock = l
  BY <1>1 DEF Attempts, States
<1> HIDE DEF q
<1>3. ws[l] \in Seq(Requests) /\ \A i \in 1..Len(ws[l]) : ws[l][i] # r
  BY <1>1, WaitersAre DEF Sound, Waits, Holds
<1>4. e \in [Requests -> Attempts] /\ Handed(rq, e, r, ws[l])
  BY <1>1, <1>2, <1>3, WakesUp
<1>5. rs \in [Requests -> Attempts]
  BY <1>1, <1>3, WokenTyped
<1>6. e[r] = q /\ \A s \in Requests : s # r => e[s] = rs[s]
  BY <1>5
<1> HIDE DEF e, rs
<1>7. Sound(e, ws, [ld EXCEPT ![l] = FALSE], lo, wa)
  BY <1>1, <1>4, Releases
<1>8. Sound(Resolved(r, o, rs), ws, [ld EXCEPT ![l] = FALSE],
            LocksLeft(lo, wa, a), [wa EXCEPT ![a] = @ - 1])
  BY <1>2, <1>4, <1>5, <1>6, <1>7, LeavesResolved
<1> QED BY <1>8 DEF rs
\* The head of the line has the turn, unless somebody has the lock.
PassedOn(rq, line, held) == IF held THEN rq ELSE Woken(line, rq)

WayOut(p) == [p EXCEPT !.pc = "expired"]

\* rs, with r out of the waiters and on the way out of the line, is as it should be.
SteppedOut(rq, rs, r, ws, ld, lo, wa) ==
    /\ rs \in [Requests -> Attempts] /\ rs[r] = rq[r]
    /\ [rs EXCEPT ![r] = WayOut(rq[r])] \in [Requests -> Attempts]
    /\ Sound([rs EXCEPT ![r] = WayOut(rq[r])], ws, ld, lo, wa)

\* A wait that ended is resumed: out of the waiters, and a turn it had is passed on.
LEMMA WaitOver ==
    ASSUME NEW rq, NEW ws, NEW ws2, NEW ld, NEW lo, NEW wa, Sound(rq, ws, ld, lo, wa),
           NEW r \in Requests, NEW l \in Locks, l = rq[r].lock, NEW i \in 1..Len(ws[l]),
           rq[r].pc \in {"late", "revoked"}, ws[l][i] = r, TakenOut(ws, ws2, l, i)
    PROVE  SteppedOut(rq, PassedOn(rq, ws2[l], ld[l]), r, ws2, ld, lo, wa)
<1> DEFINE q == WayOut(rq[r])
           rs == PassedOn(rq, ws2[l], ld[l])
           e == [rs EXCEPT ![r] = q]
<1>1. /\ rq \in [Requests -> Attempts] /\ ws \in [Locks -> Seq(Requests)] /\ ld \in [Locks -> BOOLEAN]
      /\ l \in Locks
  BY DEF Sound, Typed, Placed, InLines, Waits
<1>2. q \in Attempts /\ q.pc = "expired" /\ q.address = rq[r].address /\ q.lock = rq[r].lock
  BY <1>1 DEF Attempts, States, WayOut
<1>9. q = WayOut(rq[r])
  OBVIOUS
<1> HIDE DEF q
<1>3. ws[l] \in Seq(Requests) /\ \A j, k \in 1..Len(ws[l]) : ws[l][j] = ws[l][k] => j = k
  BY <1>1 DEF Sound, Linked
<1>4. ws2[l] = Dropping(ws[l], i)
  BY <1>1 DEF TakenOut
<1>5. ws2[l] \in Seq(Requests) /\ \A j \in 1..Len(ws2[l]) : \E k \in 1..Len(ws[l]) : k # i /\ ws2[l][j] = ws[l][k]
  <2>1. /\ Dropping(ws[l], i) \in Seq(Requests)
        /\ \A j \in 1..Len(Dropping(ws[l], i)) :
              \E k \in 1..Len(ws[l]) : k # i /\ Dropping(ws[l], i)[j] = ws[l][k]
    BY <1>3, DroppedIs
  <2> QED BY <2>1, <1>4
<1>6. \A j \in 1..Len(ws2[l]) : ws2[l][j] # r
  BY <1>3, <1>5
<1>7. CASE ld[l]
  <2>1. rs = rq
    BY <1>7 DEF PassedOn
  <2>2. e \in [Requests -> Attempts] /\ e[r] = q /\ \A s \in Requests : s # r => e[s] = rq[s]
    BY <2>1, <1>1, <1>2
  <2> HIDE DEF e
  <2>3. Handed(rq, e, r, <<>>)
    BY <2>2, <1>2 DEF Handed
  <2>4. Handed(rq, e, r, IF ld[l] THEN <<>> ELSE ws2[l])
    BY <2>3, <1>7
  <2>5. Sound(e, ws2, ld, lo, wa)
    BY <1>1, <2>2, <2>4, StepsOut
  <2> HIDE DEF rs
  <2> QED BY <2>1, <2>2, <2>5, <1>1, <1>9 DEF e, SteppedOut, rs
<1>8. CASE ~ld[l]
  <2>1. rs = Woken(ws2[l], rq)
    BY <1>8 DEF PassedOn
  <2>2. rs \in [Requests -> Attempts]
    BY <2>1, <1>1, <1>5, WokenTyped
  <2>3. e \in [Requests -> Attempts] /\ Handed(rq, e, r, ws2[l])
    BY <2>1, <1>1, <1>2, <1>5, <1>6, WakesUp
  <2>4. rs[r] = rq[r]
    <3> DEFINE h == Head(ws2[l])
    <3>1. ws2[l] # <<>> => h \in Requests /\ h # r
      BY <1>5, <1>6
    <3>2. rs = rq \/ (ws2[l] # <<>> /\ rs = [rq EXCEPT ![h].pc = "granted"])
      BY <2>1 DEF Woken
    <3> HIDE DEF h
    <3> QED BY <3>1, <3>2, <1>1
  <2> HIDE DEF e
  <2>5. Handed(rq, e, r, IF ld[l] THEN <<>> ELSE ws2[l])
    BY <2>3, <1>8
  <2>6. Sound(e, ws2, ld, lo, wa)
    BY <1>1, <2>3, <2>5, StepsOut
  <2> HIDE DEF rs
  <2> QED BY <2>2, <2>3, <2>4, <2>6, <1>9 DEF e, SteppedOut, rs
<1> QED BY <1>7, <1>8

-----------------------------------------------------------------------------
(***************************************************************************)
(* The flights.                                                            *)
(***************************************************************************)

\* A step in which nobody gets past the flight.
StaysAside(p, q) ==
    /\ q.pc # "idle" => p.pc # "idle" /\ q.address = p.address /\ q.cred = p.cred
    /\ q.pc \notin Asides => p.pc \notin Asides

LEMMA FlownKept ==
    ASSUME NEW rq, NEW rq2, NEW fl, Flown(rq, fl), \A s \in Requests : StaysAside(rq[s], rq2[s])
    PROVE  Flown(rq2, fl)
BY DEF Flown, StaysAside, Asides

LEMMA FlownEnds ==
    ASSUME NEW rq, NEW rq2, NEW fl, Flown(rq, fl), NEW r \in Requests,
           rq[r].pc \notin Asides, rq2[r].pc = "idle",
           \A s \in Requests : s # r => StaysAside(rq[s], rq2[s])
    PROVE  Flown(rq2, [fl EXCEPT ![rq[r].cred] = None])
<1> DEFINE c == rq[r].cred
           fl2 == [fl EXCEPT ![c] = None]
<1>1. fl \in [Credentials -> Requests \cup {None}] /\ fl[c] = r /\ c \in Credentials
  BY DEF Flown, Asides
<1>2. fl2 \in [Credentials -> Requests \cup {None}] /\ \A d \in Credentials : d # c => fl2[d] = fl[d]
  BY <1>1
<1> HIDE DEF fl2
<1>3. \A s \in Requests : rq2[s].pc # "idle" => rq2[s].address \in Addresses /\ rq2[s].cred \in Credentials
  BY DEF Flown, StaysAside
<1>4. ASSUME NEW s \in Requests, rq2[s].pc \notin Asides PROVE fl2[rq2[s].cred] = s
  <2>1. s # r /\ rq[s].pc \notin Asides /\ rq2[s].cred = rq[s].cred /\ rq[s].cred \in Credentials
    BY <1>4 DEF Flown, StaysAside, Asides
  <2>2. fl[rq[s].cred] = s
    BY <2>1 DEF Flown
  <2> QED BY <2>1, <2>2, <1>1, <1>2
<1> QED BY <1>2, <1>3, <1>4 DEF Flown, fl2

LEMMA FlownLeads ==
    ASSUME NEW rq \in [Requests -> Attempts], NEW fl, Flown(rq, fl), NEW r \in Requests, NEW q,
           q.address \in Addresses, q.cred \in Credentials, fl[q.cred] = None
    PROVE  Flown([rq EXCEPT ![r] = q], [fl EXCEPT ![q.cred] = r])
<1> DEFINE rq2 == [rq EXCEPT ![r] = q]
           fl2 == [fl EXCEPT ![q.cred] = r]
<1>1. rq2[r] = q /\ \A s \in Requests : s # r => rq2[s] = rq[s]
  OBVIOUS
<1>2. fl \in [Credentials -> Requests \cup {None}]
  BY DEF Flown
<1>3. /\ fl2 \in [Credentials -> Requests \cup {None}] /\ fl2[q.cred] = r
      /\ \A d \in Credentials : d # q.cred => fl2[d] = fl[d]
  BY <1>2
<1> HIDE DEF rq2, fl2
<1>4. \A s \in Requests : rq2[s].pc # "idle" => rq2[s].address \in Addresses /\ rq2[s].cred \in Credentials
  BY <1>1 DEF Flown
<1>5. ASSUME NEW s \in Requests, s # r, rq[s].pc \notin Asides PROVE fl2[rq[s].cred] = s
  <2>1. fl[rq[s].cred] = s /\ rq[s].cred \in Credentials
    BY <1>5 DEF Flown, Asides
  <2>2. s # None
    BY GuardAssumption
  <2> QED BY <2>1, <2>2, <1>3
<1> QED BY <1>1, <1>3, <1>4, <1>5 DEF Flown, rq2, fl2

LEMMA FlownFollows ==
    ASSUME NEW rq \in [Requests -> Attempts], NEW fl, Flown(rq, fl), NEW r \in Requests, NEW q,
           q.address \in Addresses, q.cred \in Credentials, q.pc \in Asides
    PROVE  Flown([rq EXCEPT ![r] = q], fl)
BY DEF Flown, Asides

-----------------------------------------------------------------------------
(***************************************************************************)
(* The delay.                                                              *)
(***************************************************************************)
ExponentOf(ba, bc, q) ==
    LET own == bc[<<q.address, UserOf[q.cred]>>]
        shared == ba[q.address]
    IN  IF shared > own + Grace THEN shared - Grace ELSE own

\* DelayPaid of any requests and counts.
Paid(rq, ba, bc) ==
    \A r \in Requests : rq[r].pc \in {"sleeping", "checking"} => ExponentOf(ba, bc, rq[r]) <= rq[r].paid

LEMMA DelayPaidIs == DelayPaid <=> Paid(req, byAddress, byAccount)
BY DEF DelayPaid, Paid, Exponent, ExponentOf, AccountKey

LEMMA DelayPaidNext == DelayPaid' <=> Paid(req', byAddress', byAccount')
BY DEF DelayPaid, Paid, Exponent, ExponentOf, AccountKey

StaysPaid(p, q) ==
    q.pc \in {"sleeping", "checking"} =>
        p.pc \in {"sleeping", "checking"} /\ q.address = p.address /\ q.cred = p.cred /\ q.paid = p.paid

LEMMA PaidKept ==
    ASSUME NEW rq, NEW rq2, NEW ba, NEW bc, Paid(rq, ba, bc), \A s \in Requests : StaysPaid(rq[s], rq2[s])
    PROVE  Paid(rq2, ba, bc)
BY DEF Paid, StaysPaid, ExponentOf

Times(ba, bc) ==
    ba \in [Addresses -> 0..MaxFailures] /\ bc \in [Addresses \X Users -> 0..MaxFailures]

\* Counts that clear only shorten the delays.
LEMMA PaidClears ==
    ASSUME NEW rq \in [Requests -> Attempts], NEW fl, NEW ba, NEW bc, NEW ba2, NEW bc2,
           Flown(rq, fl), Paid(rq, ba, bc), Times(ba, bc), Times(ba2, bc2),
           \A a \in Addresses : ba2[a] <= ba[a], \A k \in Addresses \X Users : bc2[k] <= bc[k]
    PROVE  Paid(rq, ba2, bc2)
<1> SUFFICES ASSUME NEW r \in Requests, rq[r].pc \in {"sleeping", "checking"}
             PROVE  ExponentOf(ba2, bc2, rq[r]) <= rq[r].paid
  BY DEF Paid
<1> DEFINE a == rq[r].address
           k == <<a, UserOf[rq[r].cred]>>
<1>1. a \in Addresses /\ k \in Addresses \X Users
  BY DEF Flown, Users
<1>2. rq[r].paid \in Nat
  BY DEF Attempts
<1>3. /\ ba[a] \in Nat /\ ba2[a] \in Nat /\ bc[k] \in Nat /\ bc2[k] \in Nat
      /\ ba2[a] <= ba[a] /\ bc2[k] <= bc[k] /\ Grace \in Nat
  BY <1>1, GuardAssumption DEF Times
<1>4. (IF ba[a] > bc[k] + Grace THEN ba[a] - Grace ELSE bc[k]) <= rq[r].paid
  BY DEF Paid, ExponentOf
<1>5. ExponentOf(ba2, bc2, rq[r]) = IF ba2[a] > bc2[k] + Grace THEN ba2[a] - Grace ELSE bc2[k]
  BY DEF ExponentOf
<1> HIDE DEF a, k
<1> QED BY <1>2, <1>3, <1>4, <1>5

\* A request that computes its delay now owes no more than it pays.
LEMMA GuardedIs ==
    ASSUME NEW q \in Attempts, q.address \in Addresses, q.cred \in Credentials, Counts
    PROVE  /\ Guarded(q) \in Attempts /\ Guarded(q).pc \in {"sleeping", "checking"}
           /\ Guarded(q).address = q.address /\ Guarded(q).lock = q.lock /\ Guarded(q).cred = q.cred
           /\ ExponentOf(byAddress, byAccount, Guarded(q)) <= Guarded(q).paid
<1>1. AccountKey(q) \in Addresses \X Users
  BY DEF AccountKey, Users
<1>2. byAccount[AccountKey(q)] \in Nat /\ byAddress[q.address] \in Nat /\ Grace \in Nat
  BY <1>1, GuardAssumption DEF Counts
<1>3. Exponent(q) \in Nat
  BY <1>2 DEF Exponent
<1>4. /\ Guarded(q) \in Attempts /\ Guarded(q).pc \in {"sleeping", "checking"}
      /\ Guarded(q).address = q.address /\ Guarded(q).lock = q.lock /\ Guarded(q).cred = q.cred
      /\ Guarded(q).paid = Exponent(q)
  BY <1>3 DEF Guarded, Attempts, States
<1>5. ExponentOf(byAddress, byAccount, Guarded(q)) = Exponent(q)
  BY <1>4 DEF ExponentOf, Exponent, AccountKey
<1> QED BY <1>3, <1>4, <1>5
LEMMA PaidWith ==
    ASSUME NEW rq \in [Requests -> Attempts], NEW ba, NEW bc, Paid(rq, ba, bc), NEW r \in Requests, NEW q,
           q.pc \in {"sleeping", "checking"} => ExponentOf(ba, bc, q) <= q.paid
    PROVE  Paid([rq EXCEPT ![r] = q], ba, bc)
<1> DEFINE rq2 == [rq EXCEPT ![r] = q]
<1>1. rq2[r] = q /\ \A s \in Requests : s # r => rq2[s] = rq[s]
  OBVIOUS
<1> HIDE DEF rq2
<1>2. Paid(rq2, ba, bc)
  BY <1>1 DEF Paid
<1> QED BY <1>2 DEF rq2

-----------------------------------------------------------------------------
(***************************************************************************)
(* The steps.                                                              *)
(***************************************************************************)
LEMMA TypesOf ==
    ASSUME IInv
    PROVE  /\ req \in [Requests -> Attempts] /\ waiters \in [Locks -> Seq(Requests)]
           /\ locked \in [Locks -> BOOLEAN] /\ locks \in [Addresses -> Locks \cup {None}]
           /\ waiting \in [Addresses -> Nat]
           /\ flights \in [Credentials -> Requests \cup {None}]
           /\ Times(byAddress, byAccount) /\ Paid(req, byAddress, byAccount)
BY DelayPaidIs DEF IInv, Sound, Typed, Flown, Counts, Times

\* A request becomes a leader, in the state q.
LEMMA LeadsOn ==
    ASSUME IInv, NEW r \in Requests, NEW q \in Attempts, q.address \in Addresses, q.cred \in Credentials,
           flights[q.cred] = None, req' = [req EXCEPT ![r] = q], flights' = [flights EXCEPT ![q.cred] = r],
           UNCHANGED <<byAddress, byAccount, interrupts>>,
           q.pc \in {"sleeping", "checking"} => ExponentOf(byAddress, byAccount, q) <= q.paid,
           Sound(req', waiters', locked', locks', waiting')
    PROVE  IInv'
<1>1. Flown(req', flights')
  BY TypesOf, FlownLeads DEF IInv
<1>2. Paid(req', byAddress, byAccount)
  BY TypesOf, PaidWith
<1>3. DelayPaid'
  BY <1>2, DelayPaidNext
<1> QED BY <1>1, <1>3 DEF IInv, Counts

LEMMA LeadKeeps ==
    ASSUME IInv, NEW r \in Requests, NEW q \in Attempts, q.address \in Addresses, q.cred \in Credentials,
           req[r].pc \in Asides, flights[q.cred] = None, Lead(r, q)
    PROVE  IInv'
<1> DEFINE a == q.address
           fresh == CHOOSE m \in Locks :
                    /\ \A b \in Addresses : locks[b] # m
                    /\ \A s \in Requests : req[s].lock # m
           l == IF locks[a] = None THEN fresh ELSE locks[a]
<1>1. fresh \in Locks
  BY FreshLock
<1>2. l \in Locks /\ (locks[a] # None => l = locks[a])
  BY <1>1, TypesOf
<1>3. req[r].pc \notin InLines
  BY DEF Asides, InLines, Waits, Holds
<1>4. /\ flights' = [flights EXCEPT ![q.cred] = r] /\ UNCHANGED <<byAddress, byAccount, interrupts>>
      /\ Sound(req, waiters, locked, locks, waiting)
  BY DEF Lead, IInv
<1>5. ASSUME req' = [req EXCEPT ![r] = [q EXCEPT !.pc = "refused"]], UNCHANGED <<waiting, locks, locked, waiters>>
      PROVE  IInv'
  <2> DEFINE q2 == [q EXCEPT !.pc = "refused"]
  <2>1. q2 \in Attempts /\ q2.pc = "refused" /\ q2.address = q.address /\ q2.cred = q.cred
    BY DEF Attempts, States
  <2> HIDE DEF q2
  <2>2. req' = [req EXCEPT ![r] = q2]
    BY <1>5 DEF q2
  <2>3. req' \in [Requests -> Attempts] /\ req'[r] = q2 /\ \A s \in Requests : s # r => req'[s] = req[s]
    BY <2>1, <2>2, TypesOf
  <2>4. \A s \in Requests :
            StaysInLine(req[s], req'[s]) /\ (req[s].pc \in InLines => req'[s].pc = req[s].pc)
    BY <1>3, <2>1, <2>3 DEF StaysInLine, InLines, Waits, Holds
  <2>5. Sound(req', waiters, locked, locks, waiting)
    BY <1>4, <2>3, <2>4, Outside
  <2>6. Sound(req', waiters', locked', locks', waiting')
    BY <1>5, <2>5
  <2> QED BY <1>4, <2>1, <2>2, <2>6, LeadsOn
<1>6. ASSUME waiting[a] < MaxWaiting, waiting' = [waiting EXCEPT ![a] = @ + 1], locks' = [locks EXCEPT ![a] = l],
             AtOnce(l), locked' = [locked EXCEPT ![l] = TRUE],
             req' = [req EXCEPT ![r] = Guarded([q EXCEPT !.lock = l])], waiters' = waiters
      PROVE  IInv'
  <2> DEFINE q1 == [q EXCEPT !.lock = l]
             q2 == Guarded(q1)
  <2> HIDE DEF l
  <2>1. q1 \in Attempts /\ q1.address = q.address /\ q1.cred = q.cred /\ q1.lock = l
    BY <1>2 DEF Attempts
  <2> HIDE DEF q1
  <2>2. /\ q2 \in Attempts /\ q2.pc \in {"sleeping", "checking"}
        /\ q2.address = q.address /\ q2.lock = l /\ q2.cred = q.cred
        /\ ExponentOf(byAddress, byAccount, q2) <= q2.paid
    BY <2>1, GuardedIs DEF IInv
  <2> HIDE DEF q2
  <2>3. req' = [req EXCEPT ![r] = q2]
    BY <1>6 DEF q1, q2
  <2>4. ~locked[l] /\ \A i \in 1..Len(waiters[l]) : req[waiters[l][i]].pc = "late"
    BY <1>6 DEF AtOnce
  <2>5. q2.pc \in Holds
    BY <2>2 DEF Holds
  <2>6. Sound([req EXCEPT ![r] = q2], waiters, [locked EXCEPT ![l] = TRUE], [locks EXCEPT ![a] = l],
              [waiting EXCEPT ![a] = @ + 1])
    BY <1>2, <1>3, <1>4, <1>6, <2>2, <2>4, <2>5, Starts
  <2>7. Sound(req', waiters', locked', locks', waiting')
    BY <1>6, <2>3, <2>6
  <2> QED BY <1>4, <2>2, <2>3, <2>7, LeadsOn
<1>7. ASSUME waiting[a] < MaxWaiting, waiting' = [waiting EXCEPT ![a] = @ + 1], locks' = [locks EXCEPT ![a] = l],
             ~AtOnce(l), waiters' = [waiters EXCEPT ![l] = Append(@, r)],
             req' = [req EXCEPT ![r] = [q EXCEPT !.pc = "queued", !.lock = l]], locked' = locked
      PROVE  IInv'
  <2> DEFINE q2 == [q EXCEPT !.pc = "queued", !.lock = l]
  <2> HIDE DEF l
  <2>1. q2 \in Attempts /\ q2.pc = "queued" /\ q2.address = q.address /\ q2.cred = q.cred /\ q2.lock = l
    BY <1>2 DEF Attempts, States
  <2> HIDE DEF q2
  <2>2. req' = [req EXCEPT ![r] = q2]
    BY <1>7 DEF q2
  <2>3. locked[l] \/ \E i \in 1..Len(waiters[l]) : req[waiters[l][i]].pc # "late"
    BY <1>7 DEF AtOnce
  <2>4. Sound([req EXCEPT ![r] = q2], [waiters EXCEPT ![l] = Append(@, r)], locked, [locks EXCEPT ![a] = l],
              [waiting EXCEPT ![a] = @ + 1])
    BY <1>2, <1>3, <1>4, <1>7, <2>1, <2>3, Queues
  <2>5. Sound(req', waiters', locked', locks', waiting')
    BY <1>7, <2>2, <2>4
  <2> QED BY <1>4, <2>1, <2>2, <2>5, LeadsOn
<1> QED BY <1>5, <1>6, <1>7 DEF Lead

\* A request that is outside the lines, and not past the flight, goes on as q.
LEMMA AsideKeeps ==
    ASSUME IInv, NEW r \in Requests, NEW q \in Attempts, req[r].pc \in Asides, q.pc \in Asides,
           q.pc # "idle" => q.address \in Addresses /\ q.cred \in Credentials,
           req' = [req EXCEPT ![r] = q],
           UNCHANGED <<flights, waiting, locks, locked, waiters, byAddress, byAccount>>,
           interrupts' \in 0..MaxInterrupts
    PROVE  IInv'
<1>1. req' \in [Requests -> Attempts] /\ req'[r] = q /\ \A s \in Requests : s # r => req'[s] = req[s]
  BY TypesOf
<1>2. \A s \in Requests :
          StaysInLine(req[s], req'[s]) /\ (req[s].pc \in InLines => req'[s].pc = req[s].pc)
  BY <1>1 DEF StaysInLine, Asides, InLines, Waits, Holds
<1>3. Sound(req', waiters, locked, locks, waiting)
  BY <1>1, <1>2, Outside DEF IInv
<1>4. Flown(req', flights)
  BY <1>1 DEF IInv, Flown, Asides
<1>5. Paid(req', byAddress, byAccount)
  BY TypesOf, PaidWith DEF Asides
<1>6. DelayPaid'
  BY <1>5, DelayPaidNext
<1> QED BY <1>3, <1>4, <1>6 DEF IInv, Counts

LEMMA VerifyKeeps ==
    ASSUME IInv, NEW r \in Requests, req[r].pc \in Asides, NEW a \in Addresses, NEW c \in Credentials,
           Verify(r, [NoRequest EXCEPT !.address = a, !.cred = c])
    PROVE  IInv'
<1> DEFINE q == [NoRequest EXCEPT !.address = a, !.cred = c]
<1>1. q \in Attempts /\ q.address = a /\ q.cred = c
  BY DEF NoRequest, Attempts, States
<1> HIDE DEF q
<1>2. CASE flights[q.cred] = None /\ Lead(r, q)
  BY <1>1, <1>2, LeadKeeps
<1>3. CASE flights[q.cred] # None /\ Follow(r, q)
  <2> DEFINE q2 == [q EXCEPT !.pc = "following", !.leader = flights[q.cred]]
  <2>1. flights[q.cred] \in Requests
    BY <1>1, <1>3, TypesOf
  <2>2. q2 \in Attempts /\ q2.pc = "following" /\ q2.address = a /\ q2.cred = c
    BY <1>1, <2>1 DEF Attempts, States
  <2>3. /\ req' = [req EXCEPT ![r] = q2]
        /\ UNCHANGED <<flights, waiting, locks, locked, waiters, byAddress, byAccount, interrupts>>
    BY <1>3 DEF Follow
  <2> HIDE DEF q2
  <2>4. interrupts' \in 0..MaxInterrupts /\ q2.pc \in Asides
    BY <2>2, <2>3 DEF IInv, Counts, Asides
  <2> QED BY <2>2, <2>3, <2>4, AsideKeeps
<1> QED BY <1>2, <1>3 DEF Verify, q
-----------------------------------------------------------------------------
(***************************************************************************)
(* The ends of a leader.                                                   *)
(***************************************************************************)

\* p, or p with the turn it waits for.
GivenTurn(p, q) ==
    /\ q.address = p.address /\ q.cred = p.cred /\ q.paid = p.paid
    /\ q.pc = p.pc \/ (q.pc = "granted" /\ p.pc = "queued")

\* A turn that is given concerns neither a flight nor a delay.
LEMMA WokenAside ==
    ASSUME NEW rq \in [Requests -> Attempts], NEW line \in Seq(Requests)
    PROVE  \A s \in Requests : GivenTurn(rq[s], Woken(line, rq)[s])
<1> DEFINE h == Head(line)
           g == [rq[h] EXCEPT !.pc = "granted"]
<1>1. CASE line # <<>> /\ rq[h].pc = "queued"
  <2>1. h \in Requests
    BY <1>1
  <2>2. /\ g.pc = "granted" /\ g.address = rq[h].address /\ g.cred = rq[h].cred
        /\ g.paid = rq[h].paid
    BY <2>1 DEF Attempts
  <2>3. Woken(line, rq) = [rq EXCEPT ![h] = g]
    BY <1>1 DEF Woken
  <2> HIDE DEF g, h
  <2>4. \A s \in Requests : Woken(line, rq)[s] = IF s = h THEN g ELSE rq[s]
    BY <2>1, <2>3
  <2>5. \A s \in Requests : s # h => GivenTurn(rq[s], Woken(line, rq)[s])
    BY <2>4 DEF GivenTurn
  <2>6. GivenTurn(rq[h], Woken(line, rq)[h])
    BY <1>1, <2>1, <2>2, <2>4 DEF GivenTurn, h
  <2> QED BY <2>5, <2>6
<1>2. CASE ~(line # <<>> /\ rq[h].pc = "queued")
  BY <1>2 DEF Woken, GivenTurn
<1> QED BY <1>1, <1>2

\* The flight of r ends: rs is the others' state, with turns given.
LEMMA FlightEnds ==
    ASSUME IInv, NEW r \in Requests, NEW o \in Outcomes, req[r].pc \notin Asides,
           NEW rs \in [Requests -> Attempts],
           \A s \in Requests : GivenTurn(req[s], rs[s]),
           req' = Resolved(r, o, rs), EndFlight(r)
    PROVE  /\ req' \in [Requests -> Attempts]
           /\ Flown(req', flights') /\ Paid(req', byAddress, byAccount)
<1>1. /\ req' \in [Requests -> Attempts] /\ req'[r] = NoRequest
      /\ \A s \in Requests : s # r =>
            /\ req'[s].address = rs[s].address /\ req'[s].cred = rs[s].cred /\ req'[s].paid = rs[s].paid
            /\ req'[s].pc = rs[s].pc \/ (req'[s].pc = "resolved" /\ rs[s].pc = "following")
  BY ResolvedIs
<1>2. req'[r].pc = "idle"
  BY <1>1 DEF NoRequest
<1>3. \A s \in Requests : s # r => StaysAside(req[s], req'[s])
  BY <1>1 DEF StaysAside, Asides, GivenTurn
<1>4. flights' = [flights EXCEPT ![req[r].cred] = None]
  BY DEF EndFlight
<1>5. Flown(req', flights')
  BY <1>2, <1>3, <1>4, FlownEnds DEF IInv
<1>6. \A s \in Requests : StaysPaid(req[s], req'[s])
  BY <1>1, <1>2 DEF StaysPaid, GivenTurn
<1>7. Paid(req', byAddress, byAccount)
  BY <1>6, TypesOf, PaidKept
<1> QED BY <1>1, <1>5, <1>7

LEMMA HoldingEnds ==
    ASSUME IInv, NEW r \in Requests, NEW o \in Outcomes, req[r].pc \in Holds, EndHolding(r, o)
    PROVE  /\ Sound(req', waiters', locked', locks', waiting') /\ req' \in [Requests -> Attempts]
           /\ Flown(req', flights') /\ Paid(req', byAddress, byAccount)
<1> DEFINE a == req[r].address
           l == req[r].lock
           rs == Woken(waiters[l], req)
<1>1. l \in Locks
  BY DEF IInv, Sound, Placed, InLines
<1>2. /\ req' = Resolved(r, o, rs) /\ EndFlight(r) /\ waiters' = waiters
      /\ locked' = [locked EXCEPT ![l] = FALSE] /\ waiting' = [waiting EXCEPT ![a] = @ - 1]
      /\ locks' = LocksLeft(locks, waiting, a)
  BY DEF EndHolding, LeaveLine, LocksLeft
<1>3. Sound(Resolved(r, o, Woken(waiters[l], req)), waiters, [locked EXCEPT ![l] = FALSE],
            LocksLeft(locks, waiting, a), [waiting EXCEPT ![a] = @ - 1])
  BY EndsHolding DEF IInv
<1>4. Sound(req', waiters', locked', locks', waiting')
  BY <1>2, <1>3
<1>5. waiters[l] \in Seq(Requests)
  BY <1>1, TypesOf
<1>6. rs \in [Requests -> Attempts]
  BY <1>5, TypesOf, WokenTyped
<1>7. \A s \in Requests : GivenTurn(req[s], rs[s])
  BY <1>5, TypesOf, WokenAside
<1>8. req[r].pc \notin Asides
  BY DEF Holds, Asides
<1> HIDE DEF rs
<1>9. /\ req' \in [Requests -> Attempts]
      /\ Flown(req', flights') /\ Paid(req', byAddress, byAccount)
  BY <1>2, <1>6, <1>7, <1>8, FlightEnds
<1> QED BY <1>4, <1>9

LEMMA ExpiredEnds ==
    ASSUME IInv, NEW r \in Requests, NEW o \in Outcomes, req[r].pc = "expired", EndExpired(r, o)
    PROVE  /\ Sound(req', waiters', locked', locks', waiting')
           /\ Flown(req', flights') /\ Paid(req', byAddress, byAccount)
<1> DEFINE a == req[r].address
<1>1. /\ req' = Resolved(r, o, req) /\ EndFlight(r) /\ UNCHANGED <<locked, waiters>>
      /\ waiting' = [waiting EXCEPT ![a] = @ - 1] /\ locks' = LocksLeft(locks, waiting, a)
  BY DEF EndExpired, LeaveLine, LocksLeft
<1>2. Sound(Resolved(r, o, req), waiters, locked, LocksLeft(locks, waiting, a), [waiting EXCEPT ![a] = @ - 1])
  BY TypesOf, LeavesResolved DEF IInv
<1>3. req[r].pc \notin Asides
  BY DEF Asides
<1>4. \A s \in Requests : GivenTurn(req[s], req[s])
  BY DEF GivenTurn
<1>5. Flown(req', flights') /\ Paid(req', byAddress, byAccount)
  BY <1>1, <1>3, <1>4, TypesOf, FlightEnds
<1> QED BY <1>1, <1>2, <1>5

LEMMA RefusedEnds ==
    ASSUME IInv, NEW r \in Requests, NEW o \in Outcomes, req[r].pc = "refused", EndRefused(r, o)
    PROVE  /\ Sound(req', waiters', locked', locks', waiting')
           /\ Flown(req', flights') /\ Paid(req', byAddress, byAccount)
<1>1. /\ req' = Resolved(r, o, req) /\ EndFlight(r) /\ UNCHANGED <<waiting, locks, locked, waiters>>
  BY DEF EndRefused
<1>2. req[r].pc \notin Asides
  BY DEF Asides
<1>3. Flown(req', flights') /\ Paid(req', byAddress, byAccount)
  <2>1. \A s \in Requests : GivenTurn(req[s], req[s])
    BY DEF GivenTurn
  <2> QED BY <1>1, <1>2, <2>1, TypesOf, FlightEnds
<1>4. /\ req' \in [Requests -> Attempts] /\ req'[r] = NoRequest
      /\ \A s \in Requests : s # r =>
            /\ req'[s].address = req[s].address /\ req'[s].lock = req[s].lock
            /\ req'[s].pc = req[s].pc \/ (req'[s].pc = "resolved" /\ req[s].pc = "following")
  BY <1>1, TypesOf, ResolvedIs
<1>5. \A s \in Requests :
          StaysInLine(req[s], req'[s]) /\ (req[s].pc \in InLines => req'[s].pc = req[s].pc)
  BY <1>4 DEF StaysInLine, InLines, Waits, Holds, NoRequest
<1>6. Sound(req', waiters, locked, locks, waiting)
  BY <1>4, <1>5, Outside DEF IInv
<1> QED BY <1>1, <1>3, <1>6

\* The counts stay: the invariant holds again.
LEMMA Again ==
    ASSUME IInv, Sound(req', waiters', locked', locks', waiting'), Flown(req', flights'),
           Paid(req', byAddress, byAccount), UNCHANGED <<byAddress, byAccount>>,
           interrupts' \in 0..MaxInterrupts
    PROVE  IInv'
BY DelayPaidNext DEF IInv, Counts

\* The place of a waiter among the waiters.
LEMMA LeftIs ==
    ASSUME IInv, NEW r \in Requests, req[r].pc \in Waits
    PROVE  \E i \in 1..Len(waiters[req[r].lock]) :
              waiters[req[r].lock][i] = r /\ Left(r) = Dropping(waiters[req[r].lock], i)
<1> DEFINE line == waiters[req[r].lock]
           i == CHOOSE j \in 1..Len(line) : line[j] = r
<1>1. i \in 1..Len(line) /\ line[i] = r
  BY DEF IInv, Sound, Linked
<1>2. Left(r) = Dropping(line, i)
  BY DEF Left
<1> QED BY <1>1, <1>2

LEMMA ResumeGrantedKeeps ==
    ASSUME IInv, NEW r \in Requests, ResumeGranted(r)
    PROVE  IInv'
<1> DEFINE l == req[r].lock
           q == Guarded(req[r])
<1>1. /\ req[r].pc = "granted" /\ waiters' = [waiters EXCEPT ![l] = Left(r)]
      /\ locked' = [locked EXCEPT ![l] = TRUE] /\ req' = [req EXCEPT ![r] = q]
      /\ UNCHANGED <<flights, waiting, locks, byAddress, byAccount, interrupts>>
  BY DEF ResumeGranted
<1>2. l \in Locks /\ req[r].address \in Addresses /\ req[r].cred \in Credentials /\ req[r] \in Attempts
  BY <1>1, TypesOf DEF IInv, Sound, Placed, Flown, InLines, Waits
<1>3. /\ q \in Attempts /\ q.pc \in {"sleeping", "checking"} /\ q.address = req[r].address
      /\ q.lock = l /\ q.cred = req[r].cred /\ ExponentOf(byAddress, byAccount, q) <= q.paid
  BY <1>2, GuardedIs DEF IInv
<1> HIDE DEF q
<1>4. PICK i \in 1..Len(waiters[l]) : waiters[l][i] = r /\ Left(r) = Dropping(waiters[l], i)
  BY <1>1, LeftIs DEF Waits
<1>5. q.pc \in Holds
  BY <1>3 DEF Holds
<1>6. Sound([req EXCEPT ![r] = q], [waiters EXCEPT ![l] = Dropping(waiters[l], i)],
            [locked EXCEPT ![l] = TRUE], locks, waiting)
  BY <1>1, <1>2, <1>3, <1>4, <1>5, TakesTurn DEF IInv
<1>7. Sound(req', waiters', locked', locks', waiting')
  BY <1>1, <1>4, <1>6
<1>8. \A s \in Requests : req'[s] = IF s = r THEN q ELSE req[s]
  BY <1>1, TypesOf
<1>9. \A s \in Requests : StaysAside(req[s], req'[s])
  BY <1>1, <1>3, <1>8 DEF StaysAside, Asides
<1>10. Flown(req', flights')
  BY <1>1, <1>9, FlownKept DEF IInv
<1>11. Paid(req', byAddress, byAccount)
  BY <1>1, <1>3, TypesOf, PaidWith
<1> QED BY <1>1, <1>7, <1>10, <1>11, Again DEF IInv, Counts

LEMMA ResumeLateKeeps ==
    ASSUME IInv, NEW r \in Requests, ResumeLate(r)
    PROVE  IInv'
<1> DEFINE l == req[r].lock
           a == req[r].address
           rs == IF locked[l] THEN req ELSE Woken(Left(r), req)
           q == [req[r] EXCEPT !.pc = "expired"]
           e == [rs EXCEPT ![r] = q]
<1>1. /\ req[r].pc \in {"late", "revoked"} /\ waiters' = [waiters EXCEPT ![l] = Left(r)]
      /\ UNCHANGED <<locked, byAddress, byAccount, interrupts>>
  BY DEF ResumeLate
<1>2. /\ l \in Locks /\ req \in [Requests -> Attempts] /\ waiters \in [Locks -> Seq(Requests)]
      /\ Sound(req, waiters, locked, locks, waiting)
  BY <1>1, TypesOf DEF IInv, Sound, Placed, InLines, Waits
<1>3. PICK i \in 1..Len(waiters[l]) : waiters[l][i] = r /\ Left(r) = Dropping(waiters[l], i)
  BY <1>1, LeftIs DEF Waits
<1>4. TakenOut(waiters, waiters', l, i) /\ waiters'[l] = Left(r)
  BY <1>1, <1>2, <1>3 DEF TakenOut
<1>5. rs = PassedOn(req, waiters'[l], locked[l]) /\ q = WayOut(req[r])
  BY <1>4 DEF PassedOn, WayOut
<1>6. q.pc = "expired" /\ q.address = a /\ q.cred = req[r].cred /\ q.paid = req[r].paid
  BY <1>2 DEF Attempts
<1>7. /\ rs \in [Requests -> Attempts] /\ rs[r] = req[r] /\ e \in [Requests -> Attempts]
      /\ Sound(e, waiters', locked, locks, waiting)
  <2> HIDE DEF rs, q
  <2>1. SteppedOut(req, PassedOn(req, waiters'[l], locked[l]), r, waiters', locked, locks, waiting)
    BY <1>1, <1>2, <1>3, <1>4, WaitOver
  <2>2. SteppedOut(req, rs, r, waiters', locked, locks, waiting)
    BY <2>1, <1>5
  <2> QED BY <2>2, <1>5 DEF SteppedOut
<1>8. Left(r) \in Seq(Requests)
  <2>1. waiters[l] \in Seq(Requests) /\ \A j, k \in 1..Len(waiters[l]) : waiters[l][j] = waiters[l][k] => j = k
    BY <1>2 DEF Sound, Linked
  <2>2. Dropping(waiters[l], i) \in Seq(Requests)
    BY <2>1, DroppedIs
  <2> QED BY <2>2, <1>3
<1>9. \A s \in Requests : GivenTurn(req[s], rs[s])
  BY <1>2, <1>8, WokenAside DEF GivenTurn
<1>10. ASSUME req[r].outcome = "cancelled", req' = Resolved(r, "cancelled", rs), LeaveLine(r), EndFlight(r)
       PROVE  IInv'
  <2> HIDE DEF rs, q
  <2>2. e[r] = q /\ \A s \in Requests : s # r => e[s] = rs[s]
    BY <1>7
  <2> HIDE DEF e
  <2>3. Sound(Resolved(r, "cancelled", rs), waiters', locked, LocksLeft(locks, waiting, a),
              [waiting EXCEPT ![a] = @ - 1])
    BY <1>6, <1>7, <2>2, LeavesResolved DEF Outcomes
  <2>4. waiting' = [waiting EXCEPT ![a] = @ - 1] /\ locks' = LocksLeft(locks, waiting, a)
    BY <1>10 DEF LeaveLine, LocksLeft
  <2>5. Sound(req', waiters', locked', locks', waiting')
    BY <1>1, <1>10, <2>3, <2>4
  <2>6. req[r].pc \notin Asides /\ "cancelled" \in Outcomes
    BY <1>1 DEF Asides, Outcomes
  <2>7. Flown(req', flights') /\ Paid(req', byAddress, byAccount)
    BY <1>7, <1>9, <1>10, <2>6, FlightEnds
  <2> QED BY <1>1, <2>5, <2>7, Again DEF IInv, Counts
<1>11. ASSUME req' = [rs EXCEPT ![r].pc = "expired"], UNCHANGED <<flights, waiting, locks>>
       PROVE  IInv'
  <2>2. req' = e
    BY <1>7, <1>11
  <2> HIDE DEF rs, q
  <2>4. e[r] = q /\ \A s \in Requests : s # r => e[s] = rs[s]
    BY <1>7
  <2> HIDE DEF e
  <2>5. Sound(req', waiters', locked', locks', waiting')
    BY <1>1, <1>7, <1>11, <2>2
  <2>6. \A s \in Requests : StaysAside(req[s], req'[s]) /\ StaysPaid(req[s], req'[s])
    BY <1>1, <1>6, <1>9, <2>2, <2>4 DEF StaysAside, StaysPaid, Asides, GivenTurn
  <2>7. Flown(req', flights')
    BY <1>11, <2>6, FlownKept DEF IInv
  <2>8. Paid(req', byAddress, byAccount)
    BY <2>6, TypesOf, PaidKept
  <2> QED BY <1>1, <2>5, <2>7, <2>8, Again DEF IInv, Counts
<1> QED BY <1>10, <1>11 DEF ResumeLate
\* The request that has the lock goes on with it: only its own state changes.
LEMMA HoldKeeps ==
    ASSUME IInv, NEW r \in Requests, NEW pc \in {"checking", "reporting"},
           req[r].pc \in {"sleeping", "checking"}, req' = [req EXCEPT ![r].pc = pc],
           UNCHANGED <<flights, waiting, locks, locked, waiters>>
    PROVE  /\ Sound(req', waiters', locked', locks', waiting') /\ Flown(req', flights')
           /\ Paid(req', byAddress, byAccount) /\ req' \in [Requests -> Attempts]
<1> DEFINE q == [req[r] EXCEPT !.pc = pc]
<1>1. /\ q \in Attempts /\ q.pc = pc /\ q.address = req[r].address /\ q.cred = req[r].cred
      /\ q.lock = req[r].lock /\ q.paid = req[r].paid
  BY TypesOf DEF Attempts, States
<1>2. req' = [req EXCEPT ![r] = q]
  OBVIOUS
<1> HIDE DEF q
<1>3. \A s \in Requests : req'[s] = IF s = r THEN q ELSE req[s]
  BY <1>2, TypesOf
<1>4. req[r].pc \in Holds /\ q.pc \in Holds
  BY <1>1 DEF Holds
<1>5. Sound([req EXCEPT ![r] = q], waiters, locked, locks, waiting)
  BY <1>1, <1>4, HoldMoves DEF IInv
<1>6. \A s \in Requests : StaysAside(req[s], req'[s]) /\ StaysPaid(req[s], req'[s])
  BY <1>1, <1>3 DEF StaysAside, StaysPaid, Asides
<1>7. Flown(req', flights)
  BY <1>6, FlownKept DEF IInv
<1>8. Paid(req', byAddress, byAccount)
  BY <1>6, TypesOf, PaidKept
<1>9. req' \in [Requests -> Attempts]
  BY <1>1, <1>2, TypesOf
<1> QED BY <1>2, <1>5, <1>7, <1>8, <1>9

\* Of the requests from one address one has the lock.
LEMMA OneHolds ==
    ASSUME IInv
    PROVE  \A r, s \in Requests :
              req[r].pc \in Holds /\ req[s].pc \in Holds /\ req[r].address = req[s].address => r = s
<1> SUFFICES ASSUME NEW r \in Requests, NEW s \in Requests, req[r].pc \in Holds, req[s].pc \in Holds,
                    req[r].address = req[s].address
             PROVE  r = s
  OBVIOUS
<1> DEFINE a == req[r].address
<1>1. a \in Addresses /\ r \in InLineOf(req, a) /\ s \in InLineOf(req, a)
  BY DEF IInv, Sound, Placed, InLineOf, InLines
<1>2. req[r].lock = locks[a] /\ req[s].lock = locks[a]
  BY <1>1 DEF IInv, Sound, Lines
<1> QED BY <1>2 DEF IInv, Sound, Had

LEMMA CountedIs ==
    ASSUME NEW n \in 0..MaxFailures
    PROVE  Counted(n) \in 0..MaxFailures
BY GuardAssumption DEF Counted

LEMMA CheckFailsKeeps ==
    ASSUME IInv, NEW r \in Requests, CheckFails(r)
    PROVE  IInv'
<1> DEFINE a == req[r].address
           k == AccountKey(req[r])
<1>1. /\ req[r].pc = "checking" /\ req' = [req EXCEPT ![r].pc = "reporting"]
      /\ UNCHANGED <<flights, waiting, locks, locked, waiters, interrupts>>
      /\ byAddress' = [byAddress EXCEPT ![a] = Counted(@)]
      /\ byAccount' = [byAccount EXCEPT ![k] = Counted(@)]
  BY DEF CheckFails
<1>2. /\ Sound(req', waiters', locked', locks', waiting') /\ Flown(req', flights')
  BY <1>1, HoldKeeps
<1>3. a \in Addresses /\ k \in Addresses \X Users /\ k[1] = a
  BY <1>1 DEF IInv, Flown, AccountKey, Users
<1>4. Counts'
  BY <1>1, <1>3, CountedIs DEF IInv, Counts
<1>5. \A s \in Requests : req'[s] = IF s = r THEN [req[r] EXCEPT !.pc = "reporting"] ELSE req[s]
  BY <1>1, TypesOf
<1>6. req'[r].pc = "reporting"
  BY <1>5, TypesOf DEF Attempts
<1>7. ASSUME NEW s \in Requests, req'[s].pc \in {"sleeping", "checking"}
      PROVE  ExponentOf(byAddress', byAccount', req'[s]) <= req'[s].paid
  <2>1. s # r /\ req'[s] = req[s]
    BY <1>5, <1>6, <1>7
  <2>2. req[s].address # a
    BY <2>1, <1>1, <1>7, OneHolds DEF Holds
  <2> DEFINE b == req[s].address
             j == <<b, UserOf[req[s].cred]>>
  <2>3. b \in Addresses /\ j \in Addresses \X Users /\ j # k
    BY <2>1, <2>2, <1>3, <1>7 DEF IInv, Flown, Users
  <2>4. byAddress'[b] = byAddress[b] /\ byAccount'[j] = byAccount[j]
    BY <1>1, <2>2, <2>3 DEF IInv, Counts
  <2>5. ExponentOf(byAddress', byAccount', req[s]) = ExponentOf(byAddress, byAccount, req[s])
    BY <2>4 DEF ExponentOf
  <2>6. ExponentOf(byAddress, byAccount, req[s]) <= req[s].paid
    BY <2>1, <1>7, TypesOf DEF Paid
  <2> QED BY <2>1, <2>5, <2>6
<1>8. DelayPaid'
  BY <1>7, DelayPaidNext DEF Paid
<1> QED BY <1>2, <1>4, <1>8 DEF IInv

LEMMA CheckPassesKeeps ==
    ASSUME IInv, NEW r \in Requests, CheckPasses(r)
    PROVE  IInv'
<1> DEFINE k == AccountKey(req[r])
<1>1. /\ req[r].pc \in Holds /\ EndHolding(r, "ok") /\ "ok" \in Outcomes /\ req[r].pc = "checking"
      /\ byAccount' = [byAccount EXCEPT ![k] = 0] /\ UNCHANGED <<byAddress, interrupts>>
  BY DEF CheckPasses, Holds, Outcomes
<1>2. /\ Sound(req', waiters', locked', locks', waiting') /\ req' \in [Requests -> Attempts]
      /\ Flown(req', flights') /\ Paid(req', byAddress, byAccount)
  BY <1>1, HoldingEnds
<1>3. k \in Addresses \X Users
  BY <1>1 DEF IInv, Flown, AccountKey, Users
<1>4. Counts'
  BY <1>1, <1>3, GuardAssumption DEF IInv, Counts
<1>5. Times(byAddress, byAccount) /\ Times(byAddress', byAccount')
  BY <1>4 DEF IInv, Counts, Times
<1>6. \A b \in Addresses : byAddress'[b] <= byAddress[b]
  BY <1>1, <1>5 DEF Times
<1>7. \A j \in Addresses \X Users : byAccount'[j] <= byAccount[j]
  BY <1>1, <1>3, <1>5 DEF Times
<1>8. Paid(req', byAddress', byAccount')
  BY <1>2, <1>5, <1>6, <1>7, PaidClears
<1> QED BY <1>2, <1>4, <1>8, DelayPaidNext DEF IInv

\* A count is forgotten.
LEMMA ForgetKeeps ==
    ASSUME IInv, UNCHANGED <<req, flights, waiting, locks, locked, waiters, interrupts>>,
           Times(byAddress', byAccount'),
           \A b \in Addresses : byAddress'[b] <= byAddress[b],
           \A j \in Addresses \X Users : byAccount'[j] <= byAccount[j]
    PROVE  IInv'
<1>1. Paid(req, byAddress', byAccount')
  BY TypesOf, PaidClears DEF IInv
<1>2. DelayPaid'
  BY <1>1, DelayPaidNext
<1> QED BY <1>2 DEF IInv, Counts, Times

LEMMA EndWaitKeeps ==
    ASSUME IInv, NEW r \in Requests, NEW o \in Outcomes, EndWait(r, o)
    PROVE  /\ Sound(req', waiters', locked', locks', waiting') /\ Flown(req', flights')
           /\ Paid(req', byAddress, byAccount)
<1> DEFINE pc == CASE req[r].pc = "queued" -> "late" [] req[r].pc = "granted" -> "revoked"
                   [] OTHER -> req[r].pc
           q == [req[r] EXCEPT !.outcome = o, !.pc = pc]
<1>1. /\ req[r].pc \in Waits /\ req' = [req EXCEPT ![r] = q]
      /\ UNCHANGED <<flights, waiting, locks, locked, waiters>>
  BY TypesOf DEF EndWait, Waits
<1>2. pc \in {"late", "revoked"} /\ (pc = "revoked" => req[r].pc \in {"granted", "revoked"})
  BY <1>1 DEF Waits
<1> HIDE DEF pc
<1>3. /\ q \in Attempts /\ q.pc = pc /\ q.address = req[r].address /\ q.cred = req[r].cred
      /\ q.lock = req[r].lock /\ q.paid = req[r].paid
  BY <1>2, TypesOf DEF Attempts, States
<1> HIDE DEF q
<1>4. q.pc \in Waits \ {"queued"} /\ (q.pc \in {"granted", "revoked"} => req[r].pc \in {"granted", "revoked"})
  BY <1>2, <1>3 DEF Waits
<1>5. Sound([req EXCEPT ![r] = q], waiters, locked, locks, waiting)
  BY <1>1, <1>3, <1>4, WaitEnds DEF IInv
<1>6. \A s \in Requests : req'[s] = IF s = r THEN q ELSE req[s]
  BY <1>1, TypesOf
<1>7. \A s \in Requests : StaysAside(req[s], req'[s]) /\ StaysPaid(req[s], req'[s])
  BY <1>1, <1>2, <1>3, <1>6 DEF StaysAside, StaysPaid, Asides, Waits
<1>8. Flown(req', flights)
  BY <1>7, FlownKept DEF IInv
<1>9. Paid(req', byAddress, byAccount)
  BY <1>7, TypesOf, PaidKept
<1> QED BY <1>1, <1>5, <1>8, <1>9
\* What every other step of a request does to it.
LEMMA StepKeeps ==
    ASSUME IInv, NEW r \in Requests, Step(r)
    PROVE  IInv'
<1>1. interrupts \in 0..MaxInterrupts /\ {"denied", "throttled"} \subseteq Outcomes
  BY DEF IInv, Counts, Outcomes
<1>2. CASE ResumeFollower(r)
  <2>1. req[r].pc = "resolved" /\ req[r].pc \in Asides
    BY <1>2 DEF ResumeFollower, Asides
  <2>2. ASSUME Verify(r, [NoRequest EXCEPT !.address = req[r].address, !.cred = req[r].cred]) PROVE IInv'
    <3>1. req[r].address \in Addresses /\ req[r].cred \in Credentials
      BY <2>1 DEF IInv, Flown
    <3> QED BY <2>1, <2>2, <3>1, VerifyKeeps
  <2>3. ASSUME req' = [req EXCEPT ![r] = NoRequest],
               UNCHANGED <<flights, waiting, locks, locked, waiters, byAddress, byAccount, interrupts>>
        PROVE  IInv'
    <3>1. NoRequest \in Attempts /\ NoRequest.pc = "idle"
      BY DEF NoRequest, Attempts, States
    <3>2. NoRequest.pc \in Asides /\ interrupts' \in 0..MaxInterrupts
      BY <1>1, <2>3, <3>1 DEF Asides
    <3> QED BY <2>1, <2>3, <3>1, <3>2, AsideKeeps
  <2> QED BY <1>2, <2>2, <2>3 DEF ResumeFollower
<1>3. CASE ResumeGranted(r)
  BY <1>3, ResumeGrantedKeeps
<1>4. CASE ResumeLate(r)
  BY <1>4, ResumeLateKeeps
<1>5. CASE Throttle(r)
  <2>1. UNCHANGED <<byAddress, byAccount, interrupts>>
    BY <1>5 DEF Throttle
  <2>2. CASE req[r].pc = "expired" /\ EndExpired(r, "throttled")
    BY <1>1, <2>1, <2>2, ExpiredEnds, Again
  <2>3. CASE req[r].pc = "refused" /\ EndRefused(r, "throttled")
    BY <1>1, <2>1, <2>3, RefusedEnds, Again
  <2> QED BY <1>5, <2>2, <2>3 DEF Throttle
<1>6. CASE Wake(r)
  <2>1. /\ req[r].pc = "sleeping" /\ req' = [req EXCEPT ![r].pc = "checking"]
        /\ UNCHANGED <<flights, waiting, locks, locked, waiters, byAddress, byAccount, interrupts>>
    BY <1>6 DEF Wake
  <2> QED BY <1>1, <2>1, HoldKeeps, Again
<1>7. CASE CheckPasses(r)
  BY <1>7, CheckPassesKeeps
<1>8. CASE CheckBusy(r)
  <2>1. /\ req[r].pc \in Holds /\ EndHolding(r, "throttled")
        /\ UNCHANGED <<byAddress, byAccount, interrupts>>
    BY <1>8 DEF CheckBusy, Holds
  <2> QED BY <1>1, <2>1, HoldingEnds, Again
<1>9. CASE CheckFails(r)
  BY <1>9, CheckFailsKeeps
<1>10. CASE Reported(r)
  <2>1. /\ req[r].pc \in Holds /\ EndHolding(r, "denied")
        /\ UNCHANGED <<byAddress, byAccount, interrupts>>
    BY <1>10 DEF Reported, Holds
  <2> QED BY <1>1, <2>1, HoldingEnds, Again
<1> QED BY <1>2, <1>3, <1>4, <1>5, <1>6, <1>7, <1>8, <1>9, <1>10 DEF Step

LEMMA InterruptKeeps ==
    ASSUME IInv, NEW r \in Requests, Interrupt(r)
    PROVE  IInv'
<1>1. interrupts' \in 0..MaxInterrupts /\ UNCHANGED <<byAddress, byAccount>> /\ "cancelled" \in Outcomes
  BY GuardAssumption DEF Interrupt, IInv, Counts, Outcomes
<1>2. CASE EndWait(r, "cancelled")
  BY <1>1, <1>2, EndWaitKeeps, Again
<1>3. CASE req[r].pc \in {"sleeping", "checking", "reporting"} /\ EndHolding(r, "cancelled")
  <2>1. req[r].pc \in Holds
    BY <1>3 DEF Holds
  <2> QED BY <1>1, <1>3, <2>1, HoldingEnds, Again
<1>4. CASE req[r].pc = "expired" /\ EndExpired(r, "cancelled")
  BY <1>1, <1>4, ExpiredEnds, Again
<1>5. CASE req[r].pc = "refused" /\ EndRefused(r, "cancelled")
  BY <1>1, <1>5, RefusedEnds, Again
<1>6. CASE /\ req[r].pc \in {"following", "resolved"}
           /\ req' = [req EXCEPT ![r] = NoRequest]
           /\ UNCHANGED <<flights, waiting, locks, locked, waiters>>
  <2>1. NoRequest \in Attempts /\ NoRequest.pc = "idle"
    BY DEF NoRequest, Attempts, States
  <2>2. NoRequest.pc \in Asides /\ req[r].pc \in Asides
    BY <1>6, <2>1 DEF Asides
  <2> QED BY <1>1, <1>6, <2>1, <2>2, AsideKeeps
<1> QED BY <1>2, <1>3, <1>4, <1>5, <1>6 DEF Interrupt

LEMMA NextKeeps ==
    ASSUME IInv, [Next]_vars
    PROVE  IInv'
<1>1. Times(byAddress, byAccount)
  BY TypesOf
<1>2. ASSUME NEW r \in Requests, NEW a \in Addresses, NEW c \in Credentials, Arrive(r, a, c) PROVE IInv'
  <2>1. req[r].pc \in Asides
    BY <1>2 DEF Arrive, Asides
  <2> QED BY <1>2, <2>1, VerifyKeeps DEF Arrive
<1>3. ASSUME NEW r \in Requests, TimeOut(r) PROVE IInv'
  <2>1. EndWait(r, "throttled") /\ UNCHANGED <<byAddress, byAccount, interrupts>> /\ "throttled" \in Outcomes
    BY <1>3 DEF TimeOut, Outcomes
  <2>2. interrupts' \in 0..MaxInterrupts
    BY <2>1 DEF IInv, Counts
  <2> QED BY <2>1, <2>2, EndWaitKeeps, Again
<1>4. ASSUME NEW a \in Addresses, ForgetAddress(a) PROVE IInv'
  <2>1. /\ byAddress' = [byAddress EXCEPT ![a] = 0]
        /\ UNCHANGED <<req, flights, waiting, locks, locked, waiters, byAccount, interrupts>>
    BY <1>4 DEF ForgetAddress
  <2>2. Times(byAddress', byAccount')
    BY <1>1, <2>1, GuardAssumption DEF Times
  <2>3. \A b \in Addresses : byAddress'[b] <= byAddress[b]
    BY <1>1, <2>1 DEF Times
  <2>4. \A j \in Addresses \X Users : byAccount'[j] <= byAccount[j]
    BY <1>1, <2>1 DEF Times
  <2> QED BY <2>1, <2>2, <2>3, <2>4, ForgetKeeps
<1>5. ASSUME NEW k \in Addresses \X Users, ForgetAccount(k) PROVE IInv'
  <2>1. /\ byAccount' = [byAccount EXCEPT ![k] = 0]
        /\ UNCHANGED <<req, flights, waiting, locks, locked, waiters, byAddress, interrupts>>
    BY <1>5 DEF ForgetAccount
  <2>2. Times(byAddress', byAccount')
    BY <1>1, <2>1, GuardAssumption DEF Times
  <2>3. \A b \in Addresses : byAddress'[b] <= byAddress[b]
    BY <1>1, <2>1 DEF Times
  <2>4. \A j \in Addresses \X Users : byAccount'[j] <= byAccount[j]
    BY <1>1, <2>1 DEF Times
  <2> QED BY <2>1, <2>2, <2>3, <2>4, ForgetKeeps
<1>6. CASE UNCHANGED vars
  <2>1. Sound(req', waiters', locked', locks', waiting') /\ Flown(req', flights')
    BY <1>6 DEF vars, IInv
  <2>2. Paid(req', byAddress', byAccount')
    BY <1>6, TypesOf DEF vars
  <2> QED BY <1>6, <2>1, <2>2, DelayPaidNext DEF vars, IInv, Counts
<1> QED BY <1>2, <1>3, <1>4, <1>5, <1>6, StepKeeps, InterruptKeeps DEF Next

LEMMA Starting ==
    ASSUME Init
    PROVE  IInv
<1>1. NoRequest \in Attempts /\ NoRequest.pc = "idle"
  BY DEF NoRequest, Attempts, States
<1>2. req \in [Requests -> Attempts] /\ \A r \in Requests : req[r].pc = "idle"
  BY <1>1 DEF Init
<1>3. /\ waiters \in [Locks -> Seq(Requests)] /\ locked \in [Locks -> BOOLEAN]
      /\ locks \in [Addresses -> Locks \cup {None}] /\ waiting \in [Addresses -> Nat]
      /\ flights \in [Credentials -> Requests \cup {None}]
  BY DEF Init
<1>4. \A l \in Locks : waiters[l] = <<>> /\ Len(waiters[l]) = 0 /\ ~locked[l]
  BY DEF Init
<1>5. Placed(req)
  BY <1>2 DEF Placed, InLines, Waits, Holds
<1>6. Linked(req, waiters)
  BY <1>2, <1>4 DEF Linked, Waits
<1>7. Turns(req, waiters, locked)
  BY <1>2, <1>4 DEF Turns
<1>8. Had(req, locked)
  BY <1>2, <1>4 DEF Had, Holds
<1>9. Lines(req, locks, waiting)
  <2>1. \A a \in Addresses : InLineOf(req, a) = {}
    BY <1>2 DEF InLineOf, InLines, Waits, Holds
  <2>2. Cardinality({}) = 0
    BY FS_EmptySet
  <2>3. \A a \in Addresses : waiting[a] = 0 /\ locks[a] = None
    BY DEF Init
  <2> QED BY <2>1, <2>2, <2>3, GuardAssumption DEF Lines
<1>10. Flown(req, flights)
  BY <1>2, <1>3 DEF Flown, Asides
<1>11. Counts
  BY GuardAssumption DEF Init, Counts
<1>12. DelayPaid
  BY <1>2 DEF DelayPaid
<1> QED BY <1>2, <1>3, <1>5, <1>6, <1>7, <1>8, <1>9, <1>10, <1>11, <1>12 DEF IInv, Sound, Typed

-----------------------------------------------------------------------------
(***************************************************************************)
(* The theorems.                                                           *)
(***************************************************************************)

\* LoginGuard's tables, lines and flights fit together in every state: the inductive
\* invariant the others follow from (logins.py, LoginGuard).
THEOREM Invariant == Spec => []IInv
<1>1. Init => IInv
  BY Starting
<1>2. IInv /\ [Next]_vars => IInv'
  BY NextKeeps
<1> QED BY <1>1, <1>2, PTL DEF Spec

\* Every variable keeps its type, the counts of failures and of clients their bounds.
THEOREM TypeCorrect == Spec => []TypeOK
<1>1. IInv => TypeOK
  BY TypesOf DEF TypeOK, IInv, Counts
<1> QED BY <1>1, Invariant, PTL

\* Attempts from one address run one at a time over one lock, everybody in line is counted,
\* and no turn is lost (LoginGuard._attempt, _lock), whoever times out or goes away at
\* whatever await, for any number of requests and addresses.
THEOREM LineAlwaysSound == Spec => []LineSound
<1>1. ASSUME IInv PROVE LineSound
  <2>1. OneAtATime
    BY <1>1, OneHolds DEF OneAtATime, Holding, Holds
  <2>2. \A a \in Addresses : InLine(a) = InLineOf(req, a)
    <3>1. \A r \in Requests : req[r].pc \in States
      BY <1>1, TypesOf DEF Attempts
    <3>2. \A r \in Requests :
             req[r].pc \notin {"idle", "following", "resolved", "refused"} <=> req[r].pc \in InLines
      BY <3>1 DEF States, InLines, Waits, Holds
    <3> QED BY <3>2 DEF InLine, InLineOf
  <2>3. LineAccounted
    BY <1>1, <2>2 DEF LineAccounted, IInv, Sound, Lines
  <2>4. TurnPassedOn
    <3> SUFFICES ASSUME NEW l \in Locks, ~locked[l], waiters[l] # <<>>
                 PROVE  req[Head(waiters[l])].pc \in {"granted", "revoked", "late"}
      BY DEF TurnPassedOn
    <3>1. waiters[l] \in Seq(Requests)
      BY <1>1, TypesOf
    <3>2. Len(waiters[l]) > 0 /\ Head(waiters[l]) = waiters[l][1]
      BY <3>1
    <3>3. req[waiters[l][1]].pc \in Waits
      BY <1>1, <3>2, WaitersAre DEF IInv, Sound
    <3>4. req[waiters[l][1]].pc # "queued"
      BY <1>1, <3>2 DEF IInv, Sound, Turns
    <3> QED BY <3>2, <3>3, <3>4 DEF Waits
  <2> QED BY <2>1, <2>3, <2>4 DEF LineSound
<1>2. IInv => LineSound
  BY <1>1
<1> QED BY <1>2, Invariant, PTL

\* No password is checked on a delay that a failure recorded in the meantime has made
\* longer (LoginGuard._guarded): the delay is computed with the lock held.
THEOREM DelayAlwaysPaid == Spec => []DelayPaid
<1>1. IInv => DelayPaid
  BY DEF IInv
<1> QED BY <1>1, Invariant, PTL

\* Requests that carry one credential together are verified once (LoginGuard.verify): at
\* most one of them is past the flight, the one that leads it.
THEOREM VerifiedAlwaysOnce == Spec => []VerifiedOnce
<1>1. IInv => VerifiedOnce
  BY DEF IInv, Flown, VerifiedOnce, Asides
<1> QED BY <1>1, Invariant, PTL

=============================================================================
