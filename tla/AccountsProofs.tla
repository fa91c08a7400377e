--------------------------- MODULE AccountsProofs ---------------------------
(***************************************************************************)
(* Proofs about Accounts: the types, what a remembered credential and a    *)
(* session are worth, who is let in at the public door, what may change a  *)
(* password, and by which changes alone the last enabled administrator is  *)
(* taken away.                                                             *)
(*                                                                         *)
(* A row is vouched for by a snapshot and a password when it still says    *)
(* what was verified.  The invariant is that everything built on a         *)
(* verification -- a request past its hash, a cache entry, a session -- is *)
(* vouched for unless it is marked as raced, and that whatever the cache   *)
(* holds about an account between the clear of a change and its update is  *)
(* marked already.                                                         *)
(***************************************************************************)
EXTENDS Accounts, FiniteSetTheorems, TLAPS

-----------------------------------------------------------------------------
(***************************************************************************)
(* The inductive invariant.                                                *)
(***************************************************************************)

Alike(x, w) == x.pw = w.pw /\ x.enabled = w.enabled /\ x.admin = w.admin

\* The account is still as it was verified.
Vouched(snap, pw, w) == Alike(snap, w) /\ w.pw = pw /\ w.enabled

Checked == {"rehash", "reread", "store", "accepted"}

\* A request and the row of its user.
RequestSound(q, w) ==
    /\ q.pc # "idle" => q.side \in Sides /\ q.pw \in Passwords
    /\ q.pc = "hash" /\ q.snap # None => w # None /\ (~q.raced => Alike(q.snap, w))
    /\ q.pc \in Checked =>
          q.snap # None /\ w # None /\ (~q.raced => Vouched(q.snap, q.pw, w))
    /\ q.pc = "accepted" /\ q.side = "public" => ~q.snap.admin

EntrySound(e, w) == w # None /\ (~e.raced => Vouched(e.snap, e.pw, w))

SessionSound(t, w) == w # None /\ (~t.raced => w.enabled /\ t.pw = w.pw)

ChangeSound(c, w) ==
    c.pc \in {"count", "clear", "update"} =>
        /\ w # None
        /\ \/ c.op = "reset" /\ c.val \in Passwords
           \/ c.op \in {"enabled", "admin"} /\ c.val \in BOOLEAN

RequestsSound(rq, rw) ==
    \A r \in Requests : rq[r].pc # "idle" =>
        rq[r].user \in Users /\ RequestSound(rq[r], rw[rq[r].user])

CacheSound(es, rw) == \A i \in 1..Len(es) : EntrySound(es[i], rw[es[i].user])

SessionsSound(ss, rw) ==
    \A s \in Tokens : ss[s] # None => SessionSound(ss[s], rw[ss[s].user])

ChangesSound(cs, rw) ==
    \A a \in Admins : cs[a].pc \in {"count", "clear", "update"} =>
        cs[a].user \in Users /\ ChangeSound(cs[a], rw[cs[a].user])

\* What is remembered of an account after the clear of a change overlapped it.
PendingRaced(es, cs) ==
    \A a \in Admins : cs[a].pc = "update" =>
        \A i \in 1..Len(es) : es[i].user = cs[a].user => es[i].raced

IInv ==
    /\ TypeOK
    /\ RequestsSound(req, row)
    /\ CacheSound(cache, row)
    /\ SessionsSound(session, row)
    /\ ChangesSound(adm, row)
    /\ PendingRaced(cache, adm)

\* A change that takes an administrator away, past its count.
Takes(c) == c.pc \in {"clear", "update"} /\ c.op \in {"enabled", "admin"} /\ ~c.val

\* A change that nothing has overtaken since its count leaves another administrator.
AdminInv ==
    \A a \in Admins :
        Takes(adm[a]) /\ ~adm[a].raced /\ adm[a].user \in EnabledAdmins =>
            \E w \in EnabledAdmins : w # adm[a].user
-----------------------------------------------------------------------------
(***************************************************************************)
(* Lemmas about what the steps are made of.                                *)
(***************************************************************************)

\* A function on 1..n is a sequence.
LEMMA AsSequence ==
    ASSUME NEW S, NEW n \in Nat, NEW f \in [1..n -> S]
    PROVE  f \in Seq(S) /\ Len(f) = n
OBVIOUS

\* A sequence without one of its elements: one shorter, and made of the others.
LEMMA DroppingIs ==
    ASSUME NEW S, NEW s \in Seq(S), NEW i \in 1..Len(s)
    PROVE  /\ Dropping(s, i) \in Seq(S)
           /\ Len(Dropping(s, i)) = Len(s) - 1
           /\ \A j \in 1..Len(Dropping(s, i)) : \E k \in 1..Len(s) : Dropping(s, i)[j] = s[k]
<1> DEFINE n == Len(s) - 1
           d == [j \in 1..n |-> s[IF j < i THEN j ELSE j + 1]]
<1>1. n \in Nat
  OBVIOUS
<1>2. \A j \in 1..n : (IF j < i THEN j ELSE j + 1) \in 1..Len(s)
  OBVIOUS
<1>3. d \in [1..n -> S]
  BY <1>2
<1>4. d \in Seq(S) /\ Len(d) = n
  <2> HIDE DEF d, n
  <2> QED BY <1>1, <1>3, AsSequence
<1>5. \A j \in 1..n : \E k \in 1..Len(s) : d[j] = s[k]
  BY <1>2
<1>6. Dropping(s, i) = d
  BY DEF Dropping
<1> HIDE DEF d
<1> QED BY <1>4, <1>5, <1>6

\* What is left of the cache when a credential is dropped: entries it held, and
\* one fewer when it held the credential.
LEMMA WithoutIs ==
    ASSUME TypeOK, NEW u, NEW p
    PROVE  /\ CacheWithout(u, p) \in Seq(CacheEntries)
           /\ Len(CacheWithout(u, p)) <= Len(cache)
           /\ CacheIndex(u, p) # {} => Len(CacheWithout(u, p)) = Len(cache) - 1
           /\ \A j \in 1..Len(CacheWithout(u, p)) :
                 \E k \in 1..Len(cache) : CacheWithout(u, p)[j] = cache[k]
<1>1. cache \in Seq(CacheEntries) /\ Len(cache) \in Nat
  BY DEF TypeOK
<1>2. CASE CacheIndex(u, p) = {}
  BY <1>1, <1>2 DEF CacheWithout
<1>3. ASSUME CacheIndex(u, p) # {}
      PROVE  /\ CacheWithout(u, p) \in Seq(CacheEntries)
             /\ Len(CacheWithout(u, p)) = Len(cache) - 1
             /\ \A j \in 1..Len(CacheWithout(u, p)) :
                   \E k \in 1..Len(cache) : CacheWithout(u, p)[j] = cache[k]
  <2> DEFINE i == CHOOSE k \in CacheIndex(u, p) : TRUE
  <2>1. i \in 1..Len(cache)
    BY <1>3 DEF CacheIndex
  <2>2. CacheWithout(u, p) = Dropping(cache, i)
    BY <1>3 DEF CacheWithout
  <2> HIDE DEF i
  <2>3. /\ Dropping(cache, i) \in Seq(CacheEntries)
        /\ Len(Dropping(cache, i)) = Len(cache) - 1
        /\ \A j \in 1..Len(Dropping(cache, i)) :
              \E k \in 1..Len(cache) : Dropping(cache, i)[j] = cache[k]
    BY <1>1, <2>1, DroppingIs
  <2> QED BY <2>2, <2>3
<1> QED BY <1>1, <1>2, <1>3

\* Every entry of a cache that grows at its end is an old one or the new one.
LEMMA AppendIs ==
    ASSUME NEW S, NEW s \in Seq(S), NEW e \in S
    PROVE  /\ Append(s, e) \in Seq(S)
           /\ Len(Append(s, e)) = Len(s) + 1
           /\ \A j \in 1..Len(Append(s, e)) :
                 Append(s, e)[j] = e \/ \E k \in 1..Len(s) : Append(s, e)[j] = s[k]
OBVIOUS

\* Remembering a verified user keeps the cache within its limit, and adds that user only.
LEMMA PutIs ==
    ASSUME AccountsAssumption, TypeOK, NEW e \in CacheEntries
    PROVE  /\ CachePut(e) \in Seq(CacheEntries)
           /\ Len(CachePut(e)) <= MaxCache
           /\ \A j \in 1..Len(CachePut(e)) :
                 CachePut(e)[j] = e \/ \E k \in 1..Len(cache) : CachePut(e)[j] = cache[k]
<1> DEFINE rest == CacheWithout(e.user, e.pw)
           grown == Append(rest, e)
<1>1. /\ rest \in Seq(CacheEntries) /\ Len(rest) <= Len(cache) /\ Len(rest) \in Nat
      /\ \A j \in 1..Len(rest) : \E k \in 1..Len(cache) : rest[j] = cache[k]
  BY WithoutIs
<1> HIDE DEF rest
<1>2. /\ grown \in Seq(CacheEntries) /\ Len(grown) = Len(rest) + 1
      /\ \A j \in 1..Len(grown) : grown[j] = e \/ \E k \in 1..Len(cache) : grown[j] = cache[k]
  <2>1. /\ grown \in Seq(CacheEntries) /\ Len(grown) = Len(rest) + 1
        /\ \A j \in 1..Len(grown) : grown[j] = e \/ \E k \in 1..Len(rest) : grown[j] = rest[k]
    BY <1>1, AppendIs
  <2> HIDE DEF grown
  <2> QED BY <1>1, <2>1
<1>3. Len(cache) <= MaxCache /\ MaxCache \in Nat \ {0} /\ Len(cache) \in Nat
  BY DEF TypeOK, AccountsAssumption
<1>4. CachePut(e) = IF Len(grown) > MaxCache THEN Tail(grown) ELSE grown
  BY DEF CachePut, rest
<1> HIDE DEF grown
<1>5. CASE Len(grown) > MaxCache
  <2>1. CachePut(e) = Tail(grown)
    BY <1>4, <1>5
  <2>2. /\ Tail(grown) \in Seq(CacheEntries) /\ Len(Tail(grown)) = Len(grown) - 1
        /\ \A j \in 1..Len(Tail(grown)) : Tail(grown)[j] = grown[j + 1] /\ j + 1 \in 1..Len(grown)
    BY <1>1, <1>2
  <2>3. Len(Tail(grown)) <= MaxCache
    BY <1>1, <1>2, <1>3, <2>2
  <2>4. \A j \in 1..Len(Tail(grown)) :
            Tail(grown)[j] = e \/ \E k \in 1..Len(cache) : Tail(grown)[j] = cache[k]
    BY <1>2, <2>2
  <2> QED BY <2>1, <2>2, <2>3, <2>4
<1>6. CASE ~(Len(grown) > MaxCache)
  BY <1>1, <1>2, <1>3, <1>4, <1>6
<1> QED BY <1>5, <1>6
\* One request moves on: the others are as sound as they were.
LEMMA RequestPut ==
    ASSUME NEW rq \in [Requests -> Verifications], NEW rw, NEW r \in Requests, NEW q \in Verifications,
           RequestsSound(rq, rw),
           q.pc # "idle" => q.user \in Users /\ RequestSound(q, rw[q.user])
    PROVE  /\ [rq EXCEPT ![r] = q] \in [Requests -> Verifications]
           /\ RequestsSound([rq EXCEPT ![r] = q], rw)
BY DEF RequestsSound

\* One administrator's request moves on.
LEMMA ChangePut ==
    ASSUME NEW cs \in [Admins -> Changes], NEW rw, NEW a \in Admins, NEW c \in Changes,
           ChangesSound(cs, rw),
           c.pc \in {"count", "clear", "update"} => c.user \in Users /\ ChangeSound(c, rw[c.user])
    PROVE  /\ [cs EXCEPT ![a] = c] \in [Admins -> Changes]
           /\ ChangesSound([cs EXCEPT ![a] = c], rw)
BY DEF ChangesSound

\* Entries of the old cache, and one that is sound, make a sound cache.
LEMMA CacheGrows ==
    ASSUME NEW es, NEW rw, NEW gs, NEW e,
           CacheSound(es, rw), EntrySound(e, rw[e.user]),
           \A j \in 1..Len(gs) : gs[j] = e \/ \E k \in 1..Len(es) : gs[j] = es[k]
    PROVE  CacheSound(gs, rw)
BY DEF CacheSound

\* The same for what a pending change marks.
LEMMA PendingGrows ==
    ASSUME NEW es, NEW cs, NEW gs, NEW e,
           PendingRaced(es, cs),
           \A a \in Admins : cs[a].pc = "update" /\ e.user = cs[a].user => e.raced,
           \A j \in 1..Len(gs) : gs[j] = e \/ \E k \in 1..Len(es) : gs[j] = es[k]
    PROVE  PendingRaced(gs, cs)
BY DEF PendingRaced

\* Entries of the old cache alone make a sound cache, with what is marked.
LEMMA CacheShrinks ==
    ASSUME NEW es, NEW rw, NEW cs, NEW gs,
           CacheSound(es, rw), PendingRaced(es, cs),
           \A j \in 1..Len(gs) : \E k \in 1..Len(es) : gs[j] = es[k]
    PROVE  CacheSound(gs, rw) /\ PendingRaced(gs, cs)
BY DEF CacheSound, PendingRaced

\* A row that still says the same about whoever is not raced keeps everything sound.
LEMMA RowKept ==
    ASSUME NEW rw \in [Users -> Rows \cup {None}], NEW u \in Users, NEW w \in Rows,
           rw[u] # None, Alike(rw[u], w)
    PROVE  /\ \A q \in Verifications : RequestSound(q, rw[u]) => RequestSound(q, w)
           /\ \A e \in CacheEntries : EntrySound(e, rw[u]) => EntrySound(e, w)
           /\ \A t \in SessionRows : SessionSound(t, rw[u]) => SessionSound(t, w)
           /\ \A c \in Changes : ChangeSound(c, rw[u]) => ChangeSound(c, w)
BY NoneAssumption DEF RequestSound, EntrySound, SessionSound, ChangeSound, Vouched, Alike, Checked
-----------------------------------------------------------------------------
(***************************************************************************)
(* The steps of a verification.                                            *)
(***************************************************************************)

\* After bootstrap_admin nothing is remembered yet.
LEMMA InitInv == AccountsAssumption /\ Init => IInv
<1> SUFFICES ASSUME AccountsAssumption, Init PROVE IInv
  OBVIOUS
<1>1. PICK p \in Passwords, old \in SUBSET (Users \ {Root}) :
          /\ old # {} => OldHashes
          /\ row = [u \in Users |->
                IF u \in old \cup {Root}
                THEN [pw |-> p, legacy |-> OldHashes, enabled |-> TRUE, admin |-> u = Root]
                ELSE None]
  BY DEF Init
<1>2. \A u \in Users :
          [pw |-> p, legacy |-> OldHashes, enabled |-> TRUE, admin |-> u = Root] \in Rows
  BY DEF Rows, AccountsAssumption
<1>3. row \in [Users -> Rows \cup {None}]
  BY <1>1, <1>2
<1>4. cache \in Seq(CacheEntries) /\ Len(cache) = 0
  BY DEF Init
<1>5. NoRequest \in Verifications /\ NoRequest.pc = "idle"
  BY DEF NoRequest, Verifications
<1>6. NoChange \in Changes /\ NoChange.pc = "idle"
  BY DEF NoChange, Changes
<1>7. TypeOK
  BY <1>3, <1>4, <1>5, <1>6 DEF TypeOK, Init, AccountsAssumption
<1>8. RequestsSound(req, row) /\ ChangesSound(adm, row)
  BY <1>5, <1>6 DEF Init, RequestsSound, ChangesSound
<1>9. CacheSound(cache, row) /\ PendingRaced(cache, adm) /\ SessionsSound(session, row)
  BY <1>4 DEF Init, CacheSound, PendingRaced, SessionsSound
<1> QED BY <1>7, <1>8, <1>9 DEF IInv

\* An entry that expires says what it said.
LEMMA ExpireStep == IInv /\ CacheExpire => IInv'
<1> SUFFICES ASSUME IInv, CacheExpire PROVE IInv'
  OBVIOUS
<1>1. PICK i \in 1..Len(cache) : cache' = [cache EXCEPT ![i].live = FALSE]
  BY DEF CacheExpire
<1> DEFINE e == [cache[i] EXCEPT !.live = FALSE]
<1>2. cache \in Seq(CacheEntries) /\ Len(cache) \in Nat /\ cache[i] \in CacheEntries
  BY DEF IInv, TypeOK
<1>3. /\ e \in CacheEntries /\ e.user = cache[i].user /\ e.pw = cache[i].pw
      /\ e.snap = cache[i].snap /\ e.raced = cache[i].raced
  BY <1>2 DEF CacheEntries
<1>4. cache' = [cache EXCEPT ![i] = e]
  BY <1>1
<1> HIDE DEF e
<1>5. /\ cache' \in Seq(CacheEntries) /\ Len(cache') = Len(cache)
      /\ \A j \in 1..Len(cache') : cache'[j] = e \/ \E k \in 1..Len(cache) : cache'[j] = cache[k]
  BY <1>2, <1>3, <1>4
<1>6. EntrySound(e, row[e.user])
  BY <1>3 DEF IInv, CacheSound, EntrySound
<1>7. \A a \in Admins : adm[a].pc = "update" /\ e.user = adm[a].user => e.raced
  BY <1>3 DEF IInv, PendingRaced
<1>8. CacheSound(cache', row) /\ PendingRaced(cache', adm)
  BY <1>5, <1>6, <1>7, CacheGrows, PendingGrows DEF IInv
<1> QED BY <1>5, <1>8 DEF IInv, TypeOK, CacheExpire

\* What a request arrives as.
LEMMA ArrivedIs ==
    ASSUME NEW side \in Sides, NEW u \in Users, NEW p \in Passwords, NEW pc \in {"lookup", "accepted"}
    PROVE  /\ Arrived(pc, side, u, p) \in Verifications
           /\ Arrived(pc, side, u, p).pc = pc /\ Arrived(pc, side, u, p).side = side
           /\ Arrived(pc, side, u, p).user = u /\ Arrived(pc, side, u, p).pw = p
BY DEF Arrived, NoRequest, Verifications

\* A hit lets a request in with what its entry says, which is as sound as the entry.
LEMMA HitStep ==
    ASSUME IInv, NEW r \in Requests, NEW side \in Sides, NEW u \in Users, NEW p \in Passwords,
           CacheHit(r, side, u, p)
    PROVE  IInv'
<1>1. PICK i \in CacheIndex(u, p) :
          /\ cache' = Append(CacheWithout(u, p), cache[i])
          /\ req' = [req EXCEPT ![r] =
                IF AdmitsAccount(side, cache[i].snap.admin)
                THEN [Arrived("accepted", side, u, p) EXCEPT
                         !.snap = cache[i].snap, !.raced = cache[i].raced]
                ELSE Arrived("lookup", side, u, p)]
  BY DEF CacheHit
<1> DEFINE e == cache[i]
           in == [Arrived("accepted", side, u, p) EXCEPT !.snap = e.snap, !.raced = e.raced]
           out == Arrived("lookup", side, u, p)
           q == IF AdmitsAccount(side, e.snap.admin) THEN in ELSE out
<1>2. i \in 1..Len(cache) /\ e.user = u /\ e.pw = p
  BY DEF CacheIndex
<1>3. cache \in Seq(CacheEntries) /\ Len(cache) \in Nat /\ e \in CacheEntries
  BY <1>2 DEF IInv, TypeOK
<1>4. EntrySound(e, row[u])
  BY <1>2 DEF IInv, CacheSound
<1>5. e.snap \in Rows /\ e.snap # None /\ e.raced \in BOOLEAN
  BY <1>3, NoneAssumption DEF CacheEntries
<1>6. /\ in \in Verifications /\ in.pc = "accepted" /\ in.side = side /\ in.user = u
      /\ in.pw = p /\ in.snap = e.snap /\ in.raced = e.raced
  <2>1. Arrived("accepted", side, u, p) \in Verifications
    BY ArrivedIs
  <2>2. /\ Arrived("accepted", side, u, p).pc = "accepted" /\ Arrived("accepted", side, u, p).side = side
        /\ Arrived("accepted", side, u, p).user = u /\ Arrived("accepted", side, u, p).pw = p
    BY ArrivedIs
  <2> QED BY <1>5, <2>1, <2>2 DEF Verifications
<1>7. out \in Verifications /\ out.pc = "lookup" /\ out.side = side /\ out.user = u /\ out.pw = p
  BY ArrivedIs
<1> HIDE DEF in, out
<1>8. ASSUME AdmitsAccount(side, e.snap.admin) PROVE RequestSound(in, row[u])
  <2>1. in.side = "public" => ~in.snap.admin
    BY <1>6, <1>8 DEF AdmitsAccount
  <2> QED BY <1>2, <1>4, <1>5, <1>6, <2>1 DEF RequestSound, EntrySound, Checked
<1>9. RequestSound(out, row[u])
  BY <1>7 DEF RequestSound, Checked
<1>10. q \in Verifications /\ q.user = u /\ RequestSound(q, row[u])
  BY <1>6, <1>7, <1>8, <1>9
<1>11. req' = [req EXCEPT ![r] = q]
  BY <1>1 DEF in, out
<1> HIDE DEF q, e
<1>12. req' \in [Requests -> Verifications] /\ RequestsSound(req', row)
  BY <1>10, <1>11, RequestPut DEF IInv, TypeOK
<1> DEFINE rest == CacheWithout(u, p)
<1>13. cache' = Append(rest, e)
  BY <1>1 DEF e
<1>14. /\ rest \in Seq(CacheEntries) /\ e \in CacheEntries /\ Len(rest) + 1 = Len(cache)
       /\ \A j \in 1..Len(rest) : \E k \in 1..Len(cache) : rest[j] = cache[k]
  <2>1. Len(rest) = Len(cache) - 1
    BY WithoutIs DEF IInv
  <2> QED BY <1>3, <2>1, WithoutIs DEF IInv, e
<1> HIDE DEF rest
<1>15. /\ cache' \in Seq(CacheEntries) /\ Len(cache') = Len(cache)
       /\ \A j \in 1..Len(cache') : cache'[j] = e \/ \E k \in 1..Len(rest) : cache'[j] = rest[k]
  <2>1. /\ Append(rest, e) \in Seq(CacheEntries) /\ Len(Append(rest, e)) = Len(cache)
        /\ \A j \in 1..Len(Append(rest, e)) :
              Append(rest, e)[j] = e \/ \E k \in 1..Len(rest) : Append(rest, e)[j] = rest[k]
    BY <1>14, AppendIs
  <2> QED BY <1>13, <2>1
<1>16. \A j \in 1..Len(cache') : \E k \in 1..Len(cache) : cache'[j] = cache[k]
  BY <1>2, <1>14, <1>15 DEF e
<1>17. CacheSound(cache', row) /\ PendingRaced(cache', adm)
  BY <1>16, CacheShrinks DEF IInv
<1> QED BY <1>12, <1>15, <1>17 DEF IInv, TypeOK, CacheHit

\* A miss only starts a verification.
LEMMA MissStep ==
    ASSUME IInv, NEW r \in Requests, NEW side \in Sides, NEW u \in Users, NEW p \in Passwords,
           CacheMiss(r, side, u, p)
    PROVE  IInv'
<1> DEFINE out == Arrived("lookup", side, u, p)
<1>1. out \in Verifications /\ out.pc = "lookup" /\ out.side = side /\ out.user = u /\ out.pw = p
  BY ArrivedIs
<1>2. req' = [req EXCEPT ![r] = out] /\ cache' = CacheWithout(u, p)
  BY DEF CacheMiss
<1> HIDE DEF out
<1>3. RequestSound(out, row[u])
  BY <1>1 DEF RequestSound, Checked
<1>4. req' \in [Requests -> Verifications] /\ RequestsSound(req', row)
  BY <1>1, <1>2, <1>3, RequestPut DEF IInv, TypeOK
<1>5. /\ cache' \in Seq(CacheEntries) /\ Len(cache') <= Len(cache)
      /\ \A j \in 1..Len(cache') : \E k \in 1..Len(cache) : cache'[j] = cache[k]
  BY <1>2, WithoutIs DEF IInv
<1>6. CacheSound(cache', row) /\ PendingRaced(cache', adm)
  BY <1>5, CacheShrinks DEF IInv
<1>7. Len(cache') <= MaxCache
  BY <1>5, AccountsAssumption DEF IInv, TypeOK, AccountsAssumption
<1> QED BY <1>4, <1>5, <1>6, <1>7 DEF IInv, TypeOK, CacheMiss
\* A step that moves one request, and nothing else.
LEMMA RequestMoves ==
    ASSUME IInv, NEW r \in Requests, NEW q \in Verifications,
           req' = [req EXCEPT ![r] = q], UNCHANGED <<row, cache, session, adm>>,
           q.pc # "idle" => q.user \in Users /\ RequestSound(q, row[q.user])
    PROVE  IInv'
<1>1. req' \in [Requests -> Verifications] /\ RequestsSound(req', row)
  BY RequestPut DEF IInv, TypeOK
<1> QED BY <1>1 DEF IInv, TypeOK

\* A request that is over.
LEMMA NoRequestIs == NoRequest \in Verifications /\ NoRequest.pc = "idle"
BY DEF NoRequest, Verifications

\* A request that is not idle has a user, and is sound for that user's row.
LEMMA RequestIs ==
    ASSUME IInv, NEW r \in Requests, req[r].pc # "idle"
    PROVE  /\ req[r] \in Verifications /\ req[r].user \in Users
           /\ row[req[r].user] \in Rows \cup {None}
           /\ RequestSound(req[r], row[req[r].user])
BY DEF IInv, TypeOK, RequestsSound

\* The row that is read is the row.
LEMMA ReadStep == ASSUME IInv, NEW r \in Requests, ReadUser(r) PROVE IInv'
<1> DEFINE u == req[r].user
           q == [req[r] EXCEPT !.pc = "hash", !.snap = row[u]]
<1>1. req[r].pc = "lookup" /\ req' = [req EXCEPT ![r] = q] /\ UNCHANGED <<row, cache, session, adm>>
  BY DEF ReadUser, IInv, TypeOK
<1>2. req[r] \in Verifications /\ u \in Users /\ row[u] \in Rows \cup {None} /\ RequestSound(req[r], row[u])
  BY <1>1, RequestIs
<1>3. /\ q \in Verifications /\ q.pc = "hash" /\ q.snap = row[u] /\ q.user = u
      /\ q.side = req[r].side /\ q.pw = req[r].pw
  BY <1>2 DEF Verifications
<1> HIDE DEF q
<1>4. RequestSound(q, row[u])
  BY <1>1, <1>2, <1>3 DEF RequestSound, Checked, Alike
<1> QED BY <1>1, <1>2, <1>3, <1>4, RequestMoves

\* A password that is right for the row read is right for the row, unless it was overtaken.
LEMMA CheckStep == ASSUME IInv, NEW r \in Requests, CheckHash(r) PROVE IInv'
<1> DEFINE u == req[r].user
           pc == IF req[r].snap.legacy THEN "rehash" ELSE "store"
           q == [req[r] EXCEPT !.pc = pc]
<1>1. req[r].pc = "hash" /\ UNCHANGED <<row, cache, session, adm>>
  BY DEF CheckHash
<1>2. req[r] \in Verifications /\ u \in Users /\ row[u] \in Rows \cup {None} /\ RequestSound(req[r], row[u])
  BY <1>1, RequestIs
<1>3. ASSUME req' = [req EXCEPT ![r] = NoRequest] PROVE IInv'
  BY <1>1, <1>3, NoRequestIs, RequestMoves
<1>4. ASSUME Valid(req[r]), req' = [req EXCEPT ![r].pc = pc] PROVE IInv'
  <2>1. req' = [req EXCEPT ![r] = q]
    BY <1>4 DEF IInv, TypeOK
  <2>2. pc \in {"rehash", "store"}
    OBVIOUS
  <2> HIDE DEF pc
  <2>3. /\ q \in Verifications /\ q.pc = pc /\ q.snap = req[r].snap /\ q.user = u
        /\ q.side = req[r].side /\ q.pw = req[r].pw /\ q.raced = req[r].raced
    BY <1>2, <2>2 DEF Verifications
  <2> HIDE DEF q
  <2>4. RequestSound(q, row[u])
    BY <1>1, <1>2, <1>4, <2>2, <2>3 DEF RequestSound, Checked, Vouched, Alike, Valid
  <2> QED BY <1>1, <1>2, <2>1, <2>3, <2>4, RequestMoves
<1> QED BY <1>3, <1>4 DEF CheckHash

\* The row read again after a rehash is the row.
LEMMA RereadStep == ASSUME IInv, NEW r \in Requests, Reread(r) PROVE IInv'
<1> DEFINE u == req[r].user
           q == [req[r] EXCEPT !.pc = "store", !.snap = row[u]]
<1>1. req[r].pc = "reread" /\ req' = [req EXCEPT ![r] = q] /\ UNCHANGED <<row, cache, session, adm>>
  BY DEF Reread, IInv, TypeOK
<1>2. req[r] \in Verifications /\ u \in Users /\ row[u] \in Rows \cup {None} /\ RequestSound(req[r], row[u])
  BY <1>1, RequestIs
<1>3. /\ q \in Verifications /\ q.pc = "store" /\ q.snap = row[u] /\ q.user = u
      /\ q.side = req[r].side /\ q.pw = req[r].pw /\ q.raced = req[r].raced
  BY <1>2 DEF Verifications
<1> HIDE DEF q
<1>4. RequestSound(q, row[u])
  BY <1>1, <1>2, <1>3 DEF RequestSound, Checked, Vouched, Alike
<1> QED BY <1>1, <1>2, <1>3, <1>4, RequestMoves

\* What is remembered is what was verified, and is marked when a change is past its clear.
LEMMA StoreStep ==
    ASSUME AccountsAssumption, IInv, NEW r \in Requests, StoreCache(r) PROVE IInv'
<1> DEFINE u == req[r].user
           pending == \E a \in Admins : adm[a].pc = "update" /\ adm[a].user = u
           e == [user |-> u, pw |-> req[r].pw, snap |-> req[r].snap,
                 live |-> TRUE, raced |-> req[r].raced \/ pending]
           in == [req[r] EXCEPT !.pc = "accepted"]
           q == IF AdmitsAccount(req[r].side, req[r].snap.admin) THEN in ELSE NoRequest
<1>1. /\ req[r].pc = "store" /\ cache' = CachePut(e) /\ req' = [req EXCEPT ![r] = q]
      /\ UNCHANGED <<row, session, adm>>
  BY DEF StoreCache
<1>2. req[r] \in Verifications /\ u \in Users /\ row[u] \in Rows \cup {None} /\ RequestSound(req[r], row[u])
  BY <1>1, RequestIs
<1>3. req[r].pw \in Passwords /\ req[r].snap \in Rows /\ req[r].raced \in BOOLEAN
  BY <1>1, <1>2 DEF RequestSound, Checked, Verifications
<1>4. /\ e \in CacheEntries /\ e.user = u /\ e.pw = req[r].pw /\ e.snap = req[r].snap
      /\ e.raced = (req[r].raced \/ pending)
  BY <1>2, <1>3 DEF CacheEntries
<1> HIDE DEF e
<1>5. EntrySound(e, row[u])
  BY <1>1, <1>2, <1>4 DEF EntrySound, RequestSound, Checked
<1>6. \A a \in Admins : adm[a].pc = "update" /\ e.user = adm[a].user => e.raced
  BY <1>4
<1>7. /\ cache' \in Seq(CacheEntries) /\ Len(cache') <= MaxCache
      /\ \A j \in 1..Len(cache') : cache'[j] = e \/ \E k \in 1..Len(cache) : cache'[j] = cache[k]
  BY <1>1, <1>4, PutIs DEF IInv
<1>8. CacheSound(cache', row) /\ PendingRaced(cache', adm)
  BY <1>4, <1>5, <1>6, <1>7, CacheGrows, PendingGrows DEF IInv
<1>9. /\ in \in Verifications /\ in.pc = "accepted" /\ in.snap = req[r].snap /\ in.user = u
      /\ in.side = req[r].side /\ in.pw = req[r].pw /\ in.raced = req[r].raced
  BY <1>2 DEF Verifications
<1> HIDE DEF in
<1>10. AdmitsAccount(req[r].side, req[r].snap.admin) => RequestSound(in, row[u])
  BY <1>1, <1>2, <1>9 DEF RequestSound, Checked, AdmitsAccount
<1>11. q \in Verifications /\ (q.pc # "idle" => q.user \in Users /\ RequestSound(q, row[q.user]))
  BY <1>2, <1>9, <1>10, NoRequestIs
<1> HIDE DEF q
<1>12. req' \in [Requests -> Verifications] /\ RequestsSound(req', row)
  BY <1>1, <1>11, RequestPut DEF IInv, TypeOK
<1> QED BY <1>1, <1>7, <1>8, <1>12 DEF IInv, TypeOK

LEMMA AnswerStep == ASSUME IInv, NEW r \in Requests, AnswerBasic(r) PROVE IInv'
BY NoRequestIs, RequestMoves DEF AnswerBasic

\* A session is worth what the verification was.
LEMMA SessionStep ==
    ASSUME IInv, NEW r \in Requests, NEW s \in Tokens, NewSession(r, s) PROVE IInv'
<1> DEFINE t == [user |-> req[r].user, pw |-> req[r].pw, raced |-> req[r].raced]
<1>1. /\ req[r].pc = "accepted" /\ session' = [session EXCEPT ![s] = t]
      /\ req' = [req EXCEPT ![r] = NoRequest] /\ UNCHANGED <<row, cache, adm>>
  BY DEF NewSession
<1>2. req[r] \in Verifications /\ req[r].user \in Users /\ RequestSound(req[r], row[req[r].user])
  BY <1>1, RequestIs
<1>3. t \in SessionRows
  BY <1>1, <1>2 DEF RequestSound, Verifications, SessionRows
<1>4. SessionSound(t, row[t.user])
  BY <1>1, <1>2 DEF RequestSound, SessionSound, Checked, Vouched, Alike
<1> HIDE DEF t
<1>5. session' \in [Tokens -> SessionRows \cup {None}] /\ SessionsSound(session', row)
  BY <1>1, <1>3, <1>4 DEF IInv, TypeOK, SessionsSound
<1>6. req' \in [Requests -> Verifications] /\ RequestsSound(req', row)
  BY <1>1, NoRequestIs, RequestPut DEF IInv, TypeOK
<1> QED BY <1>1, <1>5, <1>6 DEF IInv, TypeOK

LEMMA EndStep == ASSUME IInv, NEW s \in Tokens, EndSession(s) PROVE IInv'
BY DEF EndSession, IInv, TypeOK, SessionsSound
-----------------------------------------------------------------------------
(***************************************************************************)
(* The steps that write a row.                                             *)
(***************************************************************************)

\* A row that exists is written over: what is kept of another account is as sound as it was.
LEMMA RowWritten ==
    ASSUME IInv, NEW u \in Users, NEW w \in Rows, row[u] # None
    PROVE  /\ [row EXCEPT ![u] = w] \in [Users -> Rows \cup {None}]
           /\ [row EXCEPT ![u] = w][u] = w
           /\ \A v \in Users : v # u => [row EXCEPT ![u] = w][v] = row[v]
           /\ ChangesSound(adm, [row EXCEPT ![u] = w])
<1>1. row \in [Users -> Rows \cup {None}] /\ w # None
  BY NoneAssumption DEF IInv, TypeOK
<1> QED BY <1>1 DEF IInv, ChangesSound, ChangeSound

\* A request that is told that it was overtaken is sound whatever the row says now.
LEMMA TellingIs ==
    ASSUME NEW q \in Verifications, NEW old, RequestSound(q, old), NEW w \in Rows
    PROVE  /\ [q EXCEPT !.raced = TRUE] \in Verifications
           /\ [q EXCEPT !.raced = TRUE].user = q.user
           /\ RequestSound([q EXCEPT !.raced = TRUE], w)
           /\ q.pc \in {"idle", "lookup"} => RequestSound(q, w)
<1> DEFINE t == [q EXCEPT !.raced = TRUE]
<1>1. /\ t \in Verifications /\ t.pc = q.pc /\ t.side = q.side /\ t.user = q.user
      /\ t.pw = q.pw /\ t.snap = q.snap /\ t.raced = TRUE
  BY DEF Verifications
<1> HIDE DEF t
<1>2. w # None
  BY NoneAssumption
<1>3. RequestSound(t, w)
  BY <1>1, <1>2 DEF RequestSound
<1>4. q.pc \in {"idle", "lookup"} => RequestSound(q, w)
  BY DEF RequestSound, Checked
<1> QED BY <1>1, <1>3, <1>4 DEF t

\* When a row is written, whoever already read it is told, and everybody else is as sound.
LEMMA OvertakenIs ==
    ASSUME IInv, NEW u \in Users, NEW w \in Rows, row[u] # None
    PROVE  /\ Overtaken(u) \in [Requests -> Verifications]
           /\ RequestsSound(Overtaken(u), [row EXCEPT ![u] = w])
<1> DEFINE rw == [row EXCEPT ![u] = w]
<1>1. rw[u] = w /\ \A v \in Users : v # u => rw[v] = row[v]
  BY RowWritten
<1> HIDE DEF rw
<1>2. req \in [Requests -> Verifications]
  BY DEF IInv, TypeOK
<1>3. ASSUME NEW r \in Requests
      PROVE  /\ Overtaken(u)[r] \in Verifications
             /\ Overtaken(u)[r].pc # "idle" =>
                   Overtaken(u)[r].user \in Users /\ RequestSound(Overtaken(u)[r], rw[Overtaken(u)[r].user])
  <2>1. Overtaken(u)[r] =
            IF req[r].user = u /\ req[r].pc \notin {"idle", "lookup"}
            THEN [req[r] EXCEPT !.raced = TRUE] ELSE req[r]
    BY DEF Overtaken
  <2>2. req[r] \in Verifications
    BY <1>2
  <2>3. CASE req[r].pc = "idle"
    BY <2>1, <2>2, <2>3
  <2>4. ASSUME req[r].pc # "idle", req[r].user # u
        PROVE  /\ Overtaken(u)[r] = req[r] /\ req[r].user \in Users
               /\ RequestSound(req[r], rw[req[r].user])
    BY <1>1, <2>1, <2>4, RequestIs
  <2>5. ASSUME req[r].pc = "lookup", req[r].user = u
        PROVE  Overtaken(u)[r] = req[r] /\ RequestSound(req[r], rw[u])
    BY <1>1, <2>1, <2>2, <2>5, RequestIs, TellingIs
  <2>6. ASSUME req[r].pc \notin {"idle", "lookup"}, req[r].user = u
        PROVE  /\ Overtaken(u)[r] = [req[r] EXCEPT !.raced = TRUE]
               /\ [req[r] EXCEPT !.raced = TRUE] \in Verifications
               /\ [req[r] EXCEPT !.raced = TRUE].user = u
               /\ RequestSound([req[r] EXCEPT !.raced = TRUE], rw[u])
    BY <1>1, <2>1, <2>2, <2>6, RequestIs, TellingIs
  <2> QED BY <2>2, <2>3, <2>4, <2>5, <2>6
<1>4. Overtaken(u) \in [Requests -> Verifications]
  BY <1>3 DEF Overtaken
<1> QED BY <1>3, <1>4 DEF RequestsSound, rw

\* The sessions left by a change of password, or of an account that is disabled, are
\* those of others.
LEMMA DropIs ==
    ASSUME IInv, NEW u \in Users, NEW w \in Rows, row[u] # None, DropSessions(u)
    PROVE  /\ session' \in [Tokens -> SessionRows \cup {None}]
           /\ SessionsSound(session', [row EXCEPT ![u] = w])
<1> DEFINE rw == [row EXCEPT ![u] = w]
<1>1. \A v \in Users : v # u => rw[v] = row[v]
  BY RowWritten
<1> HIDE DEF rw
<1>2. session \in [Tokens -> SessionRows \cup {None}]
  BY DEF IInv, TypeOK
<1>3. \A s \in Tokens : session'[s] # None =>
          /\ session'[s] = session[s] /\ session[s] \in SessionRows
          /\ session[s].user # u /\ session[s].user \in Users
  BY <1>2 DEF DropSessions, SessionRows
<1>4. session' \in [Tokens -> SessionRows \cup {None}]
  BY <1>2 DEF DropSessions
<1>5. SessionsSound(session', rw)
  BY <1>1, <1>3 DEF IInv, SessionsSound
<1> QED BY <1>4, <1>5 DEF rw

\* The old password is hashed again and written.  A verification that was not overtaken
\* writes what the row says; one that was marks what the cache holds.
LEMMA RehashStep == ASSUME IInv, NEW r \in Requests, Rehash(r) PROVE IInv'
<1> DEFINE u == req[r].user
           fresh == [row[u] EXCEPT !.pw = req[r].pw, !.legacy = FALSE]
           q == [req[r] EXCEPT !.pc = "reread", !.snap = fresh]
<1>1. /\ req[r].pc = "rehash" /\ row' = [row EXCEPT ![u] = fresh] /\ DropSessions(u)
      /\ req' = [Overtaken(u) EXCEPT ![r] = q] /\ UNCHANGED adm
      /\ cache' = [i \in 1..Len(cache) |->
            [cache[i] EXCEPT !.raced = @ \/ (req[r].raced /\ cache[i].user = u)]]
  BY DEF Rehash
<1>2. req[r] \in Verifications /\ u \in Users /\ row[u] \in Rows \cup {None} /\ RequestSound(req[r], row[u])
  BY <1>1, RequestIs
<1>3. /\ req[r].pw \in Passwords /\ req[r].raced \in BOOLEAN /\ row[u] \in Rows /\ row[u] # None
      /\ ~req[r].raced => row[u].pw = req[r].pw /\ row[u].enabled
  BY <1>1, <1>2 DEF RequestSound, Checked, Verifications, Vouched
<1>4. /\ fresh \in Rows /\ fresh.pw = req[r].pw /\ fresh.enabled = row[u].enabled
      /\ fresh.admin = row[u].admin
  BY <1>3 DEF Rows
<1>5. fresh # None
  BY <1>4, NoneAssumption
<1>6. ~req[r].raced => Alike(row[u], fresh)
  BY <1>3, <1>4 DEF Alike
<1>7. /\ q \in Verifications /\ q.pc = "reread" /\ q.user = u /\ q.snap = fresh
      /\ q.side = req[r].side /\ q.pw = req[r].pw /\ q.raced = req[r].raced
  BY <1>2, <1>4 DEF Verifications
<1> HIDE DEF fresh, q
<1>8. /\ row' \in [Users -> Rows \cup {None}] /\ row'[u] = fresh
      /\ \A v \in Users : v # u => row'[v] = row[v]
      /\ ChangesSound(adm', row')
  BY <1>1, <1>2, <1>3, <1>4, RowWritten
<1>9. session' \in [Tokens -> SessionRows \cup {None}] /\ SessionsSound(session', row')
  BY <1>1, <1>2, <1>3, <1>4, DropIs
<1>10. RequestSound(q, row'[u])
  BY <1>1, <1>2, <1>3, <1>4, <1>5, <1>7, <1>8 DEF RequestSound, Checked, Vouched, Alike
<1>11. req' \in [Requests -> Verifications] /\ RequestsSound(req', row')
  <2>1. Overtaken(u) \in [Requests -> Verifications] /\ RequestsSound(Overtaken(u), row')
    BY <1>1, <1>2, <1>3, <1>4, OvertakenIs
  <2> QED BY <1>1, <1>2, <1>7, <1>10, <2>1, RequestPut
<1>12. cache \in Seq(CacheEntries) /\ Len(cache) \in Nat
  BY DEF IInv, TypeOK
<1>13. ASSUME NEW i \in 1..Len(cache)
       PROVE  /\ cache'[i] \in CacheEntries /\ cache'[i].user = cache[i].user
              /\ EntrySound(cache'[i], row'[cache[i].user])
              /\ cache[i].raced => cache'[i].raced
  <2> DEFINE e == cache[i]
             g == [e EXCEPT !.raced = @ \/ (req[r].raced /\ e.user = u)]
  <2>1. e \in CacheEntries /\ EntrySound(e, row[e.user])
    BY <1>12 DEF IInv, CacheSound
  <2>2. e.user \in Users /\ e.raced \in BOOLEAN
    BY <2>1 DEF CacheEntries
  <2>3. cache'[i] = g
    BY <1>1, <1>12
  <2>4. /\ g \in CacheEntries /\ g.user = e.user /\ g.pw = e.pw /\ g.snap = e.snap
        /\ g.raced = (e.raced \/ (req[r].raced /\ e.user = u))
    BY <1>3, <2>1, <2>2 DEF CacheEntries
  <2> HIDE DEF g, e
  <2>5. ASSUME e.user # u PROVE EntrySound(g, row'[e.user])
    BY <1>8, <2>1, <2>2, <2>4, <2>5 DEF EntrySound
  <2>6. ASSUME e.user = u, req[r].raced PROVE EntrySound(g, row'[e.user])
    BY <1>5, <1>8, <2>4, <2>6 DEF EntrySound
  <2>7. ASSUME e.user = u, ~req[r].raced PROVE EntrySound(g, row'[e.user])
    <3>1. EntrySound(e, fresh)
      BY <1>2, <1>3, <1>4, <1>6, <2>1, <2>7, RowKept DEF IInv, TypeOK
    <3> QED BY <1>8, <2>4, <2>7, <3>1 DEF EntrySound
  <2>8. EntrySound(g, row'[e.user])
    BY <2>5, <2>6, <2>7
  <2> QED BY <2>3, <2>4, <2>8 DEF e
<1>14. cache' \in Seq(CacheEntries) /\ Len(cache') = Len(cache)
  <2>1. cache' \in [1..Len(cache) -> CacheEntries]
    BY <1>1, <1>13
  <2> QED BY <1>12, <2>1
<1>15. CacheSound(cache', row')
  <2>1. ASSUME NEW i \in 1..Len(cache') PROVE EntrySound(cache'[i], row'[cache'[i].user])
    <3>1. i \in 1..Len(cache)
      BY <1>14
    <3>2. EntrySound(cache'[i], row'[cache[i].user]) /\ cache'[i].user = cache[i].user
      BY <1>13, <3>1
    <3> QED BY <3>2
  <2> QED BY <2>1 DEF CacheSound
<1>16. PendingRaced(cache', adm')
  <2>1. PendingRaced(cache, adm) /\ adm' = adm
    BY <1>1 DEF IInv
  <2>2. \A i \in 1..Len(cache') :
            i \in 1..Len(cache) /\ cache'[i].user = cache[i].user /\ (cache[i].raced => cache'[i].raced)
    BY <1>13, <1>14
  <2> QED BY <2>1, <2>2 DEF PendingRaced
<1>17. Len(cache') <= MaxCache /\ adm' \in [Admins -> Changes]
  BY <1>1, <1>14 DEF IInv, TypeOK
<1> QED BY <1>1, <1>8, <1>9, <1>11, <1>14, <1>15, <1>16, <1>17 DEF IInv, TypeOK
-----------------------------------------------------------------------------
(***************************************************************************)
(* The steps of a change.                                                  *)
(***************************************************************************)

\* A step that moves one change, not to its update, and perhaps ends a request.
LEMMA ChangeMoves ==
    ASSUME IInv, NEW a \in Admins, NEW c \in Changes,
           adm' = [adm EXCEPT ![a] = c], UNCHANGED <<row, cache, session>>,
           req' = req \/ \E r \in Requests : req' = [req EXCEPT ![r] = NoRequest],
           c.pc # "update",
           c.pc \in {"count", "clear"} => c.user \in Users /\ ChangeSound(c, row[c.user])
    PROVE  IInv'
<1>1. adm' \in [Admins -> Changes] /\ ChangesSound(adm', row)
  BY ChangePut DEF IInv, TypeOK
<1>2. req' \in [Requests -> Verifications] /\ RequestsSound(req', row)
  BY NoRequestIs, RequestPut DEF IInv, TypeOK
<1>3. PendingRaced(cache, adm')
  BY DEF IInv, TypeOK, PendingRaced
<1> QED BY <1>1, <1>2, <1>3 DEF IInv, TypeOK

LEMMA NoChangeIs == NoChange \in Changes /\ NoChange.pc = "idle"
BY DEF NoChange, Changes

\* A change that was identified.
LEMMA IdentifiedIs ==
    ASSUME NEW u \in Users
    PROVE  /\ [NoChange EXCEPT !.pc = "identified", !.by = u] \in Changes
           /\ [NoChange EXCEPT !.pc = "identified", !.by = u].pc = "identified"
BY DEF NoChange, Changes

LEMMA IdentifyBasicStep ==
    ASSUME IInv, NEW a \in Admins, NEW r \in Requests, IdentifyBasic(a, r) PROVE IInv'
<1>1. req[r].user \in Users
  BY RequestIs DEF IdentifyBasic
<1> QED BY <1>1, IdentifiedIs, ChangeMoves DEF IdentifyBasic, Identified

LEMMA IdentifySessionStep ==
    ASSUME IInv, NEW a \in Admins, NEW s \in Tokens, NEW side \in Sides, IdentifySession(a, s, side)
    PROVE  IInv'
<1>1. session[s].user \in Users
  BY DEF IdentifySession, EnabledAdmins
<1> QED BY <1>1, IdentifiedIs, ChangeMoves DEF IdentifySession, Identified

\* A change that begins is one that its account has a row for.
LEMMA BeginIs ==
    ASSUME IInv, NEW a \in Admins, NEW u \in Users, NEW pc \in {"count", "clear"},
           NEW op, NEW val, MayBegin(a, op, u), Begin(a, pc, op, u, val),
           \/ op = "reset" /\ val \in Passwords
           \/ op \in {"enabled", "admin"} /\ val \in BOOLEAN
    PROVE  IInv'
<1> DEFINE c == [adm[a] EXCEPT !.pc = pc, !.op = op, !.user = u, !.val = val, !.raced = FALSE]
<1>1. adm \in [Admins -> Changes] /\ row[u] # None
  BY DEF IInv, TypeOK, MayBegin
<1>2. adm' = [adm EXCEPT ![a] = c] /\ UNCHANGED <<row, cache, session, req>>
  BY <1>1 DEF Begin
<1>3. c \in Changes /\ c.pc = pc /\ c.op = op /\ c.user = u /\ c.val = val
  BY <1>1 DEF Changes
<1> HIDE DEF c
<1>4. ChangeSound(c, row[u])
  BY <1>1, <1>3 DEF ChangeSound
<1> QED BY <1>2, <1>3, <1>4, ChangeMoves

\* The requests that begin, each with a value of its kind.
LEMMA BeginStep ==
    ASSUME IInv, NEW a \in Admins, NEW u \in Users,
           \/ \E p \in Passwords : BeginReset(a, u, p)
           \/ \E b \in BOOLEAN : BeginSetEnabled(a, u, b) \/ BeginSetAdmin(a, u, b)
    PROVE  IInv'
<1>1. ASSUME NEW p \in Passwords, BeginReset(a, u, p) PROVE IInv'
  BY <1>1, BeginIs DEF BeginReset
<1>2. ASSUME NEW b \in BOOLEAN, BeginSetEnabled(a, u, b) PROVE IInv'
  <2> DEFINE pc == IF ~b /\ row[u].admin THEN "count" ELSE "clear"
  <2>1. MayBegin(a, "enabled", u) /\ Begin(a, pc, "enabled", u, b)
    BY <1>2 DEF BeginSetEnabled
  <2>2. pc \in {"count", "clear"}
    OBVIOUS
  <2> HIDE DEF pc
  <2> QED BY <2>1, <2>2, BeginIs
<1>3. ASSUME NEW b \in BOOLEAN, BeginSetAdmin(a, u, b) PROVE IInv'
  <2> DEFINE pc == IF ~b /\ row[u].admin /\ row[u].enabled THEN "count" ELSE "clear"
  <2>1. MayBegin(a, "admin", u) /\ Begin(a, pc, "admin", u, b)
    BY <1>3 DEF BeginSetAdmin
  <2>2. pc \in {"count", "clear"}
    OBVIOUS
  <2> HIDE DEF pc
  <2> QED BY <2>1, <2>2, BeginIs
<1> QED BY <1>1, <1>2, <1>3

LEMMA AnswerAdminStep == ASSUME IInv, NEW a \in Admins, AnswerAdmin(a) PROVE IInv'
BY NoChangeIs, ChangeMoves DEF AnswerAdmin

LEMMA CountStep == ASSUME IInv, NEW a \in Admins, CountAdmins(a) PROVE IInv'
<1> DEFINE c == [adm[a] EXCEPT !.pc = "clear"]
<1>1. adm \in [Admins -> Changes] /\ adm[a].pc = "count" /\ UNCHANGED <<row, cache, session, req>>
  BY DEF IInv, TypeOK, CountAdmins
<1>2. adm' = [adm EXCEPT ![a] = NoChange] \/ adm' = [adm EXCEPT ![a] = c]
  BY <1>1 DEF CountAdmins
<1>3. /\ c \in Changes /\ c.pc = "clear" /\ c.op = adm[a].op /\ c.user = adm[a].user
      /\ c.val = adm[a].val
  BY <1>1 DEF Changes
<1> HIDE DEF c
<1>4. c.user \in Users /\ ChangeSound(c, row[c.user])
  BY <1>1, <1>3 DEF IInv, ChangesSound, ChangeSound
<1> QED BY <1>1, <1>2, <1>3, <1>4, NoChangeIs, ChangeMoves

\* The cache is emptied: nothing is left of the account for the pending update to make stale.
LEMMA ClearStep == ASSUME AccountsAssumption, IInv, NEW a \in Admins, ClearCache(a) PROVE IInv'
<1> DEFINE c == [adm[a] EXCEPT !.pc = "update"]
<1>1. adm \in [Admins -> Changes] /\ adm[a].pc = "clear"
  BY DEF IInv, TypeOK, ClearCache
<1>2. adm' = [adm EXCEPT ![a] = c] /\ cache' = <<>> /\ UNCHANGED <<row, session, req>>
  BY <1>1 DEF ClearCache
<1>3. /\ c \in Changes /\ c.pc = "update" /\ c.op = adm[a].op /\ c.user = adm[a].user
      /\ c.val = adm[a].val
  BY <1>1 DEF Changes
<1> HIDE DEF c
<1>4. c.user \in Users /\ ChangeSound(c, row[c.user])
  BY <1>1, <1>3 DEF IInv, ChangesSound, ChangeSound
<1>5. adm' \in [Admins -> Changes] /\ ChangesSound(adm', row)
  BY <1>1, <1>2, <1>3, <1>4, ChangePut DEF IInv
<1>6. cache' \in Seq(CacheEntries) /\ Len(cache') = 0 /\ 0 <= MaxCache
  BY <1>2 DEF AccountsAssumption
<1>7. CacheSound(cache', row) /\ PendingRaced(cache', adm')
  BY <1>6 DEF CacheSound, PendingRaced
<1> QED BY <1>2, <1>5, <1>6, <1>7 DEF IInv, TypeOK

\* A new account: nothing was kept of one that had no row.
LEMMA CreateStep ==
    ASSUME IInv, NEW a \in Admins, NEW u \in Users, NEW p \in Passwords, NEW b \in BOOLEAN,
           CreateUser(a, u, p, b)
    PROVE  IInv'
<1> DEFINE w == [pw |-> p, legacy |-> FALSE, enabled |-> TRUE, admin |-> b]
<1>1. /\ row[u] = None /\ row' = [row EXCEPT ![u] = w] /\ adm' = [adm EXCEPT ![a] = NoChange]
      /\ UNCHANGED <<cache, session, req>>
  BY DEF CreateUser
<1>2. w \in Rows
  BY DEF Rows
<1> HIDE DEF w
<1>3. /\ row' \in [Users -> Rows \cup {None}] /\ row'[u] = w
      /\ \A v \in Users : v # u => row'[v] = row[v]
  BY <1>1, <1>2 DEF IInv, TypeOK
<1>4. adm' \in [Admins -> Changes] /\ ChangesSound(adm', row)
  BY <1>1, NoChangeIs, ChangePut DEF IInv, TypeOK
<1>5. ChangesSound(adm', row')
  BY <1>1, <1>3, <1>4 DEF ChangesSound, ChangeSound
<1>6. CacheSound(cache, row')
  <2>1. ASSUME NEW i \in 1..Len(cache) PROVE EntrySound(cache[i], row'[cache[i].user])
    <3>1. cache[i].user \in Users /\ EntrySound(cache[i], row[cache[i].user])
      <4>1. cache[i] \in CacheEntries
        BY DEF IInv, TypeOK
      <4> QED BY <4>1 DEF IInv, CacheSound, CacheEntries
    <3>2. cache[i].user # u
      BY <1>1, <3>1 DEF EntrySound
    <3> QED BY <1>3, <3>1, <3>2
  <2> QED BY <2>1 DEF CacheSound
<1>7. SessionsSound(session, row')
  <2>1. ASSUME NEW s \in Tokens, session[s] # None PROVE SessionSound(session[s], row'[session[s].user])
    <3>1. session[s].user \in Users /\ SessionSound(session[s], row[session[s].user])
      BY <2>1 DEF IInv, TypeOK, SessionsSound, SessionRows
    <3>2. session[s].user # u
      BY <1>1, <3>1 DEF SessionSound
    <3> QED BY <1>3, <3>1, <3>2
  <2> QED BY <2>1 DEF SessionsSound
<1>8. RequestsSound(req, row')
  <2>1. ASSUME NEW r \in Requests, req[r].pc # "idle" PROVE RequestSound(req[r], row'[req[r].user])
    <3>1. req[r].user \in Users /\ RequestSound(req[r], row[req[r].user])
      BY <2>1, RequestIs
    <3>2. req[r].user = u => RequestSound(req[r], w)
      BY <1>1, <3>1 DEF RequestSound
    <3> QED BY <1>3, <3>1, <3>2
  <2> QED BY <2>1 DEF RequestsSound, IInv
<1>9. PendingRaced(cache, adm')
  BY <1>1, NoChangeIs DEF IInv, TypeOK, PendingRaced
<1> QED BY <1>1, <1>3, <1>4, <1>5, <1>6, <1>7, <1>8, <1>9 DEF IInv, TypeOK
\* A change that is overtaken is the same otherwise.
LEMMA OvertakenChangesAre ==
    ASSUME adm \in [Admins -> Changes]
    PROVE  /\ OvertakenChanges \in [Admins -> Changes]
           /\ \A b \in Admins :
                 /\ OvertakenChanges[b].pc = adm[b].pc /\ OvertakenChanges[b].op = adm[b].op
                 /\ OvertakenChanges[b].user = adm[b].user
                 /\ OvertakenChanges[b].val = adm[b].val
                 /\ \/ OvertakenChanges[b] = adm[b] /\ EnabledAdmins' = EnabledAdmins
                    \/ OvertakenChanges[b].raced
                    \/ adm[b].pc \notin {"clear", "update"}
BY DEF OvertakenChanges, Changes

\* update_user: whoever already read the row is told, what the cache holds of the account is
\* marked, and the sessions that the change would make stale are ended.
LEMMA UpdateStep == ASSUME IInv, NEW a \in Admins, UpdateUser(a) PROVE IInv'
<1> DEFINE c == adm[a]
           u == c.user
           w == CASE c.op = "reset"   -> [row[u] EXCEPT !.pw = c.val, !.legacy = FALSE]
                  [] c.op = "enabled" -> [row[u] EXCEPT !.enabled = c.val]
                  [] c.op = "admin"   -> [row[u] EXCEPT !.admin = c.val]
           ends == c.op = "reset" \/ (c.op = "enabled" /\ ~c.val)
           d == [c EXCEPT !.pc = "identified", !.val = FALSE, !.raced = FALSE]
<1>1. /\ c \in Changes /\ c.pc = "update"
      /\ adm \in [Admins -> Changes] /\ row \in [Users -> Rows \cup {None}]
  BY DEF IInv, TypeOK, UpdateUser
<1>2. u \in Users /\ ChangeSound(c, row[u])
  BY <1>1 DEF IInv, ChangesSound
<1>3. row[u] \in Rows /\ row[u] # None
  BY <1>1, <1>2 DEF ChangeSound
<1>4. /\ row' = [row EXCEPT ![u] = w] /\ req' = Overtaken(u)
      /\ adm' = [OvertakenChanges EXCEPT ![a] = d] /\ cache' = cache
      /\ ends => DropSessions(u)
      /\ ~ends => session' = session
  BY <1>1, <1>2 DEF UpdateUser
<1>5. /\ w \in Rows
      /\ ~ends => w.pw = row[u].pw /\ (w.enabled \/ w.enabled = row[u].enabled)
  <2>1. ASSUME c.op = "reset", c.val \in Passwords
        PROVE  w = [row[u] EXCEPT !.pw = c.val, !.legacy = FALSE]
    BY <2>1
  <2>2. ASSUME c.op = "enabled", c.val \in BOOLEAN PROVE w = [row[u] EXCEPT !.enabled = c.val]
    BY <2>2
  <2>3. ASSUME c.op = "admin", c.val \in BOOLEAN PROVE w = [row[u] EXCEPT !.admin = c.val]
    BY <2>3
  <2>4. \/ c.op = "reset" /\ c.val \in Passwords
        \/ c.op = "enabled" /\ c.val \in BOOLEAN
        \/ c.op = "admin" /\ c.val \in BOOLEAN
    BY <1>1, <1>2 DEF ChangeSound
  <2> HIDE DEF w
  <2>5. ASSUME c.op = "reset", c.val \in Passwords PROVE w \in Rows
    BY <1>3, <2>1, <2>5 DEF Rows
  <2>6. ASSUME c.op = "enabled", c.val \in BOOLEAN
        PROVE  w \in Rows /\ w.pw = row[u].pw /\ w.enabled = c.val
    BY <1>3, <2>2, <2>6 DEF Rows
  <2>7. ASSUME c.op = "admin", c.val \in BOOLEAN
        PROVE  w \in Rows /\ w.pw = row[u].pw /\ w.enabled = row[u].enabled
    BY <1>3, <2>3, <2>7 DEF Rows
  <2> QED BY <2>4, <2>5, <2>6, <2>7
<1>6. d \in Changes /\ d.pc = "identified"
  BY <1>1 DEF Changes
<1> HIDE DEF w, d, c
<1>7. /\ row' \in [Users -> Rows \cup {None}] /\ row'[u] = w
      /\ \A v \in Users : v # u => row'[v] = row[v]
      /\ ChangesSound(adm, row')
  BY <1>2, <1>3, <1>4, <1>5, RowWritten
<1>8. req' \in [Requests -> Verifications] /\ RequestsSound(req', row')
  BY <1>2, <1>3, <1>4, <1>5, OvertakenIs
<1>9. adm' \in [Admins -> Changes] /\ ChangesSound(adm', row')
  <2>1. OvertakenChanges \in [Admins -> Changes] /\ ChangesSound(OvertakenChanges, row')
    BY <1>1, <1>7, OvertakenChangesAre DEF ChangesSound, ChangeSound
  <2> QED BY <1>4, <1>6, <2>1, ChangePut
<1>10. w # None
  BY <1>5, NoneAssumption
<1>11. session' \in [Tokens -> SessionRows \cup {None}] /\ SessionsSound(session', row')
  <2>1. CASE ends
    BY <1>2, <1>3, <1>4, <1>5, <2>1, DropIs
  <2>2. ASSUME ~ends PROVE SessionsSound(session', row')
    <3>1. ASSUME NEW s \in Tokens, session[s] # None
          PROVE  SessionSound(session[s], row'[session[s].user])
      <4>1. session[s].user \in Users /\ SessionSound(session[s], row[session[s].user])
        BY <3>1 DEF IInv, TypeOK, SessionsSound, SessionRows
      <4>2. session[s].user = u => SessionSound(session[s], w)
        BY <1>5, <1>10, <2>2, <4>1 DEF SessionSound
      <4> QED BY <1>7, <4>1, <4>2
    <3> QED BY <1>4, <2>2, <3>1 DEF SessionsSound
  <2> QED BY <1>4, <2>1, <2>2 DEF IInv, TypeOK
<1>12. CacheSound(cache, row')
  <2>1. ASSUME NEW i \in 1..Len(cache) PROVE EntrySound(cache[i], row'[cache[i].user])
    <3>1. cache[i].user \in Users /\ EntrySound(cache[i], row[cache[i].user])
      <4>1. cache[i] \in CacheEntries
        BY DEF IInv, TypeOK
      <4> QED BY <4>1 DEF IInv, CacheSound, CacheEntries
    <3>2. cache[i].user = u => cache[i].raced
      BY <1>1 DEF IInv, PendingRaced, c
    <3>3. cache[i].user = u => EntrySound(cache[i], w)
      BY <1>10, <3>2 DEF EntrySound
    <3> QED BY <1>7, <3>1, <3>3
  <2> QED BY <2>1 DEF CacheSound
<1>13. PendingRaced(cache, adm')
  <2>1. \A b \in Admins : adm'[b].pc = "update" => adm[b].pc = "update" /\ adm'[b].user = adm[b].user
    BY <1>1, <1>4, <1>6, OvertakenChangesAre
  <2> QED BY <2>1 DEF IInv, PendingRaced
<1> QED BY <1>4, <1>7, <1>8, <1>9, <1>11, <1>12, <1>13 DEF IInv, TypeOK

-----------------------------------------------------------------------------
(***************************************************************************)
(* The theorems.                                                           *)
(***************************************************************************)

\* Every step keeps the invariant.
LEMMA NextInv == AccountsAssumption /\ IInv /\ [Next]_vars => IInv'
<1> SUFFICES ASSUME AccountsAssumption, IInv, [Next]_vars PROVE IInv'
  OBVIOUS
<1>1. CASE CacheExpire
  BY <1>1, ExpireStep
<1>2. ASSUME NEW r \in Requests, Verify(r) PROVE IInv'
  BY <1>2, HitStep, MissStep, ReadStep, CheckStep, RehashStep, RereadStep, StoreStep, AnswerStep,
     SessionStep DEF Verify
<1>3. ASSUME NEW a \in Admins, Administer(a) PROVE IInv'
  BY <1>3, IdentifyBasicStep, IdentifySessionStep, BeginStep, CreateStep, AnswerAdminStep,
     CountStep, ClearStep, UpdateStep DEF Administer
<1>4. ASSUME NEW s \in Tokens, EndSession(s) PROVE IInv'
  BY <1>4, EndStep
<1>5. CASE UNCHANGED vars
  BY <1>5 DEF vars, IInv, TypeOK
<1> QED BY <1>1, <1>2, <1>3, <1>4, <1>5 DEF Next

\* What every state satisfies, whatever the number of verifications and changes at work.
THEOREM Invariant == Spec => []IInv
<1>1. AccountsAssumption
  BY AccountsAssumption
<1> QED BY <1>1, InitInv, NextInv, PTL DEF Spec

\* The variables keep their types, and _basic_cache its 128 entries (MaxCache).
THEOREM TypeCorrect == Spec => []TypeOK
<1>1. IInv => TypeOK
  BY DEF IInv
<1> QED BY <1>1, Invariant, PTL

\* A remembered credential and a session say what the row says, unless they are marked
\* (verify, update_user and the clear before it).
THEOREM StaleAlwaysRaced == Spec => []StaleOnlyIfRaced
<1>1. IInv => StaleOnlyIfRaced
  <2> SUFFICES ASSUME IInv PROVE StaleOnlyIfRaced
    OBVIOUS
  <2>1. ASSUME NEW i \in 1..Len(cache), ~cache[i].raced
        PROVE  Agrees(cache[i].snap, cache[i].user) /\ cache[i].pw = row[cache[i].user].pw
    BY <2>1 DEF IInv, CacheSound, EntrySound, Vouched, Alike, Agrees
  <2>2. ASSUME NEW s \in Tokens, session[s] # None, ~session[s].raced
        PROVE  row[session[s].user].enabled /\ session[s].pw = row[session[s].user].pw
    BY <2>2 DEF IInv, SessionsSound, SessionSound
  <2> QED BY <2>1, <2>2 DEF StaleOnlyIfRaced
<1> QED BY <1>1, Invariant, PTL

\* Nobody is let in at the public door who is an administrator, unless the sign-in was
\* overtaken by the promotion (verify_password, admits_account).
THEOREM PublicAlwaysForReaders == Spec => []PublicIsForReaders
<1>1. IInv => PublicIsForReaders
  <2> SUFFICES ASSUME IInv, NEW r \in Requests, req[r].pc = "accepted",
                      req[r].side = "public", ~req[r].raced
               PROVE  ~row[req[r].user].admin
    BY DEF PublicIsForReaders
  <2> QED BY RequestIs DEF RequestSound, Checked, Vouched, Alike
<1> QED BY <1>1, Invariant, PTL

\* An account that exists keeps its password, but for a reset of it or the rehash of a sign-in
\* that was overtaken (verify, reset_password, update_user).
PasswordKept(u) ==
    row[u] # None /\ row'[u].pw # row[u].pw =>
        \/ \E a \in Admins : adm[a].pc = "update" /\ adm[a].op = "reset" /\ adm[a].user = u
        \/ \E r \in Requests : req[r].pc = "rehash" /\ req[r].user = u /\ req[r].raced

\* A rehash that was not overtaken writes the password that the row holds.
LEMMA RehashKeeps ==
    ASSUME IInv, NEW r \in Requests, Rehash(r), NEW u \in Users
    PROVE  PasswordKept(u)
<1> DEFINE v == req[r].user
           fresh == [row[v] EXCEPT !.pw = req[r].pw, !.legacy = FALSE]
<1>1. req[r].pc = "rehash" /\ row' = [row EXCEPT ![v] = fresh]
  BY DEF Rehash
<1>2. v \in Users /\ row[v] \in Rows /\ (~req[r].raced => row[v].pw = req[r].pw)
      /\ req[r].raced \in BOOLEAN
  BY <1>1, RequestIs DEF RequestSound, Checked, Vouched, Verifications
<1>3. fresh.pw = req[r].pw
  BY <1>2 DEF Rows
<1>4. row \in [Users -> Rows \cup {None}]
  BY DEF IInv, TypeOK
<1> HIDE DEF fresh
<1>5. CASE u = v
  <2>1. row'[u].pw = req[r].pw
    BY <1>1, <1>2, <1>3, <1>4, <1>5
  <2> QED BY <1>1, <1>2, <1>5, <2>1 DEF PasswordKept
<1>6. CASE u # v
  BY <1>1, <1>4, <1>6 DEF PasswordKept
<1> QED BY <1>5, <1>6

\* set_enabled and set_admin write no password.
LEMMA UpdateKeeps ==
    ASSUME IInv, NEW a \in Admins, UpdateUser(a), NEW u \in Users
    PROVE  PasswordKept(u)
<1> DEFINE c == adm[a]
           v == c.user
           w == CASE c.op = "reset"   -> [row[v] EXCEPT !.pw = c.val, !.legacy = FALSE]
                  [] c.op = "enabled" -> [row[v] EXCEPT !.enabled = c.val]
                  [] c.op = "admin"   -> [row[v] EXCEPT !.admin = c.val]
<1>1. c.pc = "update" /\ row' = [row EXCEPT ![v] = w]
  BY DEF UpdateUser
<1>2. row \in [Users -> Rows \cup {None}] /\ v \in Users /\ ChangeSound(c, row[v])
  BY <1>1 DEF IInv, TypeOK, ChangesSound
<1>3. row[v] \in Rows /\ c.op \in {"reset", "enabled", "admin"}
  BY <1>1, <1>2 DEF ChangeSound
<1>4. c.op # "reset" => w.pw = row[v].pw
  <2>1. ASSUME c.op = "enabled" PROVE w = [row[v] EXCEPT !.enabled = c.val]
    BY <2>1
  <2>2. ASSUME c.op = "admin" PROVE w = [row[v] EXCEPT !.admin = c.val]
    BY <2>2
  <2> HIDE DEF w
  <2> QED BY <1>3, <2>1, <2>2 DEF Rows
<1> HIDE DEF w
<1>5. u = v => row'[u] = w
  BY <1>1, <1>2
<1>6. u # v => row'[u] = row[u]
  BY <1>1, <1>2
<1> QED BY <1>1, <1>4, <1>5, <1>6 DEF PasswordKept

\* Nothing else writes the row of an account that exists.
THEOREM PasswordsAlwaysKept == Spec => PasswordsKept
<1>1. IInv /\ [Next]_vars => [\A u \in Users : PasswordKept(u)]_vars
  <2> SUFFICES ASSUME IInv, [Next]_vars, NEW u \in Users PROVE PasswordKept(u)
    OBVIOUS
  <2>1. ASSUME row' = row PROVE PasswordKept(u)
    BY <2>1 DEF PasswordKept
  <2>2. ASSUME NEW r \in Requests, Verify(r) PROVE PasswordKept(u)
    BY <2>1, <2>2, RehashKeeps DEF Verify, CacheHit, CacheMiss, ReadUser, CheckHash, Reread,
       StoreCache, AnswerBasic, NewSession
  <2>3. ASSUME NEW a \in Admins, Administer(a) PROVE PasswordKept(u)
    <3>1. ASSUME NEW v \in Users, NEW p \in Passwords, NEW b \in BOOLEAN, CreateUser(a, v, p, b)
          PROVE  PasswordKept(u)
      BY <3>1 DEF CreateUser, PasswordKept, IInv, TypeOK
    <3> QED BY <2>1, <2>3, <3>1, UpdateKeeps DEF Administer, IdentifyBasic, IdentifySession,
               BeginReset, BeginSetEnabled, BeginSetAdmin, Begin, AnswerAdmin, CountAdmins, ClearCache
  <2>4. CASE CacheExpire \/ (\E s \in Tokens : EndSession(s)) \/ UNCHANGED vars
    BY <2>1, <2>4 DEF CacheExpire, EndSession, vars
  <2> QED BY <2>2, <2>3, <2>4 DEF Next
<1>2. ([][\A u \in Users : PasswordKept(u)]_vars) <=> PasswordsKept
  BY DEF PasswordsKept, PasswordKept
<1> QED BY <1>1, <1>2, Invariant, PTL DEF Spec
-----------------------------------------------------------------------------
(***************************************************************************)
(* By which changes the last administrator is taken away.                  *)
(***************************************************************************)

\* Two are counted: there is another one, whoever is about to be taken away.
LEMMA AnotherAdmin ==
    ASSUME AccountsAssumption, Cardinality(EnabledAdmins) > 1, NEW u
    PROVE  \E w \in EnabledAdmins : w # u
<1> SUFFICES ASSUME EnabledAdmins \subseteq {u} PROVE FALSE
  OBVIOUS
<1>1. IsFiniteSet({u}) /\ Cardinality({u}) = 1
  BY FS_Singleton
<1>2. Cardinality(EnabledAdmins) <= 1 /\ Cardinality(EnabledAdmins) \in Nat
  BY <1>1, FS_Subset, FS_CardinalityType
<1> QED BY <1>2

\* A change that takes nobody who counts, or leaves another one, or only goes on.
Harmless(c, b) ==
    \/ ~Takes(c)
    \/ c.user \notin EnabledAdmins
    \/ \E w \in EnabledAdmins : w # c.user
    \/ Takes(adm[b]) /\ c.user = adm[b].user /\ c.raced = adm[b].raced

\* A step that writes no row, and after which every change is harmless.
LEMMA AdminGoesOn ==
    ASSUME AdminInv, EnabledAdmins' = EnabledAdmins,
           \A b \in Admins : adm'[b] = adm[b] \/ Harmless(adm'[b], b)
    PROVE  AdminInv'
<1>1. SUFFICES ASSUME NEW b \in Admins, Takes(adm'[b]), ~adm'[b].raced,
                      adm'[b].user \in EnabledAdmins
               PROVE  \E w \in EnabledAdmins : w # adm'[b].user
  BY DEF AdminInv, Takes
<1>2. Takes(adm[b]) /\ ~adm[b].raced /\ adm[b].user \in EnabledAdmins =>
          \E w \in EnabledAdmins : w # adm[b].user
  BY DEF AdminInv
<1> QED BY <1>1, <1>2 DEF Harmless

\* A change that begins: if it takes an administrator away without a count, it takes nobody
\* that counts.
LEMMA AdminBegins ==
    ASSUME IInv, AdminInv, NEW a \in Admins, NEW u \in Users,
           NEW pc \in {"count", "clear"}, NEW op, NEW val, Begin(a, pc, op, u, val),
           pc = "clear" /\ op \in {"enabled", "admin"} /\ ~val => u \notin EnabledAdmins
    PROVE  AdminInv'
<1> DEFINE c == [adm[a] EXCEPT !.pc = pc, !.op = op, !.user = u, !.val = val, !.raced = FALSE]
<1>1. adm \in [Admins -> Changes]
  BY DEF IInv, TypeOK
<1>2. adm' = [adm EXCEPT ![a] = c] /\ row' = row
  BY <1>1 DEF Begin
<1>3. c.pc = pc /\ c.op = op /\ c.user = u /\ c.val = val
  BY <1>1 DEF Changes
<1> HIDE DEF c
<1>4. EnabledAdmins' = EnabledAdmins
  BY <1>2 DEF EnabledAdmins
<1>5. Harmless(c, a)
  BY <1>3 DEF Harmless, Takes
<1>6. \A b \in Admins : adm'[b] = adm[b] \/ Harmless(adm'[b], b)
  BY <1>1, <1>2, <1>5
<1> QED BY <1>4, <1>6, AdminGoesOn

\* The requests that begin, one PATCH after the other.
LEMMA AdminBeginStep ==
    ASSUME IInv, AdminInv, NEW a \in Admins, NEW u \in Users,
           \/ \E p \in Passwords : BeginReset(a, u, p)
           \/ \E b \in BOOLEAN : BeginSetEnabled(a, u, b) \/ BeginSetAdmin(a, u, b)
    PROVE  AdminInv'
<1>1. ASSUME NEW p \in Passwords, BeginReset(a, u, p) PROVE AdminInv'
  BY <1>1, AdminBegins DEF BeginReset
<1>2. ASSUME NEW b \in BOOLEAN, BeginSetEnabled(a, u, b) PROVE AdminInv'
  <2> DEFINE pc == IF ~b /\ row[u].admin THEN "count" ELSE "clear"
  <2>1. Begin(a, pc, "enabled", u, b)
    BY <1>2 DEF BeginSetEnabled
  <2>2. pc \in {"count", "clear"} /\ (pc = "clear" /\ ~b => u \notin EnabledAdmins)
    BY DEF EnabledAdmins
  <2> HIDE DEF pc
  <2> QED BY <2>1, <2>2, AdminBegins
<1>3. ASSUME NEW b \in BOOLEAN, BeginSetAdmin(a, u, b) PROVE AdminInv'
  <2> DEFINE pc == IF ~b /\ row[u].admin /\ row[u].enabled THEN "count" ELSE "clear"
  <2>1. Begin(a, pc, "admin", u, b)
    BY <1>3 DEF BeginSetAdmin
  <2>2. pc \in {"count", "clear"} /\ (pc = "clear" /\ ~b => u \notin EnabledAdmins)
    BY DEF EnabledAdmins
  <2> HIDE DEF pc
  <2> QED BY <2>1, <2>2, AdminBegins
<1> QED BY <1>1, <1>2, <1>3

\* The count lets a change go on only beside another administrator.
LEMMA AdminCountStep ==
    ASSUME AccountsAssumption, IInv, AdminInv, NEW a \in Admins, CountAdmins(a) PROVE AdminInv'
<1> DEFINE c == [adm[a] EXCEPT !.pc = "clear"]
<1>1. adm \in [Admins -> Changes] /\ row' = row
  BY DEF IInv, TypeOK, CountAdmins
<1>2. EnabledAdmins' = EnabledAdmins
  BY <1>1 DEF EnabledAdmins
<1>3. \/ adm' = [adm EXCEPT ![a] = NoChange]
      \/ Cardinality(EnabledAdmins) > 1 /\ adm' = [adm EXCEPT ![a] = c]
  BY DEF CountAdmins
<1>4. Harmless(NoChange, a)
  BY NoChangeIs DEF Harmless, Takes
<1>5. Cardinality(EnabledAdmins) > 1 => Harmless(c, a)
  BY AnotherAdmin DEF Harmless
<1> HIDE DEF c
<1>6. \A b \in Admins : adm'[b] = adm[b] \/ Harmless(adm'[b], b)
  BY <1>1, <1>3, <1>4, <1>5
<1> QED BY <1>2, <1>6, AdminGoesOn

\* The clear of the cache changes nobody's role.
LEMMA AdminClearStep ==
    ASSUME IInv, AdminInv, NEW a \in Admins, ClearCache(a) PROVE AdminInv'
<1> DEFINE c == [adm[a] EXCEPT !.pc = "update"]
<1>1. /\ adm \in [Admins -> Changes] /\ adm[a].pc = "clear" /\ row' = row
      /\ adm' = [adm EXCEPT ![a] = c]
  BY DEF IInv, TypeOK, ClearCache
<1>2. /\ c.pc = "update" /\ c.op = adm[a].op /\ c.user = adm[a].user /\ c.val = adm[a].val
      /\ c.raced = adm[a].raced
  BY <1>1 DEF Changes
<1> HIDE DEF c
<1>3. Harmless(c, a)
  BY <1>1, <1>2 DEF Harmless, Takes
<1>4. EnabledAdmins' = EnabledAdmins
  BY <1>1 DEF EnabledAdmins
<1>5. \A b \in Admins : adm'[b] = adm[b] \/ Harmless(adm'[b], b)
  BY <1>1, <1>3
<1> QED BY <1>4, <1>5, AdminGoesOn

\* update_user: if it alters who the enabled administrators are, every other change past its
\* count is overtaken.
LEMMA AdminUpdateStep ==
    ASSUME IInv, AdminInv, NEW a \in Admins, UpdateUser(a) PROVE AdminInv'
<1> DEFINE d == [adm[a] EXCEPT !.pc = "identified", !.val = FALSE, !.raced = FALSE]
<1>1. adm \in [Admins -> Changes] /\ adm' = [OvertakenChanges EXCEPT ![a] = d]
  BY DEF IInv, TypeOK, UpdateUser
<1>2. d.pc = "identified"
  BY <1>1 DEF Changes
<1> HIDE DEF d
<1>3. adm'[a] = d /\ \A b \in Admins : b # a => adm'[b] = OvertakenChanges[b]
  BY <1>1, OvertakenChangesAre
<1>4. \A b \in Admins : Takes(adm'[b]) /\ ~adm'[b].raced =>
          adm'[b] = adm[b] /\ EnabledAdmins' = EnabledAdmins
  BY <1>1, <1>2, <1>3, OvertakenChangesAre DEF Takes
<1> QED BY <1>4 DEF AdminInv, Takes

\* A rehash leaves roles and states as they are, and a new account is nobody that a change is
\* about.
LEMMA AdminWriteStep ==
    ASSUME IInv, AdminInv,
           \/ \E r \in Requests : Rehash(r)
           \/ \E a \in Admins, u \in Users, p \in Passwords, b \in BOOLEAN : CreateUser(a, u, p, b)
    PROVE  AdminInv' /\ EnabledAdmins \subseteq EnabledAdmins'
<1>1. row \in [Users -> Rows \cup {None}] /\ adm \in [Admins -> Changes]
  BY DEF IInv, TypeOK
<1>2. ASSUME NEW r \in Requests, Rehash(r) PROVE AdminInv' /\ EnabledAdmins \subseteq EnabledAdmins'
  <2> DEFINE u == req[r].user
             fresh == [row[u] EXCEPT !.pw = req[r].pw, !.legacy = FALSE]
  <2>1. req[r].pc = "rehash" /\ row' = [row EXCEPT ![u] = fresh] /\ adm' = adm
    BY <1>2 DEF Rehash
  <2>2. u \in Users /\ req[r] \in Verifications /\ RequestSound(req[r], row[u])
    BY <2>1, RequestIs
  <2>3. row[u] \in Rows /\ row[u] # None /\ req[r].pw \in Passwords
    BY <1>1, <2>1, <2>2 DEF RequestSound, Checked
  <2>4. fresh \in Rows /\ fresh.enabled = row[u].enabled /\ fresh.admin = row[u].admin
    BY <2>3 DEF Rows
  <2> HIDE DEF fresh
  <2>5. row'[u] = fresh /\ fresh # None /\ \A v \in Users : v # u => row'[v] = row[v]
    BY <1>1, <2>1, <2>2, <2>4, NoneAssumption
  <2>6. EnabledAdmins' = EnabledAdmins
    BY <2>3, <2>4, <2>5 DEF EnabledAdmins
  <2> QED BY <2>1, <2>6, AdminGoesOn
<1>3. ASSUME NEW a \in Admins, NEW u \in Users, NEW p \in Passwords, NEW b \in BOOLEAN,
             CreateUser(a, u, p, b)
      PROVE  AdminInv' /\ EnabledAdmins \subseteq EnabledAdmins'
  <2>1. row[u] = None /\ adm' = [adm EXCEPT ![a] = NoChange] /\ \A v \in Users : v # u => row'[v] = row[v]
    BY <1>1, <1>3 DEF CreateUser
  <2>2. EnabledAdmins \subseteq EnabledAdmins' /\ EnabledAdmins' \subseteq EnabledAdmins \cup {u}
    BY <2>1 DEF EnabledAdmins
  <2>3. \A x \in Admins : Takes(adm'[x]) => adm'[x] = adm[x] /\ adm[x].user # u
    BY <1>1, <2>1, NoChangeIs DEF Takes, IInv, ChangesSound, ChangeSound
  <2> QED BY <2>2, <2>3 DEF AdminInv, Takes
<1> QED BY <1>2, <1>3

\* The other steps of an administrator's request do not write.
LEMMA AdminRestStep ==
    ASSUME IInv, AdminInv, NEW a \in Admins,
           \/ \E r \in Requests : IdentifyBasic(a, r)
           \/ \E s \in Tokens, side \in Sides : IdentifySession(a, s, side)
           \/ AnswerAdmin(a)
    PROVE  AdminInv'
<1>1. row' = row /\ (adm' = [adm EXCEPT ![a] = NoChange]
                     \/ \E u : adm' = [adm EXCEPT ![a] = [NoChange EXCEPT !.pc = "identified", !.by = u]])
  BY DEF IdentifyBasic, IdentifySession, Identified, AnswerAdmin
<1>2. EnabledAdmins' = EnabledAdmins
  BY <1>1 DEF EnabledAdmins
<1>3. \A u : [NoChange EXCEPT !.pc = "identified", !.by = u].pc = "identified"
  BY DEF NoChange
<1>4. \A b \in Admins : adm'[b] = adm[b] \/ ~Takes(adm'[b])
  BY <1>1, <1>3, NoChangeIs DEF IInv, TypeOK, Takes
<1> QED BY <1>2, <1>4, AdminGoesOn DEF Harmless

\* Every step leaves another administrator beside each change that was not overtaken.
LEMMA AdminNext == AccountsAssumption /\ IInv /\ AdminInv /\ [Next]_vars => AdminInv'
<1> SUFFICES ASSUME AccountsAssumption, IInv, AdminInv, [Next]_vars PROVE AdminInv'
  OBVIOUS
<1>1. ASSUME UNCHANGED <<row, adm>> PROVE AdminInv'
  <2>1. EnabledAdmins' = EnabledAdmins
    BY <1>1 DEF EnabledAdmins
  <2> QED BY <1>1, <2>1, AdminGoesOn
<1>2. ASSUME NEW r \in Requests, Verify(r) PROVE AdminInv'
  BY <1>1, <1>2, AdminWriteStep DEF Verify, CacheHit, CacheMiss, ReadUser, CheckHash, Reread,
     StoreCache, AnswerBasic, NewSession
<1>3. ASSUME NEW a \in Admins, Administer(a) PROVE AdminInv'
  BY <1>3, AdminBeginStep, AdminCountStep, AdminClearStep, AdminUpdateStep, AdminWriteStep,
     AdminRestStep DEF Administer
<1>4. CASE CacheExpire \/ (\E s \in Tokens : EndSession(s)) \/ UNCHANGED vars
  BY <1>1, <1>4 DEF CacheExpire, EndSession, vars
<1> QED BY <1>2, <1>3, <1>4 DEF Next

\* The last administrator goes by a change that was overtaken.
AdminLost ==
    EnabledAdmins # {} /\ EnabledAdmins' = {} =>
        \E a \in Admins : adm[a].pc = "update" /\ adm[a].raced

\* An update that nothing has overtaken leaves the administrator that was counted beside it.
LEMMA UpdateLoses ==
    ASSUME IInv, AdminInv, NEW a \in Admins, UpdateUser(a) PROVE AdminLost
<1> DEFINE c == adm[a]
           u == c.user
           w == CASE c.op = "reset"   -> [row[u] EXCEPT !.pw = c.val, !.legacy = FALSE]
                  [] c.op = "enabled" -> [row[u] EXCEPT !.enabled = c.val]
                  [] c.op = "admin"   -> [row[u] EXCEPT !.admin = c.val]
<1>1. /\ c \in Changes /\ c.pc = "update" /\ row \in [Users -> Rows \cup {None}]
      /\ row' = [row EXCEPT ![u] = w]
  BY DEF IInv, TypeOK, UpdateUser
<1>2. u \in Users /\ ChangeSound(c, row[u])
  BY <1>1 DEF IInv, ChangesSound
<1>3. row[u] \in Rows
  BY <1>1, <1>2 DEF ChangeSound
<1>4. ~Takes(c) => (row[u].enabled => w.enabled) /\ (row[u].admin => w.admin) /\ w \in Rows
  <2>1. ASSUME c.op = "reset", c.val \in Passwords
        PROVE  w = [row[u] EXCEPT !.pw = c.val, !.legacy = FALSE]
    BY <2>1
  <2>2. ASSUME c.op = "enabled", c.val \in BOOLEAN PROVE w = [row[u] EXCEPT !.enabled = c.val]
    BY <2>2
  <2>3. ASSUME c.op = "admin", c.val \in BOOLEAN PROVE w = [row[u] EXCEPT !.admin = c.val]
    BY <2>3
  <2>4. \/ c.op = "reset" /\ c.val \in Passwords
        \/ c.op = "enabled" /\ c.val \in BOOLEAN
        \/ c.op = "admin" /\ c.val \in BOOLEAN
    BY <1>1, <1>2 DEF ChangeSound
  <2> HIDE DEF w
  <2>5. ASSUME c.op = "reset", c.val \in Passwords
        PROVE  w \in Rows /\ w.enabled = row[u].enabled /\ w.admin = row[u].admin
    BY <1>3, <2>1, <2>5 DEF Rows
  <2>6. ASSUME c.op = "enabled", c.val \in BOOLEAN
        PROVE  w \in Rows /\ w.enabled = c.val /\ w.admin = row[u].admin
    BY <1>3, <2>2, <2>6 DEF Rows
  <2>7. ASSUME c.op = "admin", c.val \in BOOLEAN
        PROVE  w \in Rows /\ w.enabled = row[u].enabled /\ w.admin = c.val
    BY <1>3, <2>3, <2>7 DEF Rows
  <2> QED BY <1>1, <2>4, <2>5, <2>6, <2>7 DEF Takes
<1> HIDE DEF w
<1>5. row'[u] = w /\ \A v \in Users : v # u => row'[v] = row[v]
  BY <1>1, <1>2
<1>6. \A v \in EnabledAdmins : v # u => v \in EnabledAdmins'
  BY <1>5 DEF EnabledAdmins
<1>7. ~Takes(c) /\ u \in EnabledAdmins => u \in EnabledAdmins'
  BY <1>2, <1>4, <1>5, NoneAssumption DEF EnabledAdmins
<1>8. ASSUME ~c.raced, NEW v \in EnabledAdmins PROVE EnabledAdmins' # {}
  <2>1. CASE u \notin EnabledAdmins \/ ~Takes(c)
    BY <1>6, <1>7, <1>8, <2>1
  <2>2. CASE u \in EnabledAdmins /\ Takes(c)
    <3>1. PICK x \in EnabledAdmins : x # u
      BY <1>8, <2>2 DEF AdminInv
    <3> QED BY <1>6, <3>1
  <2> QED BY <2>1, <2>2
<1> QED BY <1>1, <1>8 DEF AdminLost

\* However many changes run together, the last enabled administrator is taken away only by one
\* that another overtook between its count and its update (set_enabled, set_admin, update_user).
THEOREM AdminAlwaysLostByRace == Spec => AdminLostOnlyIfRaced
<1>1. AccountsAssumption
  BY AccountsAssumption
<1>2. Init => AdminInv
  BY DEF Init, NoChange, AdminInv, Takes
<1>3. IInv /\ AdminInv /\ [Next]_vars => AdminInv'
  BY <1>1, AdminNext
<1>4. IInv /\ AdminInv /\ [Next]_vars => [AdminLost]_vars
  <2> SUFFICES ASSUME IInv, AdminInv, [Next]_vars PROVE AdminLost
    OBVIOUS
  <2>1. ASSUME row' = row PROVE AdminLost
    BY <2>1 DEF AdminLost, EnabledAdmins
  <2>2. ASSUME EnabledAdmins \subseteq EnabledAdmins' PROVE AdminLost
    BY <2>2 DEF AdminLost
  <2>3. ASSUME NEW r \in Requests, Verify(r) PROVE AdminLost
    BY <2>1, <2>2, <2>3, AdminWriteStep DEF Verify, CacheHit, CacheMiss, ReadUser, CheckHash,
       Reread, StoreCache, AnswerBasic, NewSession
  <2>4. ASSUME NEW a \in Admins, Administer(a) PROVE AdminLost
    <3>1. ASSUME NEW u \in Users, NEW p \in Passwords, NEW b \in BOOLEAN, CreateUser(a, u, p, b)
          PROVE  AdminLost
      BY <2>2, <3>1, AdminWriteStep
    <3> QED BY <2>1, <2>4, <3>1, UpdateLoses DEF Administer, IdentifyBasic, IdentifySession,
               BeginReset, BeginSetEnabled, BeginSetAdmin, Begin, AnswerAdmin, CountAdmins, ClearCache
  <2>5. CASE CacheExpire \/ (\E s \in Tokens : EndSession(s)) \/ UNCHANGED vars
    BY <2>1, <2>5 DEF CacheExpire, EndSession, vars
  <2> QED BY <2>3, <2>4, <2>5 DEF Next
<1>5. ([][AdminLost]_vars) <=> AdminLostOnlyIfRaced
  BY DEF AdminLost, AdminLostOnlyIfRaced
<1> QED BY <1>2, <1>3, <1>4, <1>5, Invariant, PTL DEF Spec

=============================================================================
