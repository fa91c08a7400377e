------------------------------ MODULE Accounts ------------------------------
(***************************************************************************)
(* Accounts, passwords, the Basic-credential cache and browser sessions    *)
(* (auth.py over the users and sessions tables of database.py).            *)
(*                                                                         *)
(* AuthService runs on worker threads: a verification and an               *)
(* administrator's change are each several steps, separated by a slow      *)
(* Argon2 hash or by the end of one SQLite transaction and the start of    *)
(* the next, and any two of them may interleave there.                     *)
(*                                                                         *)
(* A request comes through the public or through a private origin          *)
(* (ingress.py); without split access every one counts as private.         *)
(*                                                                         *)
(* The history fields `raced`, and `pw` of a session, are read by          *)
(* properties only: a sign-in, or what was kept of it, is raced when it    *)
(* overlapped a change of its account, or when an overtaken rehash has     *)
(* since written over what it was verified against; a change is raced when *)
(* another has altered who the enabled administrators are since it read or *)
(* counted them.                                                           *)
(***************************************************************************)
EXTENDS Naturals, Sequences, FiniteSets

CONSTANTS
    Users,      \* usernames
    Passwords,  \* acceptable passwords
    Requests,   \* verifications that may be in flight together
    Admins,     \* administrator requests that may be in flight together
    Tokens,     \* session tokens
    Root,       \* the bootstrap administrator
    OldHashes,  \* whether stored hashes may predate the current parameters
    MaxCache,   \* entries of _basic_cache
    None        \* no row, no session, nothing decided

ASSUME AccountsAssumption ==
    /\ Root \in Users
    /\ OldHashes \in BOOLEAN
    /\ MaxCache \in Nat \ {0}
    /\ IsFiniteSet(Users)
    /\ None \notin Users \cup Passwords

VARIABLES
    row,       \* the users table
    cache,     \* _basic_cache, the least recently used credential first
    session,   \* the sessions table
    req,       \* each verification
    adm        \* each administrator request

vars == <<row, cache, session, req, adm>>

Rows == [pw : Passwords, legacy : BOOLEAN, enabled : BOOLEAN, admin : BOOLEAN]

CacheEntries ==
    [user : Users, pw : Passwords, snap : Rows, live : BOOLEAN, raced : BOOLEAN]

SessionRows == [user : Users, pw : Passwords, raced : BOOLEAN]

ASSUME NoneAssumption == None \notin Rows \cup SessionRows

\* Ingress.is_private: which front door a request came through.
Sides == {"public", "private"}

Verifications ==
    [pc : {"idle", "lookup", "hash", "rehash", "reread", "store", "accepted"},
     side : Sides \cup {None},
     user : Users \cup {None}, pw : Passwords \cup {None},
     snap : Rows \cup {None}, raced : BOOLEAN]

Changes ==
    [pc : {"idle", "identified", "count", "clear", "update"},
     op : {"none", "reset", "enabled", "admin"},
     by : Users \cup {None}, user : Users \cup {None}, val : BOOLEAN \cup Passwords,
     raced : BOOLEAN]

TypeOK ==
    /\ row \in [Users -> Rows \cup {None}]
    /\ cache \in Seq(CacheEntries) /\ Len(cache) <= MaxCache
    /\ session \in [Tokens -> SessionRows \cup {None}]
    /\ req \in [Requests -> Verifications]
    /\ adm \in [Admins -> Changes]

NoRequest == [pc |-> "idle", side |-> None, user |-> None, pw |-> None, snap |-> None, raced |-> FALSE]

NoChange == [pc |-> "idle", op |-> "none", by |-> None, user |-> None, val |-> FALSE,
             raced |-> FALSE]

\* bootstrap_admin has run, now or under an older release that hashed with other
\* parameters and also had readers: the first account is an enabled administrator.
Init ==
    /\ \E p \in Passwords, old \in SUBSET (Users \ {Root}) :
          /\ old # {} => OldHashes
          /\ row = [u \in Users |->
                IF u \in old \cup {Root}
                THEN [pw |-> p, legacy |-> OldHashes, enabled |-> TRUE, admin |-> u = Root]
                ELSE None]
    /\ cache = <<>>
    /\ session = [s \in Tokens |-> None]
    /\ req = [r \in Requests |-> NoRequest]
    /\ adm = [a \in Admins |-> NoChange]

-----------------------------------------------------------------------------
(***************************************************************************)
(* The credential cache: an OrderedDict under a lock, so each use is one   *)
(* step.                                                                   *)
(***************************************************************************)
CacheIndex(u, p) == {i \in 1..Len(cache) : cache[i].user = u /\ cache[i].pw = p}

\* A sequence without its i-th element.
Dropping(s, i) == [j \in 1..(Len(s) - 1) |-> s[IF j < i THEN j ELSE j + 1]]

CacheWithout(u, p) ==
    IF CacheIndex(u, p) = {} THEN cache
    ELSE Dropping(cache, CHOOSE i \in CacheIndex(u, p) : TRUE)

\* Mutant of CachePut: nothing is dropped.
CachePutUnbounded(e) == Append(CacheWithout(e.user, e.pw), e)

\* Insert at the end and drop the oldest entries past the limit.
CachePut(e) ==
    LET grown == Append(CacheWithout(e.user, e.pw), e) IN
    IF Len(grown) > MaxCache THEN Tail(grown) ELSE grown

\* Five minutes have passed since an entry was stored.
CacheExpire ==
    \E i \in 1..Len(cache) :
        /\ cache[i].live
        /\ cache' = [cache EXCEPT ![i].live = FALSE]
        /\ UNCHANGED <<row, session, req, adm>>

-----------------------------------------------------------------------------
(***************************************************************************)
(* Verifying a password.                                                   *)
(***************************************************************************)

Arrived(pc, side, u, p) == [NoRequest EXCEPT !.pc = pc, !.side = side, !.user = u, !.pw = p]

\* admits_account: administrators do not sign in through the public origin.
AdmitsAccount(side, admin) == admin => side = "private"

\* Mutant of CacheHit: whoever is remembered is let in, by either door.
CacheHitAnywhere(r, side, u, p) ==
    /\ req[r].pc = "idle"
    /\ \E i \in CacheIndex(u, p) :
          /\ cache[i].live
          /\ cache' = Append(CacheWithout(u, p), cache[i])
          /\ req' = [req EXCEPT ![r] = [Arrived("accepted", side, u, p) EXCEPT
                !.snap = cache[i].snap, !.raced = cache[i].raced]]
    /\ UNCHANGED <<row, session, adm>>

\* cached_user finds the credential and it is fresh: no Argon2 work, but for an
\* administrator at the public door, who pays for it and is refused.
CacheHit(r, side, u, p) ==
    /\ req[r].pc = "idle"
    /\ \E i \in CacheIndex(u, p) :
          /\ cache[i].live
          /\ cache' = Append(CacheWithout(u, p), cache[i])
          /\ req' = [req EXCEPT ![r] =
                IF AdmitsAccount(side, cache[i].snap.admin)
                THEN [Arrived("accepted", side, u, p) EXCEPT
                         !.snap = cache[i].snap, !.raced = cache[i].raced]
                ELSE Arrived("lookup", side, u, p)]
    /\ UNCHANGED <<row, session, adm>>

\* cached_user finds nothing, or an expired entry that it drops.
CacheMiss(r, side, u, p) ==
    /\ req[r].pc = "idle"
    /\ \A i \in CacheIndex(u, p) : ~cache[i].live
    /\ cache' = CacheWithout(u, p)
    /\ req' = [req EXCEPT ![r] = Arrived("lookup", side, u, p)]
    /\ UNCHANGED <<row, session, adm>>

\* user_by_username: the row as it is now; the hash of it is checked later.
ReadUser(r) ==
    /\ req[r].pc = "lookup"
    /\ req' = [req EXCEPT ![r].pc = "hash", ![r].snap = row[req[r].user]]
    /\ UNCHANGED <<row, cache, session, adm>>

\* Mutant of Valid: a hash with old parameters is replaced unchecked.
ValidUnlessLegacy(q) == q.snap # None /\ q.snap.enabled /\ (q.snap.legacy \/ q.snap.pw = q.pw)

\* An enabled account, whose password was given.
Valid(q) == q.snap # None /\ q.snap.enabled /\ q.snap.pw = q.pw

\* The hash is checked against the row that was read.
CheckHash(r) ==
    /\ req[r].pc = "hash"
    /\ \/ /\ ~Valid(req[r])
          /\ req' = [req EXCEPT ![r] = NoRequest]
       \/ /\ Valid(req[r])
          /\ req' = [req EXCEPT ![r].pc = IF req[r].snap.legacy THEN "rehash" ELSE "store"]
    /\ UNCHANGED <<row, cache, session, adm>>

DropSessions(u) ==
    session' = [s \in Tokens |->
        IF session[s] # None /\ session[s].user = u THEN None ELSE session[s]]

\* A verification that already read the row of u has now been overtaken.
Overtaken(u) ==
    [r \in Requests |->
        IF req[r].user = u /\ req[r].pc \notin {"idle", "lookup"}
        THEN [req[r] EXCEPT !.raced = TRUE]
        ELSE req[r]]

\* The hash has old parameters: the password just checked is hashed again and
\* written over whatever the row holds by now, which also ends the sessions, but
\* leaves the cache as it is.
Rehash(r) ==
    LET u == req[r].user
        fresh == [row[u] EXCEPT !.pw = req[r].pw, !.legacy = FALSE]
    IN
    /\ req[r].pc = "rehash"
    /\ row' = [row EXCEPT ![u] = fresh]
    /\ DropSessions(u)
    /\ req' = [Overtaken(u) EXCEPT
          ![r] = [req[r] EXCEPT !.pc = "reread", !.snap = fresh]]
    /\ cache' = [i \in 1..Len(cache) |->
          [cache[i] EXCEPT !.raced = @ \/ (req[r].raced /\ cache[i].user = u)]]
    /\ UNCHANGED adm

\* The row update_user returns is read after its transaction.
Reread(r) ==
    /\ req[r].pc = "reread"
    /\ req' = [req EXCEPT ![r].pc = "store", ![r].snap = row[req[r].user]]
    /\ UNCHANGED <<row, cache, session, adm>>

\* The verified user is remembered, and then let in or refused at this door.
StoreCache(r) ==
    LET q == req[r]
        pending == \E a \in Admins : adm[a].pc = "update" /\ adm[a].user = q.user
    IN
    /\ q.pc = "store"
    /\ cache' = CachePut([user |-> q.user, pw |-> q.pw, snap |-> q.snap,
                          live |-> TRUE, raced |-> q.raced \/ pending])
    /\ req' = [req EXCEPT ![r] =
          IF AdmitsAccount(q.side, q.snap.admin) THEN [q EXCEPT !.pc = "accepted"] ELSE NoRequest]
    /\ UNCHANGED <<row, session, adm>>

\* A Basic request is answered as the user it was verified to be.
AnswerBasic(r) ==
    /\ req[r].pc = "accepted"
    /\ req' = [req EXCEPT ![r] = NoRequest]
    /\ UNCHANGED <<row, cache, session, adm>>

\* A browser sign-in opens a session for the verified user.
NewSession(r, s) ==
    /\ req[r].pc = "accepted"
    /\ session[s] = None
    /\ session' = [session EXCEPT ![s] =
          [user |-> req[r].user, pw |-> req[r].pw, raced |-> req[r].raced]]
    /\ req' = [req EXCEPT ![r] = NoRequest]
    /\ UNCHANGED <<row, cache, adm>>

\* Sign-out, or the session's lifetime is over.
EndSession(s) ==
    /\ session[s] # None
    /\ session' = [session EXCEPT ![s] = None]
    /\ UNCHANGED <<row, cache, req, adm>>

-----------------------------------------------------------------------------
(***************************************************************************)
(* An administrator's change.                                              *)
(***************************************************************************)
EnabledAdmins == {u \in Users : row[u] # None /\ row[u].enabled /\ row[u].admin}

\* The request is known to come from u, an administrator when that was looked
\* at; it is not looked at again.
Identified(a, u) ==
    /\ adm[a].pc = "idle"
    /\ adm' = [adm EXCEPT ![a] = [NoChange EXCEPT !.pc = "identified", !.by = u]]

\* _ingress_refusal, administrator: its routes are not served through the public origin.
AdmitsRoute(side) == side = "private"

\* By a Basic credential: the role is the one that was verified or cached.
IdentifyBasic(a, r) ==
    /\ req[r].pc = "accepted" /\ AdmitsRoute(req[r].side)
    /\ req[r].snap.admin
    /\ Identified(a, req[r].user)
    /\ req' = [req EXCEPT ![r] = NoRequest]
    /\ UNCHANGED <<row, cache, session>>

\* By a session, opened at either door: the row is read with it.
IdentifySession(a, s, side) ==
    /\ session[s] # None /\ AdmitsRoute(side)
    /\ session[s].user \in EnabledAdmins
    /\ Identified(a, session[s].user)
    /\ UNCHANGED <<row, cache, session, req>>

\* The request may go on with operation `op` on account u: one PATCH resets the
\* password, then sets the state, then the role, of one account.
MayBegin(a, op, u) ==
    /\ adm[a].pc = "identified"
    /\ adm[a].user \in {None, u}
    /\ op # adm[a].op
    /\ op = "reset" => adm[a].op = "none"
    /\ op = "enabled" => adm[a].op # "admin"
    /\ row[u] # None

Begin(a, pc, op, u, val) ==
    /\ adm' = [adm EXCEPT ![a] = [@ EXCEPT
          !.pc = pc, !.op = op, !.user = u, !.val = val, !.raced = FALSE]]
    /\ UNCHANGED <<row, cache, session, req>>

\* create_user, whose insert is one statement; a name that is taken fails it.
CreateUser(a, u, p, isAdmin) ==
    /\ adm[a].pc = "identified"
    /\ adm[a].op = "none"
    /\ row[u] = None
    /\ row' = [row EXCEPT ![u] =
          [pw |-> p, legacy |-> FALSE, enabled |-> TRUE, admin |-> isAdmin]]
    /\ adm' = [adm EXCEPT ![a] = NoChange]
    /\ UNCHANGED <<cache, session, req>>

\* reset_password, until its hash is computed.
BeginReset(a, u, p) ==
    /\ MayBegin(a, "reset", u)
    /\ Begin(a, "clear", "reset", u, p)

\* set_enabled reads the user; disabling an administrator needs a count.  Nobody
\* disables their own account.
BeginSetEnabled(a, u, enabled) ==
    /\ MayBegin(a, "enabled", u)
    /\ ~enabled => adm[a].by # u
    /\ Begin(a, IF ~enabled /\ row[u].admin THEN "count" ELSE "clear", "enabled", u, enabled)

\* set_admin reads the user; making an enabled administrator a reader needs a
\* count.  Nobody gives up their own role.
BeginSetAdmin(a, u, isAdmin) ==
    /\ MayBegin(a, "admin", u)
    /\ ~isAdmin => adm[a].by # u
    /\ Begin(a, IF ~isAdmin /\ row[u].admin /\ row[u].enabled THEN "count" ELSE "clear",
             "admin", u, isAdmin)

\* The request is answered: all is done, or it asked for what is refused.
AnswerAdmin(a) ==
    /\ adm[a].pc = "identified"
    /\ adm' = [adm EXCEPT ![a] = NoChange]
    /\ UNCHANGED <<row, cache, session, req>>

\* Mutant of CountAdmins: off by one.
CountAdminsLoosely(a) ==
    /\ adm[a].pc = "count"
    /\ \/ /\ Cardinality(EnabledAdmins) < 1
          /\ adm' = [adm EXCEPT ![a] = NoChange]
       \/ /\ Cardinality(EnabledAdmins) >= 1
          /\ adm' = [adm EXCEPT ![a].pc = "clear"]
    /\ UNCHANGED <<row, cache, session, req>>

\* enabled_admin_count: the last administrator is kept.
CountAdmins(a) ==
    /\ adm[a].pc = "count"
    /\ \/ /\ Cardinality(EnabledAdmins) <= 1
          /\ adm' = [adm EXCEPT ![a] = NoChange]
       \/ /\ Cardinality(EnabledAdmins) > 1
          /\ adm' = [adm EXCEPT ![a].pc = "clear"]
    /\ UNCHANGED <<row, cache, session, req>>

\* Mutant of ClearCache: only the account's password changes clear it.
ClearCacheOnReset(a) ==
    /\ adm[a].pc = "clear"
    /\ cache' = IF adm[a].op = "reset" THEN <<>> ELSE cache
    /\ adm' = [adm EXCEPT ![a].pc = "update"]
    /\ UNCHANGED <<row, session, req>>

\* _clear_basic_cache
ClearCache(a) ==
    /\ adm[a].pc = "clear"
    /\ cache' = <<>>
    /\ adm' = [adm EXCEPT ![a].pc = "update"]
    /\ UNCHANGED <<row, session, req>>

\* Whoever has read or counted, and has still to update, is overtaken by a change of
\* who the enabled administrators are.
OvertakenChanges ==
    [b \in Admins |->
        IF adm[b].pc \in {"clear", "update"} /\ EnabledAdmins' # EnabledAdmins
        THEN [adm[b] EXCEPT !.raced = TRUE]
        ELSE adm[b]]

\* update_user: one transaction, which ends the account's sessions when the
\* password changes or the account is disabled.
UpdateUser(a) ==
    LET c == adm[a]
        u == c.user
    IN
    /\ c.pc = "update"
    /\ row' = [row EXCEPT ![u] =
          CASE c.op = "reset"   -> [@ EXCEPT !.pw = c.val, !.legacy = FALSE]
            [] c.op = "enabled" -> [@ EXCEPT !.enabled = c.val]
            [] c.op = "admin"   -> [@ EXCEPT !.admin = c.val]]
    /\ \/ /\ c.op = "reset" \/ (c.op = "enabled" /\ ~c.val)
          /\ DropSessions(u)
       \/ /\ ~(c.op = "reset" \/ (c.op = "enabled" /\ ~c.val))
          /\ UNCHANGED session
    /\ req' = Overtaken(u)
    /\ adm' = [OvertakenChanges EXCEPT
          ![a] = [c EXCEPT !.pc = "identified", !.val = FALSE, !.raced = FALSE]]
    /\ UNCHANGED cache

Verify(r) ==
    \/ \E side \in Sides, u \in Users, p \in Passwords : CacheHit(r, side, u, p) \/ CacheMiss(r, side, u, p)
    \/ ReadUser(r)
    \/ CheckHash(r)
    \/ Rehash(r)
    \/ Reread(r)
    \/ StoreCache(r)
    \/ AnswerBasic(r)
    \/ \E s \in Tokens : NewSession(r, s)

Administer(a) ==
    \/ \E r \in Requests : IdentifyBasic(a, r)
    \/ \E s \in Tokens, side \in Sides : IdentifySession(a, s, side)
    \/ \E u \in Users, p \in Passwords :
          BeginReset(a, u, p) \/ \E b \in BOOLEAN : CreateUser(a, u, p, b)
    \/ \E u \in Users, b \in BOOLEAN : BeginSetEnabled(a, u, b) \/ BeginSetAdmin(a, u, b)
    \/ AnswerAdmin(a)
    \/ CountAdmins(a)
    \/ ClearCache(a)
    \/ UpdateUser(a)

Next ==
    \/ CacheExpire
    \/ \E r \in Requests : Verify(r)
    \/ \E a \in Admins : Administer(a)
    \/ \E s \in Tokens : EndSession(s)

Spec == Init /\ [][Next]_vars

-----------------------------------------------------------------------------
(***************************************************************************)
(* Properties.                                                             *)
(***************************************************************************)

\* Somebody can always administer: "The final enabled administrator cannot be
\* disabled", nor made a reader (set_enabled, set_admin).
AdminRemains == EnabledAdmins # {}

\* What the count does achieve: the last enabled administrator is taken away only by a
\* change that was overtaken, between its count, or its reading of the account, and its
\* update, by another that altered who the enabled administrators are (set_enabled,
\* set_admin).
AdminLostOnlyIfRaced ==
    [][EnabledAdmins # {} /\ EnabledAdmins' = {} =>
          \E a \in Admins : adm[a].pc = "update" /\ adm[a].raced]_vars

Agrees(snap, u) ==
    /\ row[u] # None
    /\ snap.enabled = row[u].enabled
    /\ snap.admin = row[u].admin

\* A cached credential is the account as it is now -- role, state and password --
\* and a session belongs to an enabled account and was opened with its present
\* password, unless the sign-in overlapped a change of the account, or another
\* that did has rehashed its old password over the account since: the clear in
\* every change, and the sessions update_user ends, are enough for all the
\* others, whenever they were stored.
StaleOnlyIfRaced ==
    /\ \A i \in 1..Len(cache) :
          LET e == cache[i] IN
          ~e.raced => Agrees(e.snap, e.user) /\ e.pw = row[e.user].pw
    /\ \A s \in Tokens :
          session[s] # None /\ ~session[s].raced =>
              LET u == session[s].user IN row[u].enabled /\ session[s].pw = row[u].pw

\* A password changes by a reset alone: a sign-in that hashes an old password again
\* leaves it as it is, unless a change of the account fell between its reading of the
\* row and its writing (verify); then it may undo a reset.
PasswordsKept ==
    [][\A u \in Users : row[u] # None /\ row'[u].pw # row[u].pw =>
          \/ \E a \in Admins : adm[a].pc = "update" /\ adm[a].op = "reset" /\ adm[a].user = u
          \/ \E r \in Requests : req[r].pc = "rehash" /\ req[r].user = u /\ req[r].raced]_vars

\* "Administrator accounts never sign in through the public origin": whoever is let in there is
\* no administrator, also when the credential was remembered from a private sign-in or from
\* before a promotion, unless the sign-in overlapped the promotion (verify_password).
PublicIsForReaders ==
    \A r \in Requests :
        req[r].pc = "accepted" /\ req[r].side = "public" /\ ~req[r].raced => ~row[req[r].user].admin
=============================================================================
