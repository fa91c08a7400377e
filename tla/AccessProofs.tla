---------------------------- MODULE AccessProofs ----------------------------
(***************************************************************************)
(* What readers are shown, what tokens permit and what the trail explains, *)
(* for any number of users, libraries, series, tokens, administrators and  *)
(* agents, and any bound on the trail.                                     *)
(***************************************************************************)
EXTENDS Access, FiniteSetTheorems, SequenceTheorems, NaturalsInduction, TLAPS

Fields == {"scopes", "libs", "active"}

\* A grant of a whole library names no series (AccessService.replace writes no other).
GrantsShaped == \A u \in Users : \A g \in grants[u] : g.cat = None => g.series = None

\* A note for the trail is about the request's token, and is permission history.
NotesOK(r) == \A i \in 1..Len(r.todo) : r.todo[i].token = r.token /\ r.todo[i].severity = "security"

\* A request knows what it is about; a token stays once it is there.
RequestOK(r, row) ==
    /\ r.pc \in {"user", "validate", "write"} => r.user \in Users
    /\ r.pc = "delete" => r.lib \in Libraries
    /\ r.pc \in {"create", "before", "update", "after", "revoke"} => r.token \in Tokens
    /\ r.pc \in {"idle", "user", "validate", "write", "delete", "purge"} => r.token = None
    /\ r.token # None /\ r.pc # "create" => row[r.token] # None
    /\ r.pc = "create" => row[r.token] = None
    /\ r.pc \in {"update", "after"} => r.before \in TokenRow
    /\ r.pc = "record" => r.todo # <<>> /\ NotesOK(r)

\* Only the request that creates a token holds it until it is there.
AdminOK(a) ==
    /\ RequestOK(adm[a], token)
    /\ adm[a].pc = "create" => \A b \in Admins \ {a} : adm[b].token # adm[a].token

AdminsOK == \A a \in Admins : AdminOK(a)

\* A request of the agent that no change of its token overtook works with the token as it is.
AgentOK(g) ==
    agent[g].pc # "idle" =>
        /\ agent[g].token \in Tokens /\ agent[g].row \in TokenRow
        /\ agent[g].want \in Scopes /\ agent[g].lib \in Libraries
        /\ ~agent[g].stale => token[agent[g].token] = agent[g].row /\ agent[g].row.active
        /\ agent[g].pc \in {"do", "record"} => agent[g].want \in agent[g].row.scopes

AgentsOK == \A g \in Agents : AgentOK(g)

\* Only permission history speaks of what a token may do: trimming and purging lose nothing of it.
UsageIsSilent == \A i \in Usage(trail) : \A f \in Fields : trail[i][f] = None

Clean(t) == t \notin crossed \cup cut

\* A request that changed a token owes the trail what it has not recorded yet.
Owing(a) == adm[a].pc \in {"after", "record"}

Tells(q, f, v) == \E i \in 1..Len(q) : q[i][f] = v

DebtOK(a, t) ==
    adm[a].token = t /\ Clean(t) =>
        /\ adm[a].pc = "update" => adm[a].before = token[t]
        /\ Owing(a) => \A b \in Admins \ {a} : adm[b].token = t => ~Owing(b)
        /\ adm[a].pc = "after" =>
              /\ adm[a].before.active = token[t].active
              /\ \A f \in Fields : Said(t, f) = adm[a].before[f]
        /\ adm[a].pc = "record" => \A f \in Fields :
              /\ \A i \in 1..Len(adm[a].todo) : adm[a].todo[i][f] \in {None, token[t][f]}
              /\ \/ Said(t, f) = token[t][f]
                 \/ Tells(adm[a].todo, f, token[t][f])

DebtsOK == \A a \in Admins, t \in Tokens : DebtOK(a, t)

\* What nobody owes is explained.
Unowed(t) == token[t] # None /\ Clean(t) /\ \A a \in Admins : adm[a].token = t => ~Owing(a)

Explained(t) == Unowed(t) => \A f \in Fields : Said(t, f) = token[t][f]

AllExplained == \A t \in Tokens : Explained(t)

\* The inductive invariant.
IInv ==
    /\ TypeOK
    /\ GrantsShaped /\ GrantsAsAsked
    /\ AdminsOK /\ AgentsOK
    /\ UsageIsSilent /\ DebtsOK /\ AllExplained
-----------------------------------------------------------------------------
(***************************************************************************)
(* Grants.                                                                 *)
(***************************************************************************)
\* What a normalised request covers is what was asked for, and its grants are well formed.
LEMMA NormalizeGood ==
    ASSUME NEW sel \in SUBSET Grants
    PROVE  /\ Normalize(sel) \subseteq Grants
           /\ \A g \in Normalize(sel) : g.cat = None => g.series = None
           /\ \A g \in Normalize(sel) : \E h \in sel : g.lib = h.lib
           /\ \A s \in Series : (\E g \in Normalize(sel) : Covers(g, s)) <=> (\E g \in sel : Covers(g, s))
<1> DEFINE libraryWide == {g.lib : g \in {h \in sel : h.cat = None}}
           categoryWide == {<<g.lib, g.cat>> : g \in {h \in sel : h.cat # None /\ h.series = None}}
           OfLibrary(l) == [lib |-> l, cat |-> None, series |-> None]
           OfCategory(p) == [lib |-> p[1], cat |-> p[2], series |-> None]
           Narrow == {g \in sel : g.lib \notin libraryWide /\ <<g.lib, g.cat>> \notin categoryWide}
<1>1. Normalize(sel) = Narrow \cup {OfLibrary(l) : l \in libraryWide}
                       \cup {OfCategory(p) : p \in {q \in categoryWide : q[1] \notin libraryWide}}
  BY DEF Normalize
<1>2. ASSUME NEW g \in Normalize(sel)
      PROVE  \/ g \in Narrow
             \/ \E h \in sel : h.cat = None /\ g = OfLibrary(h.lib)
             \/ \E h \in sel : h.cat # None /\ h.series = None /\ g = OfCategory(<<h.lib, h.cat>>)
  BY <1>1, <1>2
<1>3. ASSUME NEW h \in sel, h.cat = None PROVE OfLibrary(h.lib) \in Normalize(sel)
  BY <1>1, <1>3
<1>4. ASSUME NEW h \in sel, h.cat # None, h.series = None, h.lib \notin libraryWide
      PROVE  OfCategory(<<h.lib, h.cat>>) \in Normalize(sel)
  <2>1. <<h.lib, h.cat>> \in {q \in categoryWide : q[1] \notin libraryWide}
    BY <1>4
  <2> HIDE DEF categoryWide, libraryWide
  <2> QED BY <1>1, <2>1
<1>5. ASSUME NEW h \in sel, h.lib \in libraryWide PROVE \E k \in sel : k.cat = None /\ k.lib = h.lib
  BY <1>5
<1>6. ASSUME NEW h \in sel, <<h.lib, h.cat>> \in categoryWide
      PROVE  \E k \in sel : k.cat # None /\ k.series = None /\ k.lib = h.lib /\ k.cat = h.cat
  BY <1>6
<1>7. ASSUME NEW h \in sel, h.lib \notin libraryWide PROVE h.cat # None
  BY <1>7
<1>8. ASSUME NEW h \in sel
      PROVE  /\ h.lib \in Libraries /\ h.cat \in Categories \cup {None}
             /\ OfLibrary(h.lib) \in Grants /\ OfCategory(<<h.lib, h.cat>>) \in Grants
  BY DEF Grants
<1>9. \A g \in Normalize(sel) : g \in Grants /\ (g.cat = None => g.series = None) /\ \E h \in sel : g.lib = h.lib
  <2> SUFFICES ASSUME NEW g \in Normalize(sel)
               PROVE  g \in Grants /\ (g.cat = None => g.series = None) /\ \E h \in sel : g.lib = h.lib
    OBVIOUS
  <2>1. CASE g \in Narrow
    BY <1>7, <2>1
  <2>2. CASE \E h \in sel : h.cat = None /\ g = OfLibrary(h.lib)
    BY <1>8, <2>2
  <2>3. CASE \E h \in sel : h.cat # None /\ h.series = None /\ g = OfCategory(<<h.lib, h.cat>>)
    <3>1. PICK h \in sel : h.cat # None /\ h.series = None /\ g = OfCategory(<<h.lib, h.cat>>)
      BY <2>3
    <3>2. g = [lib |-> h.lib, cat |-> h.cat, series |-> None]
      BY <3>1
    <3>3. g \in Grants
      BY <1>8, <3>1
    <3>4. g.cat # None
      BY <3>1, <3>2
    <3>5. g.lib = h.lib
      BY <3>2
    <3> QED BY <3>3, <3>4, <3>5
  <2> QED BY <1>2, <2>1, <2>2, <2>3
<1>10. ASSUME NEW s \in Series, NEW g \in Normalize(sel), Covers(g, s) PROVE \E h \in sel : Covers(h, s)
  <2>1. CASE g \in Narrow
    BY <1>10, <2>1
  <2>2. CASE \E h \in sel : h.cat = None /\ g = OfLibrary(h.lib)
    BY <1>10, <2>2 DEF Covers
  <2>3. CASE \E h \in sel : h.cat # None /\ h.series = None /\ g = OfCategory(<<h.lib, h.cat>>)
    BY <1>10, <2>3 DEF Covers
  <2> QED BY <1>2, <2>1, <2>2, <2>3
<1>11. ASSUME NEW s \in Series, NEW h \in sel, Covers(h, s) PROVE \E g \in Normalize(sel) : Covers(g, s)
  <2>1. CASE h.lib \in libraryWide
    <3>1. PICK k \in sel : k.cat = None /\ k.lib = h.lib
      BY <1>5, <2>1
    <3>2. Covers(OfLibrary(k.lib), s)
      BY <1>11, <3>1 DEF Covers
    <3> QED BY <1>3, <3>1, <3>2
  <2>2. CASE h.lib \notin libraryWide /\ <<h.lib, h.cat>> \in categoryWide
    <3>1. PICK k \in sel : k.cat # None /\ k.series = None /\ k.lib = h.lib /\ k.cat = h.cat
      BY <1>6, <2>2
    <3>2. Covers(OfCategory(<<k.lib, k.cat>>), s)
      BY <1>11, <3>1 DEF Covers
    <3>3. OfCategory(<<k.lib, k.cat>>) \in Normalize(sel)
      BY <1>4, <2>2, <3>1
    <3> QED BY <3>2, <3>3
  <2>3. CASE h.lib \notin libraryWide /\ <<h.lib, h.cat>> \notin categoryWide
    <3>1. h \in Normalize(sel)
      BY <1>1, <2>3
    <3> QED BY <1>11, <3>1
  <2> QED BY <2>1, <2>2, <2>3
<1> QED BY <1>9, <1>10, <1>11

ReadersType ==
    /\ user \in [Users -> [enabled : BOOLEAN, admin : BOOLEAN]]
    /\ grants \in [Users -> SUBSET Grants]
    /\ managed \subseteq Libraries /\ online \subseteq Libraries
    /\ indexed \subseteq Series /\ private \subseteq Series
    /\ asked \in [Users -> SUBSET Grants] /\ raced \subseteq Libraries

\* A request for grants means the series it names, and the whole library if it says no more.
Means(sel, s) == \E g \in sel : GrantMatches(g, s) \/ (g.cat = None /\ g.lib = LibraryOf[s])

LEMMA CoversWhatIsMeant ==
    ASSUME NEW sel \in SUBSET Grants, NEW s \in Series
    PROVE  (\E g \in Normalize(sel) : Covers(g, s)) <=> Means(sel, s)
<1>1. \A g \in sel : Covers(g, s) <=> GrantMatches(g, s) \/ (g.cat = None /\ g.lib = LibraryOf[s])
  BY DEF Covers, GrantMatches
<1> QED BY <1>1, NormalizeGood DEF Means

ReadersGood == ReadersType /\ GrantsShaped /\ GrantsAsAsked

LEMMA ReadersSame == ASSUME ReadersGood, UNCHANGED readers PROVE ReadersGood'
BY DEF ReadersGood, ReadersType, GrantsShaped, GrantsAsAsked, readers

LEMMA GrantsReplaced ==
    ASSUME IInv, ReadersGood, NEW a \in Admins, ReplaceGrants(a) PROVE ReadersGood'
<1> DEFINE u == adm[a].user
           sel == adm[a].sel
<1>1. u \in Users /\ sel \in SUBSET Grants
  BY DEF IInv, AdminsOK, AdminOK, RequestOK, TypeOK, AdminRequests, ReplaceGrants
<1>2. /\ grants' = [grants EXCEPT ![u] = Normalize(sel)]
      /\ asked' = [asked EXCEPT ![u] = sel]
      /\ raced' = raced \cup ({g.lib : g \in sel} \ managed)
      /\ UNCHANGED <<user, managed, online, indexed, private>>
  BY DEF ReplaceGrants
<1> HIDE DEF u, sel
<1>3. /\ Normalize(sel) \subseteq Grants
      /\ \A g \in Normalize(sel) : g.cat = None => g.series = None
      /\ \A g \in Normalize(sel) : \E h \in sel : g.lib = h.lib
      /\ \A s \in Series : (\E g \in Normalize(sel) : Covers(g, s)) <=> Means(sel, s)
  BY <1>1, NormalizeGood, CoversWhatIsMeant
<1>4. ReadersType'
  <2>1. {g.lib : g \in sel} \subseteq Libraries
    BY <1>1 DEF Grants
  <2> QED BY <1>1, <1>2, <1>3, <2>1 DEF ReadersGood, ReadersType
<1>5. \A v \in Users : v # u => grants'[v] = grants[v] /\ asked'[v] = asked[v]
  BY <1>2 DEF ReadersGood, ReadersType
<1>6. grants'[u] = Normalize(sel) /\ asked'[u] = sel
  BY <1>1, <1>2 DEF ReadersGood, ReadersType
<1>7. GrantsShaped'
  BY <1>3, <1>5, <1>6 DEF ReadersGood, GrantsShaped
<1>8. ASSUME NEW v \in Users, NEW s \in Series
      PROVE  (\E g \in grants'[v] : Covers(g, s)) <=> Means(asked'[v], s)
  BY <1>3, <1>5, <1>6 DEF ReadersGood, GrantsAsAsked, Means
<1>9. ASSUME NEW v \in Users, NEW g \in grants'[v] PROVE g.lib \in managed' \cup raced'
  <2>1. CASE v = u
    <3>1. PICK h \in sel : g.lib = h.lib
      BY <1>3, <1>6, <1>9, <2>1
    <3>2. h.lib \in {k.lib : k \in sel}
      BY <3>1
    <3> QED BY <1>2, <3>1, <3>2
  <2>2. CASE v # u
    BY <1>2, <1>5, <1>9, <2>2 DEF ReadersGood, GrantsAsAsked
  <2> QED BY <2>1, <2>2
<1> QED BY <1>4, <1>7, <1>8, <1>9 DEF ReadersGood, GrantsAsAsked, Means

LEMMA LibraryGone ==
    ASSUME IInv, ReadersGood, NEW a \in Admins, RemoveLibrary(a) PROVE ReadersGood'
<1> DEFINE l == adm[a].lib
<1>1. /\ managed' = managed \ {l} /\ raced' = raced \ {l} /\ indexed' = {s \in indexed : LibraryOf[s] # l}
      /\ grants' = [u \in Users |-> {g \in grants[u] : g.lib # l}]
      /\ asked' = [u \in Users |-> {g \in asked[u] : g.lib # l}]
      /\ UNCHANGED <<user, online, private>>
  BY DEF RemoveLibrary, GrantsWithout
<1> HIDE DEF l
<1>2. ReadersType'
  BY <1>1 DEF ReadersGood, ReadersType
<1>3. GrantsShaped'
  BY <1>1 DEF ReadersGood, GrantsShaped
<1>4. ASSUME NEW u \in Users
      PROVE  /\ \A s \in Series : (\E g \in grants'[u] : Covers(g, s)) <=> Means(asked'[u], s)
             /\ \A g \in grants'[u] : g.lib \in managed' \cup raced'
  <2>1. /\ \A s \in Series : (\E g \in grants[u] : Covers(g, s)) <=> Means(asked[u], s)
        /\ \A g \in grants[u] : g.lib \in managed \cup raced
    BY DEF ReadersGood, GrantsAsAsked, Means
  <2>2. /\ grants'[u] = {g \in grants[u] : g.lib # l}
        /\ asked'[u] = {g \in asked[u] : g.lib # l}
    BY <1>1
  <2>3. \A s \in Series : (\E g \in grants'[u] : Covers(g, s)) <=>
                         (LibraryOf[s] # l /\ \E g \in grants[u] : Covers(g, s))
    BY <2>2 DEF Covers
  <2>4. \A s \in Series : Means(asked'[u], s) <=> (LibraryOf[s] # l /\ Means(asked[u], s))
    BY <2>2 DEF Means, GrantMatches
  <2> QED BY <1>1, <2>1, <2>2, <2>3, <2>4
<1> QED BY <1>2, <1>3, <1>4 DEF ReadersGood, GrantsAsAsked, Means

LEMMA ReadersStep == ASSUME IInv, Next PROVE ReadersGood'
<1>0. ReadersGood
  BY DEF IInv, TypeOK, ReadersGood, ReadersType
<1>1. ASSUME NEW a \in Admins, AdminNext(a) PROVE ReadersGood'
  <2>1. CASE ReplaceGrants(a)
    BY <1>0, <2>1, GrantsReplaced
  <2>2. CASE RemoveLibrary(a)
    BY <1>0, <2>2, LibraryGone
  <2>3. CASE ~ReplaceGrants(a) /\ ~RemoveLibrary(a)
    <3>1. UNCHANGED readers
      BY <1>1, <2>3 DEF AdminNext, AskAccess, ReadUser, ValidateGrants, AskRemove, AskIssue, AskRescope,
           AskRevoke, CreateToken, ReadBefore, UpdateToken, ReadAfter, RevokeToken, AskPurge, Record,
           PurgeTrail, Begin, TokenStep
    <3> QED BY <1>0, <3>1, ReadersSame
  <2> QED BY <2>1, <2>2, <2>3
<1>2. CASE (\E g \in Agents : AgentNext(g)) \/ Restart
  <2>1. UNCHANGED readers
    BY <1>2 DEF AgentNext, Verify, RequireScope, ResolveTitle, ReadInventory, ListLibraries, SearchMetadata,
         StageUpload, CommitUpload, DiscardUpload, ReadPending, RecordUse, AgentStep, Does, Restart
  <2> QED BY <1>0, <2>1, ReadersSame
<1>3. ASSUME NEW u \in Users, NEW enabled \in BOOLEAN, NEW admin \in BOOLEAN, SetUser(u, enabled, admin)
      PROVE  ReadersGood'
  BY <1>0, <1>3 DEF SetUser, ReadersGood, ReadersType, GrantsShaped, GrantsAsAsked
<1>4. ASSUME NEW l \in Libraries, AddLibrary(l) \/ Connect(l) PROVE ReadersGood'
  BY <1>0, <1>4 DEF AddLibrary, Connect, ReadersGood, ReadersType, GrantsShaped, GrantsAsAsked
<1>5. ASSUME NEW s \in Series, Index(s) \/ SetPrivate(s) PROVE ReadersGood'
  BY <1>0, <1>5 DEF Index, SetPrivate, ReadersGood, ReadersType, GrantsShaped, GrantsAsAsked
<1> QED BY <1>1, <1>2, <1>3, <1>4, <1>5 DEF Next
-----------------------------------------------------------------------------
(***************************************************************************)
(* The trail.                                                              *)
(***************************************************************************)
\* A set of numbers has a least one.
LEMMA LeastNumber ==
    ASSUME NEW T \in SUBSET Nat, T # {}
    PROVE  \E n \in T : \A m \in T : n <= m
<1> DEFINE R == {ss \in Nat \X Nat : ss[1] < ss[2]}
<1>1. IsWellFoundedOn(R, Nat)
  BY NatLessThanWellFounded DEF OpToRel
<1>2. PICK n \in T : \A m \in T : ~ <<m, n>> \in R
  <2> HIDE DEF R
  <2> QED BY <1>1, WFMin
<1>3. ASSUME NEW m \in T, ~ (n <= m) PROVE FALSE
  <2>1. m \in Nat /\ n \in Nat /\ m < n
    BY <1>3
  <2>2. <<m, n>> \in R
    BY <2>1
  <2> QED BY <1>2, <2>2
<1> QED BY <1>3

\* ... and, below a bound, a greatest one.
LEMMA LatestIn ==
    ASSUME NEW n \in Nat, NEW T \in SUBSET (1..n), T # {}
    PROVE  Latest(T) \in T /\ \A k \in T : k <= Latest(T)
<1> DEFINE D == {d \in Nat : \E i \in T : d = n - i}
<1>1. D # {}
  <2>1. PICK i \in T : i \in 1..n
    OBVIOUS
  <2>2. n - i \in Nat
    BY <2>1
  <2> QED BY <2>1, <2>2
<1>2. PICK d \in D : \A m \in D : d <= m
  <2>1. D \in SUBSET Nat
    OBVIOUS
  <2> HIDE DEF D
  <2> QED BY <1>1, <2>1, LeastNumber
<1>3. PICK i \in T : d = n - i
  OBVIOUS
<1>4. ASSUME NEW k \in T PROVE k <= i
  <2>1. k \in 1..n /\ i \in 1..n /\ n - k \in Nat
    OBVIOUS
  <2>2. d <= n - k
    BY <1>2, <2>1
  <2> QED BY <1>3, <2>1, <2>2
<1>5. \E m \in T : \A k \in T : k <= m
  BY <1>4
<1> QED BY <1>5 DEF Latest

AboutIn(tr, t, f) == {i \in DOMAIN tr : tr[i].token = t /\ tr[i][f] # None}

SaidIn(tr, t, f) == IF AboutIn(tr, t, f) = {} THEN None ELSE tr[Latest(AboutIn(tr, t, f))][f]

Silent(tr) == \A i \in Usage(tr) : \A f \in Fields : tr[i][f] = None

\* Without entries of usage a trail says the same.
LEMMA DroppedSays ==
    ASSUME NEW n \in Nat, NEW tr, DOMAIN tr \subseteq 1..n, Silent(tr),
           NEW gone \in SUBSET Usage(tr), NEW t, NEW f \in Fields
    PROVE  SaidIn(Without(tr, gone), t, f) = SaidIn(tr, t, f)
<1> DEFINE about == AboutIn(tr, t, f)
<1>1. \A i \in about : i \in DOMAIN tr \ gone
  BY DEF AboutIn, Silent
<1>2. /\ DOMAIN Without(tr, gone) = DOMAIN tr \ gone
      /\ \A i \in DOMAIN tr \ gone : Without(tr, gone)[i] = tr[i]
  BY DEF Without
<1>3. AboutIn(Without(tr, gone), t, f) = about
  BY <1>1, <1>2 DEF AboutIn
<1>4. CASE about = {}
  BY <1>3, <1>4 DEF SaidIn
<1>5. CASE about # {}
  <2>1. about \in SUBSET (1..n)
    BY DEF AboutIn
  <2>2. Latest(about) \in about
    <3> HIDE DEF about
    <3> QED BY <1>5, <2>1, LatestIn
  <2>3. Without(tr, gone)[Latest(about)] = tr[Latest(about)]
    BY <1>1, <1>2, <2>2
  <2> QED BY <1>3, <1>5, <2>3 DEF SaidIn
<1> QED BY <1>4, <1>5

Extended(tr, n, e) == [i \in DOMAIN tr \cup {n} |-> IF i = n THEN e ELSE tr[i]]

\* A new entry is the last word about what it speaks of.
LEMMA ExtendedSays ==
    ASSUME NEW n \in Nat, NEW tr, DOMAIN tr \subseteq 1..n, NEW e, NEW t, NEW f
    PROVE  SaidIn(Extended(tr, n + 1, e), t, f) =
               IF e.token = t /\ e[f] # None THEN e[f] ELSE SaidIn(tr, t, f)
<1> DEFINE ext == Extended(tr, n + 1, e)
           about == AboutIn(tr, t, f)
           now == AboutIn(ext, t, f)
<1>1. /\ DOMAIN ext = DOMAIN tr \cup {n + 1} /\ ext[n + 1] = e
      /\ \A i \in DOMAIN tr : i # n + 1 /\ ext[i] = tr[i]
  BY DEF Extended
<1> HIDE DEF ext
<1>2. now \in SUBSET (1..(n + 1)) /\ about \in SUBSET (1..n)
  BY <1>1 DEF AboutIn
<1>3. CASE e.token = t /\ e[f] # None
  <2>1. n + 1 \in now
    BY <1>1, <1>3 DEF AboutIn
  <2>2. Latest(now) \in now /\ \A k \in now : k <= Latest(now)
    <3> HIDE DEF now
    <3>1. n + 1 \in Nat
      OBVIOUS
    <3> QED BY <1>2, <2>1, <3>1, LatestIn
  <2>3. Latest(now) = n + 1
    BY <1>2, <2>1, <2>2
  <2> QED BY <1>1, <1>3, <2>1, <2>3 DEF SaidIn, ext
<1>4. CASE ~(e.token = t /\ e[f] # None)
  <2>1. now = about
    BY <1>1, <1>4 DEF AboutIn
  <2>2. CASE about = {}
    BY <1>4, <2>1, <2>2 DEF SaidIn, ext
  <2>3. CASE about # {}
    <3>1. Latest(about) \in about
      <4> HIDE DEF about
      <4> QED BY <1>2, <2>3, LatestIn
    <3>2. ext[Latest(about)] = tr[Latest(about)]
      BY <1>1, <3>1 DEF AboutIn
    <3> QED BY <1>4, <2>1, <2>3, <3>2 DEF SaidIn, ext
  <2> QED BY <2>2, <2>3
<1> QED BY <1>3, <1>4

LogType ==
    /\ clock \in Nat /\ DOMAIN trail \subseteq 1..clock /\ trail \in [DOMAIN trail -> Event]
    /\ Cardinality(Usage(trail)) <= TrailBound

LogGood == LogType /\ UsageIsSilent

SaysTheSame == \A t \in Tokens, f \in Fields : Said(t, f)' = Said(t, f)

LEMMA SaidIsIn == ASSUME NEW t, NEW f PROVE Said(t, f) = SaidIn(trail, t, f)
BY DEF Said, SaidIn, AboutIn

LEMMA SaidIsIn2 == ASSUME NEW t, NEW f PROVE Said(t, f)' = SaidIn(trail', t, f)
BY DEF Said, SaidIn, AboutIn

LEMMA LogSame == ASSUME LogGood, UNCHANGED log PROVE LogGood' /\ SaysTheSame
<1>1. LogGood'
  BY DEF LogGood, LogType, UsageIsSilent, Usage, log
<1>2. SaysTheSame
  BY SaidIsIn, SaidIsIn2 DEF SaysTheSame, log
<1> QED BY <1>1, <1>2

\* What becomes of the entries of usage when some go.
LEMMA UsageOfRest ==
    ASSUME NEW tr, NEW gone
    PROVE  Usage(Without(tr, gone)) = Usage(tr) \ gone
BY DEF Usage, Without

LEMMA TypeOfRest ==
    ASSUME NEW tr, NEW gone, tr \in [DOMAIN tr -> Event], Silent(tr)
    PROVE  /\ DOMAIN Without(tr, gone) \subseteq DOMAIN tr
           /\ Without(tr, gone) \in [DOMAIN Without(tr, gone) -> Event]
           /\ Silent(Without(tr, gone))
BY DEF Usage, Without, Silent

LEMMA UsageIsFinite ==
    ASSUME NEW n \in Nat, NEW tr, DOMAIN tr \subseteq 1..n
    PROVE  IsFiniteSet(Usage(tr))
<1>1. IsFiniteSet(1..n)
  BY FS_Interval
<1>2. Usage(tr) \subseteq 1..n
  BY DEF Usage
<1> QED BY <1>1, <1>2, FS_Subset

LEMMA PurgeGood ==
    ASSUME LogGood, NEW n, trail' = Without(trail, {i \in Usage(trail) : i <= n}), clock' = clock
    PROVE  LogGood' /\ SaysTheSame
<1> DEFINE gone == {i \in Usage(trail) : i <= n}
<1>0. clock \in Nat /\ DOMAIN trail \subseteq 1..clock /\ trail \in [DOMAIN trail -> Event] /\ Silent(trail)
      /\ Cardinality(Usage(trail)) <= TrailBound /\ TrailBound \in Nat
  BY AccessAssumption DEF LogGood, LogType, UsageIsSilent, Silent
<1>1. gone \in SUBSET Usage(trail)
  OBVIOUS
<1> HIDE DEF gone
<1>2. trail' = Without(trail, gone)
  BY DEF gone
<1>3. Usage(trail)' \subseteq Usage(trail) /\ DOMAIN trail' \subseteq 1..clock
      /\ trail' \in [DOMAIN trail' -> Event] /\ Silent(trail')
  <2>1. Usage(trail)' = Usage(trail')
    BY DEF Usage
  <2>2. Usage(trail)' \subseteq Usage(trail)
    BY <1>2, <2>1, UsageOfRest
  <2> QED BY <1>0, <1>2, <2>2, TypeOfRest
<1>4. Cardinality(Usage(trail)') <= TrailBound
  <2>1. IsFiniteSet(Usage(trail))
    BY <1>0, UsageIsFinite
  <2>2. Cardinality(Usage(trail)') <= Cardinality(Usage(trail)) /\ Cardinality(Usage(trail)') \in Nat
        /\ Cardinality(Usage(trail)) \in Nat
    BY <1>3, <2>1, FS_Subset, FS_CardinalityType
  <2> QED BY <1>0, <2>2
<1>5. SaysTheSame
  <2> SUFFICES ASSUME NEW t \in Tokens, NEW f \in Fields PROVE Said(t, f)' = Said(t, f)
    BY DEF SaysTheSame
  <2>1. SaidIn(Without(trail, gone), t, f) = SaidIn(trail, t, f)
    BY <1>0, <1>1, DroppedSays
  <2> QED BY <1>2, <2>1, SaidIsIn, SaidIsIn2
<1> QED BY <1>0, <1>3, <1>4, <1>5 DEF LogGood, LogType, UsageIsSilent, Silent, Usage

\* The oldest entries of usage go when there is one too many, and at least one goes.
LEMMA TrimmedBound ==
    ASSUME NEW n \in Nat, NEW tr, DOMAIN tr \subseteq 1..n, Cardinality(Usage(tr)) <= TrailBound + 1
    PROVE  Cardinality(Usage(Trimmed(tr))) <= TrailBound
<1> DEFINE U == Usage(tr)
<1>0. TrailBound \in Nat /\ TrimBatch \in Nat \ {0}
  BY AccessAssumption
<1>1. IsFiniteSet(U) /\ U \in SUBSET Nat /\ Cardinality(U) \in Nat
  <2>1. IsFiniteSet(U)
    BY UsageIsFinite
  <2>2. U \subseteq 1..n
    BY DEF Usage
  <2> QED BY <2>1, <2>2, FS_CardinalityType
<1>2. CASE Cardinality(U) <= TrailBound
  BY <1>2 DEF Trimmed
<1>3. CASE ~(Cardinality(U) <= TrailBound)
  <2> HIDE DEF U
  <2>1. U # {}
    BY <1>0, <1>1, <1>3, FS_EmptySet
  <2>2. PICK m \in U : \A k \in U : m <= k
    BY <1>1, <2>1, LeastNumber
  <2>3. {j \in U : j <= m} = {m}
    <3>1. ASSUME NEW j \in U PROVE j <= m <=> j = m
      <4>1. j \in Nat /\ m \in Nat /\ m <= j
        BY <1>1, <2>2
      <4> QED BY <4>1
    <3> QED BY <2>2, <3>1
  <2>4. Cardinality({m}) = 1
    BY FS_Singleton
  <2>5. m \in Oldest(tr)
    BY <1>0, <2>2, <2>3, <2>4 DEF Oldest, U
  <2>6. Usage(Trimmed(tr)) \subseteq U \ {m}
    <3>1. Trimmed(tr) = Without(tr, Oldest(tr))
      BY <1>3 DEF Trimmed, U
    <3>2. Usage(Trimmed(tr)) = U \ Oldest(tr)
      BY <3>1, UsageOfRest DEF U
    <3> QED BY <2>5, <3>2
  <2>7. IsFiniteSet(U \ {m}) /\ Cardinality(U \ {m}) = Cardinality(U) - 1
    BY <1>1, <2>2, FS_RemoveElement
  <2>8. /\ Cardinality(Usage(Trimmed(tr))) <= Cardinality(U \ {m})
        /\ Cardinality(Usage(Trimmed(tr))) \in Nat
    BY <2>6, <2>7, FS_Subset, FS_CardinalityType
  <2>9. Cardinality(U) <= TrailBound + 1
    BY DEF U
  <2> QED BY <1>0, <1>1, <2>7, <2>8, <2>9
<1> QED BY <1>2, <1>3

LEMMA RecordedGood ==
    ASSUME LogGood, NEW e \in Event, e.severity = "usage" => \A f \in Fields : e[f] = None, Recorded(e)
    PROVE  /\ LogGood'
           /\ \A t \in Tokens, f \in Fields :
                  Said(t, f)' = IF e.token = t /\ e[f] # None THEN e[f] ELSE Said(t, f)
<1> DEFINE tr == Extended(trail, clock + 1, e)
<1>0. clock \in Nat /\ DOMAIN trail \subseteq 1..clock /\ trail \in [DOMAIN trail -> Event] /\ Silent(trail)
      /\ Cardinality(Usage(trail)) <= TrailBound /\ TrailBound \in Nat
  BY AccessAssumption DEF LogGood, LogType, UsageIsSilent, Silent
<1>1. clock' = clock + 1 /\ trail' = Trimmed(tr)
  BY DEF Recorded, Extended
<1>2. /\ DOMAIN tr = DOMAIN trail \cup {clock + 1} /\ DOMAIN tr \subseteq 1..(clock + 1)
      /\ \A i \in DOMAIN tr : tr[i] = IF i = clock + 1 THEN e ELSE trail[i]
      /\ tr \in [DOMAIN tr -> Event]
  BY <1>0 DEF Extended
<1>3. Silent(tr)
  BY <1>0, <1>2 DEF Silent, Usage
<1>4. Cardinality(Usage(tr)) <= TrailBound + 1
  <2>1. IsFiniteSet(Usage(trail)) /\ Cardinality(Usage(trail)) \in Nat
    BY <1>0, UsageIsFinite, FS_CardinalityType
  <2>2. Usage(tr) \subseteq Usage(trail) \cup {clock + 1}
    BY <1>2 DEF Usage
  <2>3. clock + 1 \notin Usage(trail)
    BY <1>0 DEF Usage
  <2>4. /\ IsFiniteSet(Usage(trail) \cup {clock + 1})
        /\ Cardinality(Usage(trail) \cup {clock + 1}) = Cardinality(Usage(trail)) + 1
    BY <2>1, <2>3, FS_AddElement
  <2>5. /\ Cardinality(Usage(tr)) <= Cardinality(Usage(trail) \cup {clock + 1})
        /\ Cardinality(Usage(tr)) \in Nat
    BY <2>2, <2>4, FS_Subset, FS_CardinalityType
  <2> QED BY <1>0, <2>1, <2>4, <2>5
<1> HIDE DEF tr
<1>5. Cardinality(Usage(trail')) <= TrailBound
  BY <1>0, <1>1, <1>2, <1>4, TrimmedBound
<1>6. PICK gone \in SUBSET Usage(tr) : trail' = Without(tr, gone)
  <2>1. CASE Trimmed(tr) = Without(tr, Oldest(tr))
    BY <1>1, <2>1 DEF Oldest
  <2>2. CASE Trimmed(tr) = tr
    <3>1. Without(tr, {}) = tr
      BY <1>2 DEF Without
    <3> QED BY <1>1, <2>2, <3>1
  <2>3. Trimmed(tr) = tr \/ Trimmed(tr) = Without(tr, Oldest(tr))
    BY DEF Trimmed
  <2> QED BY <2>1, <2>2, <2>3
<1>7. /\ DOMAIN trail' \subseteq 1..(clock + 1) /\ trail' \in [DOMAIN trail' -> Event] /\ Silent(trail')
  BY <1>2, <1>3, <1>6, TypeOfRest
<1>8. LogGood'
  BY <1>0, <1>1, <1>5, <1>7 DEF LogGood, LogType, UsageIsSilent, Silent, Usage
<1>9. ASSUME NEW t \in Tokens, NEW f \in Fields
      PROVE  Said(t, f)' = IF e.token = t /\ e[f] # None THEN e[f] ELSE Said(t, f)
  <2>1. SaidIn(trail', t, f) = SaidIn(tr, t, f)
    <3>1. clock + 1 \in Nat
      BY <1>0
    <3> QED BY <1>2, <1>3, <1>6, <3>1, DroppedSays
  <2>2. SaidIn(tr, t, f) = IF e.token = t /\ e[f] # None THEN e[f] ELSE SaidIn(trail, t, f)
    BY <1>0, ExtendedSays DEF tr
  <2> QED BY <2>1, <2>2, SaidIsIn, SaidIsIn2
<1> QED BY <1>8, <1>9
-----------------------------------------------------------------------------
(***************************************************************************)
(* Tokens, and what is owed to the trail.                                  *)
(***************************************************************************)
LibrarianGood ==
    /\ token \in [Tokens -> TokenRow \cup {None}]
    /\ adm \in [Admins -> AdminRequests] /\ agent \in [Agents -> AgentRequests]
    /\ crossed \subseteq Tokens /\ cut \subseteq Tokens
    /\ LogGood /\ AdminsOK /\ AgentsOK /\ DebtsOK /\ AllExplained

LEMMA LibrarianNow == ASSUME IInv PROVE LibrarianGood
BY DEF IInv, TypeOK, LibrarianGood, LogGood, LogType

\* A request moves on, or begins, or ends, and the others stand where they stood.
LEMMA AdminsMoved ==
    ASSUME LibrarianGood, NEW a \in Admins, NEW r \in AdminRequests, adm' = [adm EXCEPT ![a] = r],
           RequestOK(r, token'),
           \A t \in Tokens : token[t] # None => token'[t] # None,
           \A t \in Tokens : token[t] = None /\ token'[t] # None => adm[a].token = t,
           r.pc = "create" => \A b \in Admins \ {a} : adm[b].token # r.token,
           \/ r.token \in {adm[a].token, None}
           \/ token[r.token] # None
           \/ \A b \in Admins : adm[b].token # r.token
    PROVE  adm' \in [Admins -> AdminRequests] /\ AdminsOK'
<1>0. adm \in [Admins -> AdminRequests] /\ AdminsOK
      /\ adm'[a] = r /\ \A b \in Admins \ {a} : adm'[b] = adm[b]
  BY DEF LibrarianGood
<1>1. AdminOK(a)'
  BY <1>0 DEF AdminOK
<1>2. ASSUME NEW b \in Admins \ {a} PROVE AdminOK(b)'
  <2>1. AdminOK(b) /\ adm'[b] = adm[b]
    BY <1>0 DEF AdminsOK
  <2>2. adm[b].token \in Tokens \cup {None}
    BY <1>0 DEF AdminRequests
  <2>3. CASE adm[b].pc = "create"
    <3>1. /\ adm[b].token \in Tokens /\ token[adm[b].token] = None
          /\ \A c \in Admins \ {b} : adm[c].token # adm[b].token
      BY <2>1, <2>3 DEF AdminOK, RequestOK
    <3>2. token'[adm[b].token] = None
      BY <3>1
    <3>3. r.token # adm[b].token
      BY <2>3, <3>1, AccessAssumption
    <3> QED BY <1>0, <2>1, <2>3, <3>1, <3>2, <3>3 DEF AdminOK, RequestOK
  <2>4. CASE adm[b].pc # "create"
    <3>1. adm[b].token # None => token'[adm[b].token] # None
      BY <2>1, <2>2, <2>4 DEF AdminOK, RequestOK
    <3> QED BY <2>1, <2>4, <3>1 DEF AdminOK, RequestOK
  <2> QED BY <2>3, <2>4
<1> QED BY <1>0, <1>1, <1>2 DEF AdminsOK

Owes(r) == r.pc \in {"after", "record"}

\* A step that changes no token and says nothing new.
LEMMA Moved ==
    ASSUME LibrarianGood, NEW a \in Admins, NEW r \in AdminRequests, adm' = [adm EXCEPT ![a] = r],
           UNCHANGED <<token, agent, crossed, cut>>, LogGood', SaysTheSame,
           RequestOK(r, token),
           r.pc = "create" => \A b \in Admins \ {a} : adm[b].token # r.token,
           \/ r.token \in {adm[a].token, None}
           \/ token[r.token] # None
           \/ \A b \in Admins : adm[b].token # r.token,
           \A t \in Tokens : DebtOK(a, t)',
           Owes(r) => (r.token = None /\ ~Owing(a)) \/ (Owing(a) /\ r.token = adm[a].token),
           \A t \in Tokens : adm[a].token = t /\ Clean(t) /\ Owing(a) /\ ~Owes(r)
                                => \A f \in Fields : Said(t, f) = token[t][f]
    PROVE  LibrarianGood'
<1>0. /\ adm \in [Admins -> AdminRequests] /\ adm'[a] = r
      /\ \A b \in Admins \ {a} : adm'[b] = adm[b]
  BY DEF LibrarianGood
<1>1. adm' \in [Admins -> AdminRequests] /\ AdminsOK'
  BY AdminsMoved
<1>2. AgentsOK'
  BY DEF LibrarianGood, AgentsOK, AgentOK
<1>3. ASSUME NEW b \in Admins \ {a}, NEW t \in Tokens PROVE DebtOK(b, t)'
  <2>1. DebtOK(b, t) /\ adm'[b] = adm[b] /\ \A f \in Fields : Said(t, f)' = Said(t, f)
    BY <1>0 DEF LibrarianGood, DebtsOK, SaysTheSame
  <2>2. ASSUME adm[b].token = t, Clean(t), Owing(b), NEW c \in Admins \ {b}, adm'[c].token = t
        PROVE  ~Owing(c)'
    <3>1. \A d \in Admins \ {b} : adm[d].token = t => ~Owing(d)
      BY <2>1, <2>2 DEF DebtOK
    <3>2. CASE c = a
      BY <1>0, <2>2, <3>1, <3>2, AccessAssumption DEF Owes, Owing
    <3>3. CASE c # a
      BY <1>0, <2>2, <3>1, <3>3 DEF Owing
    <3> QED BY <3>2, <3>3
  <2>3. Clean(t)' = Clean(t) /\ Owing(b)' = Owing(b)
    BY <2>1 DEF Clean, Owing
  <2> QED BY <2>1, <2>2, <2>3 DEF DebtOK
<1>4. ASSUME NEW t \in Tokens, Unowed(t)' PROVE \A f \in Fields : Said(t, f)' = token'[t][f]
  <2>1. token[t] # None /\ Clean(t) /\ \A b \in Admins : adm'[b].token = t => ~Owing(b)'
    BY <1>4 DEF Unowed, Clean
  <2>2. \A f \in Fields : Said(t, f)' = Said(t, f)
    BY DEF SaysTheSame
  <2>3. CASE adm[a].token = t /\ Owing(a)
    <3>1. ~Owes(r)
      BY <1>0, <2>1, <2>3 DEF Owes, Owing
    <3> QED BY <2>1, <2>2, <2>3, <3>1
  <2>4. CASE ~(adm[a].token = t /\ Owing(a))
    <3>1. \A b \in Admins \ {a} : adm[b].token = t => ~Owing(b)
      BY <1>0, <2>1 DEF Owing
    <3>2. Unowed(t)
      BY <2>1, <2>4, <3>1 DEF Unowed
    <3> QED BY <2>2, <3>2 DEF LibrarianGood, AllExplained, Explained
  <2> QED BY <2>3, <2>4
<1> QED BY <1>1, <1>2, <1>3, <1>4 DEF LibrarianGood, DebtsOK, AllExplained, Explained

\* A token's row is written, and the request owes the trail what it changed: nobody else has
\* the token in hand, or it is crossed.
LEMMA Touched ==
    ASSUME LibrarianGood, NEW a \in Admins, NEW t \in Tokens, NEW row \in TokenRow, NEW r \in AdminRequests,
           adm' = [adm EXCEPT ![a] = r], Touch(a, t, row), UNCHANGED <<log, cut>>,
           adm[a].token = t, r.token = t, Owes(r), RequestOK(r, token'),
           (Clean(t) /\ \A b \in Admins \ {a} : adm[b].token # t) =>
               /\ r.pc = "after" => r.before.active = row.active /\ \A f \in Fields : Said(t, f) = r.before[f]
               /\ r.pc = "record" => \A f \in Fields :
                     /\ \A i \in 1..Len(r.todo) : r.todo[i][f] \in {None, row[f]}
                     /\ Said(t, f) = row[f] \/ Tells(r.todo, f, row[f])
    PROVE  LibrarianGood'
<1>0. /\ token' = [token EXCEPT ![t] = row]
      /\ crossed' = crossed \cup {x \in {t} : \E b \in Admins \ {a} : adm[b].token = t}
      /\ agent' = [g \in Agents |-> [agent[g] EXCEPT !.stale = agent[g].stale \/ agent[g].token = t]]
      /\ cut' = cut
  BY DEF Touch
<1>1. /\ adm \in [Admins -> AdminRequests] /\ adm'[a] = r
      /\ \A b \in Admins \ {a} : adm'[b] = adm[b]
      /\ token \in [Tokens -> TokenRow \cup {None}] /\ agent \in [Agents -> AgentRequests]
      /\ token'[t] = row /\ \A u \in Tokens \ {t} : token'[u] = token[u]
  BY <1>0 DEF LibrarianGood
<1>2. token' \in [Tokens -> TokenRow \cup {None}] /\ crossed' \subseteq Tokens /\ cut' \subseteq Tokens
  BY <1>0, <1>1 DEF LibrarianGood
<1>3. row # None
  BY AccessAssumption DEF TokenRow
<1>4. adm' \in [Admins -> AdminRequests] /\ AdminsOK'
  BY <1>1, <1>3, AdminsMoved DEF Owes
<1>5. ASSUME NEW g \in Agents PROVE agent'[g] \in AgentRequests /\ AgentOK(g)'
  <2>1. agent[g] \in AgentRequests /\ AgentOK(g)
    BY <1>1 DEF LibrarianGood, AgentsOK
  <2>2. agent'[g] = [agent[g] EXCEPT !.stale = agent[g].stale \/ agent[g].token = t]
    BY <1>0
  <2>3. (agent[g].stale \/ agent[g].token = t) \in BOOLEAN
    BY <2>1 DEF AgentRequests
  <2>4. agent'[g] \in AgentRequests
    BY <2>1, <2>2, <2>3 DEF AgentRequests
  <2>5. /\ agent'[g].pc = agent[g].pc /\ agent'[g].token = agent[g].token /\ agent'[g].row = agent[g].row
        /\ agent'[g].want = agent[g].want /\ agent'[g].lib = agent[g].lib
        /\ ~agent'[g].stale => ~agent[g].stale /\ agent[g].token # t
    BY <2>1, <2>2 DEF AgentRequests
  <2>6. agent[g].pc # "idle" /\ ~agent'[g].stale => token'[agent[g].token] = token[agent[g].token]
    BY <1>1, <2>1, <2>5 DEF AgentOK
  <2> QED BY <2>1, <2>4, <2>5, <2>6 DEF AgentOK
<1>6. agent' \in [Agents -> AgentRequests] /\ AgentsOK'
  BY <1>0, <1>5 DEF AgentsOK
<1>7. LogGood' /\ SaysTheSame
  BY LogSame DEF LibrarianGood
<1>8. \A u \in Tokens : Clean(u)' => Clean(u) /\ (u = t => \A b \in Admins \ {a} : adm[b].token # t)
  BY <1>0 DEF Clean
<1>9. ASSUME NEW b \in Admins, NEW u \in Tokens, u # t PROVE DebtOK(b, u)'
  <2>1. CASE b = a
    BY <1>1, <1>9, <2>1 DEF DebtOK
  <2>2. CASE b # a
    <3>1. DebtOK(b, u) /\ adm'[b] = adm[b] /\ token'[u] = token[u] /\ \A f \in Fields : Said(u, f)' = Said(u, f)
      BY <1>1, <1>7, <1>9, <2>2 DEF LibrarianGood, DebtsOK, SaysTheSame
    <3>2. ASSUME adm[b].token = u, Clean(u), Owing(b), NEW c \in Admins \ {b}, adm'[c].token = u
          PROVE  ~Owing(c)'
      <4>1. c # a
        BY <1>1, <1>9, <3>2
      <4> QED BY <1>1, <3>1, <3>2, <4>1 DEF DebtOK, Owing
    <3>3. Owing(b)' = Owing(b)
      BY <3>1 DEF Owing
    <3> QED BY <1>8, <3>1, <3>2, <3>3 DEF DebtOK
  <2> QED BY <2>1, <2>2
<1>10. ASSUME NEW b \in Admins PROVE DebtOK(b, t)'
  <2>1. CASE b = a
    <3> SUFFICES ASSUME Clean(t)'
                 PROVE  DebtOK(a, t)'
      BY <2>1 DEF DebtOK
    <3>1. Clean(t) /\ \A c \in Admins \ {a} : adm[c].token # t
      BY <1>8
    <3>2. \A f \in Fields : Said(t, f)' = Said(t, f)
      BY <1>7 DEF SaysTheSame
    <3>3. \A c \in Admins \ {a} : adm'[c].token # t
      BY <1>1, <3>1
    <3> QED BY <1>1, <3>1, <3>2, <3>3 DEF DebtOK, Owes
  <2>2. CASE b # a
    BY <1>1, <1>8, <2>2 DEF DebtOK
  <2> QED BY <2>1, <2>2
<1>11. ASSUME NEW u \in Tokens, Unowed(u)' PROVE \A f \in Fields : Said(u, f)' = token'[u][f]
  <2>1. u # t
    BY <1>1, <1>11 DEF Unowed, Owes, Owing
  <2>2. Unowed(u)
    <3>1. token[u] # None /\ Clean(u) /\ \A b \in Admins \ {a} : adm[b].token = u => ~Owing(b)
      BY <1>1, <1>8, <1>11, <2>1 DEF Unowed, Owing
    <3> QED BY <2>1, <3>1 DEF Unowed
  <2> QED BY <1>1, <1>7, <2>1, <2>2 DEF LibrarianGood, AllExplained, Explained, SaysTheSame
<1> QED BY <1>2, <1>4, <1>6, <1>7, <1>9, <1>10, <1>11 DEF LibrarianGood, DebtsOK, AllExplained, Explained

\* What an entry says, spelled out.
LEMMA PlainEntry ==
    ASSUME NEW t \in Tokens \cup {None}, NEW sv \in {"security", "usage"}
    PROVE  /\ Entry(t, sv) \in Event /\ Entry(t, sv).token = t /\ Entry(t, sv).severity = sv
           /\ \A f \in Fields : Entry(t, sv)[f] = None
BY DEF Entry, Event, Fields

Said3(e, t, sc, li, ac) ==
    /\ e \in Event /\ e.token = t /\ e.severity = "security"
    /\ e.scopes = sc /\ e.libs = li /\ e.active = ac

LEMMA FullEntry ==
    ASSUME NEW t \in Tokens \cup {None}, NEW sc \in SUBSET Scopes, NEW li \in SUBSET Libraries, NEW ac \in BOOLEAN
    PROVE  Said3([Entry(t, "security") EXCEPT !.scopes = sc, !.libs = li, !.active = ac], t, sc, li, ac)
BY DEF Entry, Event, Said3

LEMMA ScopesEntry ==
    ASSUME NEW t \in Tokens \cup {None}, NEW sc \in SUBSET Scopes
    PROVE  Said3([Entry(t, "security") EXCEPT !.scopes = sc], t, sc, None, None)
BY DEF Entry, Event, Said3

LEMMA LibsEntry ==
    ASSUME NEW t \in Tokens \cup {None}, NEW li \in SUBSET Libraries
    PROVE  Said3([Entry(t, "security") EXCEPT !.libs = li], t, None, li, None)
BY DEF Entry, Event, Said3

LEMMA ActiveEntry ==
    ASSUME NEW t \in Tokens \cup {None}, NEW ac \in BOOLEAN
    PROVE  Said3([Entry(t, "security") EXCEPT !.active = ac], t, None, None, ac)
BY DEF Entry, Event, Said3

\* The notes that an update leaves tell every difference, and nothing else.
Notes(q, t, row) ==
    /\ q \in Seq(Event)
    /\ \A i \in 1..Len(q) :
          /\ q[i].token = t /\ q[i].severity = "security"
          /\ \A f \in Fields : q[i][f] \in {None, row[f]}

LEMMA NotesJoined ==
    ASSUME NEW t, NEW row, NEW q1, NEW q2, Notes(q1, t, row), Notes(q2, t, row)
    PROVE  /\ Notes(q1 \o q2, t, row)
           /\ \A f, v : Tells(q1, f, v) \/ Tells(q2, f, v) => Tells(q1 \o q2, f, v)
<1>0. q1 \in Seq(Event) /\ q2 \in Seq(Event) /\ Len(q1) \in Nat /\ Len(q2) \in Nat
  BY DEF Notes
<1>1. /\ q1 \o q2 \in Seq(Event) /\ Len(q1 \o q2) = Len(q1) + Len(q2)
      /\ \A i \in 1..Len(q1) + Len(q2) : (q1 \o q2)[i] = IF i <= Len(q1) THEN q1[i] ELSE q2[i - Len(q1)]
  BY <1>0, ConcatProperties
<1> DEFINE q == q1 \o q2
<1> HIDE DEF q
<1>2. /\ q \in Seq(Event) /\ Len(q) = Len(q1) + Len(q2)
      /\ \A i \in 1..Len(q) : q[i] = IF i <= Len(q1) THEN q1[i] ELSE q2[i - Len(q1)]
  BY <1>1 DEF q
<1>3. ASSUME NEW i \in 1..Len(q)
      PROVE  (i \in 1..Len(q1) /\ q[i] = q1[i]) \/ (i - Len(q1) \in 1..Len(q2) /\ q[i] = q2[i - Len(q1)])
  BY <1>0, <1>2
<1>4. Notes(q, t, row)
  <2>1. ASSUME NEW i \in 1..Len(q)
        PROVE  q[i].token = t /\ q[i].severity = "security" /\ \A f \in Fields : q[i][f] \in {None, row[f]}
    <3>1. CASE i \in 1..Len(q1) /\ q[i] = q1[i]
      BY <3>1 DEF Notes
    <3>2. CASE i - Len(q1) \in 1..Len(q2) /\ q[i] = q2[i - Len(q1)]
      BY <3>2 DEF Notes
    <3> QED BY <1>3, <3>1, <3>2
  <2> QED BY <1>2, <2>1 DEF Notes
<1>5. ASSUME NEW f, NEW v, Tells(q1, f, v) PROVE Tells(q, f, v)
  <2>1. PICK i \in 1..Len(q1) : q1[i][f] = v
    BY <1>5 DEF Tells
  <2>2. i \in 1..Len(q) /\ q[i] = q1[i]
    BY <1>0, <1>2
  <2> QED BY <2>1, <2>2 DEF Tells
<1>6. ASSUME NEW f, NEW v, Tells(q2, f, v) PROVE Tells(q, f, v)
  <2>1. PICK i \in 1..Len(q2) : q2[i][f] = v
    BY <1>6 DEF Tells
  <2>2. i + Len(q1) \in 1..Len(q) /\ ~(i + Len(q1) <= Len(q1)) /\ (i + Len(q1)) - Len(q1) = i
    BY <1>0, <1>2
  <2>3. q[i + Len(q1)] = q2[i]
    BY <1>2, <2>2
  <2> QED BY <2>1, <2>2, <2>3 DEF Tells
<1> QED BY <1>4, <1>5, <1>6 DEF q

\* One note about a token.
LEMMA OneNote ==
    ASSUME NEW e, NEW t \in Tokens, NEW row \in TokenRow,
           e \in Event, e.token = t, e.severity = "security", \A f \in Fields : e[f] \in {None, row[f]}
    PROVE  /\ Notes(<<e>>, t, row) /\ <<e>> # <<>>
           /\ \A f \in Fields : e[f] = row[f] => Tells(<<e>>, f, row[f])
BY DEF Notes, Tells

LEMMA ChangesGood ==
    ASSUME NEW t \in Tokens, NEW before \in TokenRow, NEW after \in TokenRow
    PROVE  /\ Notes(Changes(t, before, after), t, after)
           /\ \A f \in {"scopes", "libs"} :
                  before[f] = after[f] \/ Tells(Changes(t, before, after), f, after[f])
<1> DEFINE es == [Entry(t, "security") EXCEPT !.scopes = after.scopes]
           el == [Entry(t, "security") EXCEPT !.libs = after.libs]
           qs == IF before.scopes # after.scopes THEN <<es>> ELSE <<>>
           ql == IF before.libs # after.libs THEN <<el>> ELSE <<>>
<1>1. after.scopes \in SUBSET Scopes /\ after.libs \in SUBSET Libraries
  BY DEF TokenRow
<1>2. Said3(es, t, after.scopes, None, None) /\ Said3(el, t, None, after.libs, None)
  BY <1>1, ScopesEntry, LibsEntry
<1>3. Changes(t, before, after) = qs \o ql
  BY DEF Changes, ChangesOfScopes
<1> HIDE DEF es, el
<1>4. Notes(<<>>, t, after)
  BY DEF Notes
<1>5. /\ Notes(<<es>>, t, after) /\ Tells(<<es>>, "scopes", after.scopes)
      /\ Notes(<<el>>, t, after) /\ Tells(<<el>>, "libs", after.libs)
  <2>1. /\ \A f \in Fields : es[f] \in {None, after[f]} /\ el[f] \in {None, after[f]}
        /\ "scopes" \in Fields /\ "libs" \in Fields
    BY <1>2 DEF Fields, Said3
  <2> QED BY <1>2, <2>1, OneNote DEF Said3
<1>6. Notes(qs, t, after) /\ Notes(ql, t, after)
      /\ (before.scopes = after.scopes \/ Tells(qs, "scopes", after.scopes))
      /\ (before.libs = after.libs \/ Tells(ql, "libs", after.libs))
  BY <1>4, <1>5
<1> HIDE DEF qs, ql
<1>7. /\ Notes(qs \o ql, t, after)
      /\ before.scopes = after.scopes \/ Tells(qs \o ql, "scopes", after.scopes)
      /\ before.libs = after.libs \/ Tells(qs \o ql, "libs", after.libs)
  BY <1>6, NotesJoined
<1> QED BY <1>3, <1>7

Fresh(pc, op, u, sel, l, t, sc, libs) ==
    [pc |-> pc, op |-> op, user |-> u, sel |-> sel, lib |-> l, token |-> t,
     scopes |-> sc, libs |-> libs, before |-> None, todo |-> <<>>]

LEMMA FreshGood ==
    ASSUME NEW pc \in {"idle", "user", "delete", "create", "before", "revoke", "purge"},
           NEW op \in {None, "access", "remove", "issue", "rescope", "revoke", "purge"},
           NEW u \in Users \cup {None}, NEW sel \in SUBSET Grants, NEW l \in Libraries \cup {None},
           NEW t \in Tokens \cup {None}, NEW sc \in SUBSET Scopes, NEW libs \in SUBSET Libraries
    PROVE  /\ Fresh(pc, op, u, sel, l, t, sc, libs) \in AdminRequests
           /\ Fresh(pc, op, u, sel, l, t, sc, libs).pc = pc
           /\ Fresh(pc, op, u, sel, l, t, sc, libs).user = u
           /\ Fresh(pc, op, u, sel, l, t, sc, libs).lib = l
           /\ Fresh(pc, op, u, sel, l, t, sc, libs).token = t
<1>1. <<>> \in Seq(Event)
  OBVIOUS
<1> QED BY <1>1 DEF Fresh, AdminRequests

LEMMA FreshAccess ==
    ASSUME NEW u, NEW sel, NEW x, x = [NoAdmin EXCEPT !.pc = "user", !.op = "access", !.user = u, !.sel = sel]
    PROVE  x = Fresh("user", "access", u, sel, None, None, {}, {})
BY DEF NoAdmin, Fresh

LEMMA FreshRemove ==
    ASSUME NEW l, NEW x, x = [NoAdmin EXCEPT !.pc = "delete", !.op = "remove", !.lib = l]
    PROVE  x = Fresh("delete", "remove", None, {}, l, None, {}, {})
BY DEF NoAdmin, Fresh

LEMMA FreshPurge ==
    ASSUME NEW x, x = [NoAdmin EXCEPT !.pc = "purge", !.op = "purge"]
    PROVE  x = Fresh("purge", "purge", None, {}, None, None, {}, {})
BY DEF NoAdmin, Fresh

LEMMA FreshIssue ==
    ASSUME NEW t, NEW sc, NEW libs, NEW x, x = [NoAdmin EXCEPT !.pc = "create", !.op = "issue", !.token = t, !.scopes = sc, !.libs = libs]
    PROVE  x = Fresh("create", "issue", None, {}, None, t, sc, libs)
BY DEF NoAdmin, Fresh

LEMMA FreshRescope ==
    ASSUME NEW t, NEW sc, NEW libs, NEW x, x = [NoAdmin EXCEPT !.pc = "before", !.op = "rescope", !.token = t, !.scopes = sc, !.libs = libs]
    PROVE  x = Fresh("before", "rescope", None, {}, None, t, sc, libs)
BY DEF NoAdmin, Fresh

LEMMA FreshRevoke ==
    ASSUME NEW t, NEW x, x = [NoAdmin EXCEPT !.pc = "revoke", !.op = "revoke", !.token = t]
    PROVE  x = Fresh("revoke", "revoke", None, {}, None, t, {}, {})
BY DEF NoAdmin, Fresh

LEMMA NoAdminGood == NoAdmin \in AdminRequests /\ NoAdmin.pc = "idle" /\ NoAdmin.token = None
                     /\ \A row : RequestOK(NoAdmin, row)
<1>1. NoAdmin = Fresh("idle", None, None, {}, None, None, {}, {})
  BY DEF NoAdmin, Fresh
<1>2. NoAdmin \in AdminRequests /\ NoAdmin.pc = "idle" /\ NoAdmin.token = None
  BY <1>1, FreshGood
<1> QED BY <1>2 DEF RequestOK

\* Requests of readers' grants and of libraries, and of a purge, hold no token.
LEMMA Aside ==
    ASSUME LibrarianGood, NEW a \in Admins, NEW r \in AdminRequests, adm' = [adm EXCEPT ![a] = r],
           UNCHANGED <<token, log, agent, crossed, cut>>,
           ~Owing(a), r.token = None, r.pc \in {"idle", "user", "validate", "write", "delete", "purge"},
           RequestOK(r, token)
    PROVE  LibrarianGood'
<1>1. LogGood' /\ SaysTheSame
  BY LogSame DEF LibrarianGood
<1>2. adm'[a] = r
  BY DEF LibrarianGood
<1>3. \A t \in Tokens : DebtOK(a, t)'
  BY <1>2, AccessAssumption DEF DebtOK
<1> QED BY <1>1, <1>3, Moved DEF Owes, Owing

\* A request that ends without having changed a token.
LEMMA Ended ==
    ASSUME LibrarianGood, NEW a \in Admins, adm' = [adm EXCEPT ![a] = NoAdmin],
           UNCHANGED <<token, log, agent, crossed, cut>>, ~Owing(a)
    PROVE  LibrarianGood'
BY NoAdminGood, Aside

LEMMA NothingOwed ==
    ASSUME NEW a \in Admins, ~Owing(a)', adm'[a].pc # "update", NEW t \in Tokens PROVE DebtOK(a, t)'
BY DEF DebtOK, Owing

Pre(a) == LibrarianGood /\ AdminOK(a) /\ adm[a] \in AdminRequests /\ adm \in [Admins -> AdminRequests]

LEMMA AsideSteps ==
    ASSUME IInv, NEW a \in Admins,
           \/ \E u \in Users, sel \in Selections : AskAccess(a, u, sel)
           \/ ReadUser(a) \/ ValidateGrants(a) \/ ReplaceGrants(a)
           \/ \E l \in Libraries : AskRemove(a, l)
           \/ RemoveLibrary(a) \/ AskPurge(a)
    PROVE  LibrarianGood'
<1>0. Pre(a)
  BY LibrarianNow DEF Pre, LibrarianGood, AdminsOK
<1>1. UNCHANGED <<token, log, agent, crossed, cut>>
  BY DEF AskAccess, ReadUser, ValidateGrants, ReplaceGrants, AskRemove, RemoveLibrary, AskPurge, Begin, librarian
<1>2. adm[a].pc \in {"idle", "user", "validate", "write", "delete"} /\ ~Owing(a)
  BY DEF AskAccess, ReadUser, ValidateGrants, ReplaceGrants, AskRemove, RemoveLibrary, AskPurge, Begin, Owing
<1>3. adm[a].token = None
  BY <1>0, <1>2 DEF Pre, AdminOK, RequestOK
<1>4. CASE adm' = [adm EXCEPT ![a] = NoAdmin]
  BY <1>0, <1>1, <1>2, <1>4, Ended DEF Pre
<1>5. ASSUME NEW r \in AdminRequests, adm' = [adm EXCEPT ![a] = r], r.token = None,
             r.pc \in {"user", "validate", "write", "delete", "purge"},
             r.pc \in {"user", "validate", "write"} => r.user \in Users,
             r.pc = "delete" => r.lib \in Libraries
      PROVE  LibrarianGood'
  <2>1. RequestOK(r, token)
    BY <1>5 DEF RequestOK
  <2> QED BY <1>0, <1>1, <1>2, <1>5, <2>1, Aside DEF Pre
<1>6. ASSUME NEW u \in Users, NEW sel \in Selections, AskAccess(a, u, sel) PROVE LibrarianGood'
  <2> DEFINE r == [NoAdmin EXCEPT !.pc = "user", !.op = "access", !.user = u, !.sel = sel]
  <2>1. sel \in SUBSET Grants
    BY AccessAssumption
  <2>2. r = Fresh("user", "access", u, sel, None, None, {}, {})
    BY FreshAccess
  <2>3. r \in AdminRequests /\ r.pc = "user" /\ r.user = u /\ r.token = None
    <3> HIDE DEF r
    <3> QED BY <2>1, <2>2, FreshGood
  <2>4. adm' = [adm EXCEPT ![a] = r]
    BY <1>6 DEF AskAccess, Begin, Set
  <2> HIDE DEF r
  <2> QED BY <1>5, <2>3, <2>4
<1>7. ASSUME NEW l \in Libraries, AskRemove(a, l) PROVE LibrarianGood'
  <2> DEFINE r == [NoAdmin EXCEPT !.pc = "delete", !.op = "remove", !.lib = l]
  <2>1. r = Fresh("delete", "remove", None, {}, l, None, {}, {})
    BY FreshRemove
  <2>2. r \in AdminRequests /\ r.pc = "delete" /\ r.lib = l /\ r.token = None
    <3> HIDE DEF r
    <3>1. None \in Users \cup {None} /\ None \in Tokens \cup {None} /\ l \in Libraries \cup {None}
      OBVIOUS
    <3>2. /\ Fresh("delete", "remove", None, {}, l, None, {}, {}) \in AdminRequests
          /\ Fresh("delete", "remove", None, {}, l, None, {}, {}).pc = "delete"
          /\ Fresh("delete", "remove", None, {}, l, None, {}, {}).lib = l
          /\ Fresh("delete", "remove", None, {}, l, None, {}, {}).token = None
      BY <3>1, FreshGood
    <3> QED BY <2>1, <3>2
  <2>3. adm' = [adm EXCEPT ![a] = r]
    BY <1>7 DEF AskRemove, Begin, Set
  <2> HIDE DEF r
  <2> QED BY <1>5, <2>2, <2>3
<1>8. CASE AskPurge(a)
  <2> DEFINE r == [NoAdmin EXCEPT !.pc = "purge", !.op = "purge"]
  <2>1. r = Fresh("purge", "purge", None, {}, None, None, {}, {})
    BY FreshPurge
  <2>2. r \in AdminRequests /\ r.pc = "purge" /\ r.token = None
    <3> HIDE DEF r
    <3> QED BY <2>1, FreshGood
  <2>3. adm' = [adm EXCEPT ![a] = r]
    BY <1>8 DEF AskPurge, Begin, Set
  <2> HIDE DEF r
  <2> QED BY <1>5, <2>2, <2>3
<1>9. CASE (ReadUser(a) \/ ValidateGrants(a)) /\ ~(adm' = [adm EXCEPT ![a] = NoAdmin])
  <2>1. PICK pc \in {"validate", "write"} : adm' = [adm EXCEPT ![a] = [adm[a] EXCEPT !.pc = pc]]
    BY <1>9 DEF ReadUser, ValidateGrants, Set
  <2>2. [adm[a] EXCEPT !.pc = pc] \in AdminRequests
    BY <1>0 DEF Pre, AdminRequests
  <2>3. adm[a].user \in Users
    BY <1>0, <1>9 DEF Pre, AdminOK, RequestOK, ReadUser, ValidateGrants
  <2>4. /\ [adm[a] EXCEPT !.pc = pc].pc = pc
        /\ [adm[a] EXCEPT !.pc = pc].user \in Users
        /\ [adm[a] EXCEPT !.pc = pc].token = None
    BY <1>0, <1>3, <2>3 DEF Pre, AdminRequests
  <2> QED BY <1>5, <2>1, <2>2, <2>4
<1> QED BY <1>4, <1>6, <1>7, <1>8, <1>9 DEF ReplaceGrants, RemoveLibrary, Set

\* A request about a token begins, or reads the token's row.
LEMMA TokenAsked ==
    ASSUME IInv, NEW a \in Admins, NEW t \in Tokens,
           \/ \E sc \in Capabilities, libs \in SUBSET Libraries : AskIssue(a, t, sc, libs) \/ AskRescope(a, t, sc, libs)
           \/ AskRevoke(a, t)
    PROVE  LibrarianGood'
<1>0. Pre(a) /\ Capabilities \subseteq SUBSET Scopes
  BY LibrarianNow, AccessAssumption DEF Pre, LibrarianGood, AdminsOK
<1>1. UNCHANGED <<token, log, agent, crossed, cut>> /\ adm[a].pc = "idle"
  BY DEF AskIssue, AskRescope, AskRevoke, Begin, librarian
<1>2. LogGood' /\ SaysTheSame
  BY <1>0, <1>1, LogSame DEF Pre, LibrarianGood
<1>3. ASSUME NEW sc \in SUBSET Scopes, NEW libs \in SUBSET Libraries,
             NEW pc \in {"create", "before", "revoke"}, NEW op \in {"issue", "rescope", "revoke"},
             adm' = [adm EXCEPT ![a] = Fresh(pc, op, None, {}, None, t, sc, libs)],
             pc = "create" => token[t] = None /\ \A b \in Admins : adm[b].token # t,
             pc # "create" => token[t] # None
      PROVE  LibrarianGood'
  <2> DEFINE r == Fresh(pc, op, None, {}, None, t, sc, libs)
  <2>1. r \in AdminRequests /\ r.pc = pc /\ r.token = t
    BY FreshGood
  <2>2. adm' = [adm EXCEPT ![a] = r]
    BY <1>3
  <2> HIDE DEF r
  <2>3. RequestOK(r, token) /\ ~Owes(r)
    BY <1>3, <2>1 DEF RequestOK, Owes
  <2>4. ASSUME NEW u \in Tokens PROVE DebtOK(a, u)'
    <3>1. adm'[a] = r
      BY <1>0, <2>2 DEF Pre
    <3> QED BY <2>1, <3>1, NothingOwed DEF Owing
  <2>5. /\ r.pc = "create" => \A b \in Admins \ {a} : adm[b].token # r.token
        /\ r.token \in {adm[a].token, None} \/ token[r.token] # None \/ \A b \in Admins : adm[b].token # r.token
    BY <1>3, <2>1
  <2>6. ~Owing(a)
    BY <1>1 DEF Owing
  <2> QED BY <1>0, <1>1, <1>2, <2>1, <2>2, <2>3, <2>4, <2>5, <2>6, Moved DEF Pre
<1>4. ASSUME NEW sc \in Capabilities, NEW libs \in SUBSET Libraries, AskIssue(a, t, sc, libs)
      PROVE  LibrarianGood'
  <2>1. [NoAdmin EXCEPT !.pc = "create", !.op = "issue", !.token = t, !.scopes = sc, !.libs = libs]
        = Fresh("create", "issue", None, {}, None, t, sc, libs)
    BY FreshIssue
  <2>2. adm' = [adm EXCEPT ![a] = Fresh("create", "issue", None, {}, None, t, sc, libs)]
    BY <1>4, <2>1 DEF AskIssue, Begin, Set
  <2>3. token[t] = None /\ \A b \in Admins : adm[b].token # t
    BY <1>4 DEF AskIssue
  <2> QED BY <1>0, <1>3, <2>2, <2>3
<1>5. ASSUME NEW sc \in Capabilities, NEW libs \in SUBSET Libraries, AskRescope(a, t, sc, libs)
      PROVE  LibrarianGood'
  <2>1. [NoAdmin EXCEPT !.pc = "before", !.op = "rescope", !.token = t, !.scopes = sc, !.libs = libs]
        = Fresh("before", "rescope", None, {}, None, t, sc, libs)
    BY FreshRescope
  <2> QED BY <1>0, <1>3, <1>5, <2>1 DEF AskRescope, Begin, Set
<1>6. CASE AskRevoke(a, t)
  <2>1. [NoAdmin EXCEPT !.pc = "revoke", !.op = "revoke", !.token = t]
        = Fresh("revoke", "revoke", None, {}, None, t, {}, {})
    BY FreshRevoke
  <2> QED BY <1>3, <1>6, <2>1 DEF AskRevoke, Begin, Set
<1> QED BY <1>4, <1>5, <1>6

\* A request about to record what it leaves to record.
LEMMA Noted ==
    ASSUME NEW r \in AdminRequests, NEW q \in Seq(Event)
    PROVE  /\ [r EXCEPT !.pc = "record", !.todo = q] \in AdminRequests
           /\ [r EXCEPT !.pc = "record", !.todo = q].pc = "record"
           /\ [r EXCEPT !.pc = "record", !.todo = q].todo = q
           /\ [r EXCEPT !.pc = "record", !.todo = q].token = r.token
BY DEF AdminRequests

LEMMA NoneIsNoRow == None \notin TokenRow
BY AccessAssumption DEF TokenRow

\* What nobody owes the trail has said.
LEMMA SaidOfUnowed ==
    ASSUME LibrarianGood, NEW a \in Admins, ~Owing(a), NEW t \in Tokens, token[t] # None, Clean(t),
           \A b \in Admins \ {a} : adm[b].token # t
    PROVE  \A f \in Fields : Said(t, f) = token[t][f]
<1>1. Unowed(t)
  BY DEF Unowed
<1> QED BY <1>1 DEF LibrarianGood, AllExplained, Explained

LEMMA TokenCreated == ASSUME IInv, NEW a \in Admins, CreateToken(a) PROVE LibrarianGood'
<1> DEFINE r == adm[a]
           t == r.token
           row == [scopes |-> r.scopes, libs |-> r.libs, active |-> TRUE]
           e == [Entry(t, "security") EXCEPT !.scopes = row.scopes, !.libs = row.libs, !.active = TRUE]
           x == [r EXCEPT !.pc = "record", !.todo = <<e>>]
<1>0. Pre(a) /\ r \in AdminRequests /\ r.pc = "create"
  BY LibrarianNow DEF Pre, LibrarianGood, AdminsOK, CreateToken, TokenStep
<1>1. t \in Tokens /\ r.scopes \in SUBSET Scopes /\ r.libs \in SUBSET Libraries
  BY <1>0 DEF Pre, AdminOK, RequestOK, AdminRequests
<1>2. row \in TokenRow /\ row.scopes = r.scopes /\ row.libs = r.libs /\ row.active = TRUE
  BY <1>1 DEF TokenRow
<1>3. Said3(e, t, row.scopes, row.libs, TRUE)
  BY <1>1, <1>2, FullEntry
<1>4. Touch(a, t, row) /\ adm' = [adm EXCEPT ![a] = x] /\ UNCHANGED <<log, cut>>
  BY DEF CreateToken, Set
<1> HIDE DEF e, row
<1>5. \A f \in Fields : e[f] = row[f]
  BY <1>2, <1>3 DEF Said3, Fields
<1>6. Notes(<<e>>, t, row) /\ <<e>> # <<>> /\ \A f \in Fields : Tells(<<e>>, f, row[f])
  BY <1>1, <1>2, <1>3, <1>5, OneNote DEF Said3
<1>7. x \in AdminRequests /\ x.pc = "record" /\ x.todo = <<e>> /\ x.token = t
  BY <1>0, <1>6, Noted DEF Notes
<1> HIDE DEF x
<1>8. token'[t] = row /\ row # None
  BY <1>0, <1>1, <1>2, <1>4, AccessAssumption DEF Touch, Pre, LibrarianGood, TokenRow
<1>9. RequestOK(x, token') /\ Owes(x)
  BY <1>6, <1>7, <1>8 DEF RequestOK, NotesOK, Notes, Owes
<1> QED BY <1>0, <1>1, <1>2, <1>4, <1>6, <1>7, <1>9, Touched DEF Pre, Notes

LEMMA TokenUpdated == ASSUME IInv, NEW a \in Admins, UpdateToken(a) PROVE LibrarianGood'
<1> DEFINE r == adm[a]
           t == r.token
           old == token[t]
           row == [old EXCEPT !.scopes = r.scopes, !.libs = r.libs]
           x == [r EXCEPT !.pc = "after"]
<1>0. Pre(a) /\ r \in AdminRequests /\ r.pc = "update" /\ ~Owing(a)
  BY LibrarianNow DEF Pre, LibrarianGood, AdminsOK, UpdateToken, TokenStep, Owing
<1>1. /\ t \in Tokens /\ r.scopes \in SUBSET Scopes /\ r.libs \in SUBSET Libraries /\ r.before \in TokenRow
      /\ old # None
  BY <1>0, AccessAssumption DEF Pre, AdminOK, RequestOK, AdminRequests
<1>2. old \in TokenRow
  BY <1>0, <1>1 DEF Pre, LibrarianGood
<1>3. row \in TokenRow /\ row.active = old.active /\ row # None
  <2>1. row \in TokenRow /\ row.active = old.active
    BY <1>1, <1>2 DEF TokenRow
  <2> QED BY <2>1, NoneIsNoRow
<1>4. CASE ~old.active
  BY <1>0, <1>4, Ended DEF Pre, UpdateToken, Set
<1>5. CASE old.active
  <2>1. Touch(a, t, row) /\ adm' = [adm EXCEPT ![a] = x] /\ UNCHANGED <<log, cut>>
    BY <1>5 DEF UpdateToken, Set
  <2>2. x \in AdminRequests /\ x.pc = "after" /\ x.token = t /\ x.before = r.before
    BY <1>0 DEF AdminRequests
  <2> HIDE DEF x, row
  <2>3. token'[t] = row
    BY <1>0, <1>1, <2>1 DEF Touch, Pre, LibrarianGood
  <2>4. RequestOK(x, token') /\ Owes(x)
    BY <1>1, <1>3, <2>2, <2>3 DEF RequestOK, Owes
  <2>5. ASSUME Clean(t), \A b \in Admins \ {a} : adm[b].token # t
        PROVE  x.before.active = row.active /\ \A f \in Fields : Said(t, f) = x.before[f]
    <3>1. r.before = old
      BY <1>0, <1>1, <2>5 DEF Pre, LibrarianGood, DebtsOK, DebtOK
    <3>2. \A f \in Fields : Said(t, f) = old[f]
      BY <1>0, <1>1, <2>5, SaidOfUnowed DEF Pre
    <3> QED BY <1>3, <2>2, <3>1, <3>2
  <2> QED BY <1>0, <1>1, <1>3, <2>1, <2>2, <2>4, <2>5, Touched DEF Pre
<1> QED BY <1>4, <1>5

LEMMA TokenRevoked == ASSUME IInv, NEW a \in Admins, RevokeToken(a) PROVE LibrarianGood'
<1> DEFINE r == adm[a]
           t == r.token
           old == token[t]
           row == [old EXCEPT !.active = FALSE]
           e == [Entry(t, "security") EXCEPT !.active = FALSE]
           x == [r EXCEPT !.pc = "record", !.todo = <<e>>]
<1>0. Pre(a) /\ r \in AdminRequests /\ r.pc = "revoke" /\ ~Owing(a)
  BY LibrarianNow DEF Pre, LibrarianGood, AdminsOK, RevokeToken, TokenStep, Owing
<1>1. t \in Tokens /\ old # None
  BY <1>0, AccessAssumption DEF Pre, AdminOK, RequestOK, AdminRequests
<1>2. old \in TokenRow
  BY <1>0, <1>1 DEF Pre, LibrarianGood
<1>3. /\ row \in TokenRow /\ row.active = FALSE /\ row # None
      /\ row.scopes = old.scopes /\ row.libs = old.libs
  <2>1. row \in TokenRow /\ row.active = FALSE /\ row.scopes = old.scopes /\ row.libs = old.libs
    BY <1>2 DEF TokenRow
  <2> QED BY <2>1, NoneIsNoRow
<1>4. CASE ~old.active
  BY <1>0, <1>4, Ended DEF Pre, RevokeToken, Set
<1>5. CASE old.active
  <2>1. Touch(a, t, row) /\ adm' = [adm EXCEPT ![a] = x] /\ UNCHANGED <<log, cut>>
    BY <1>5 DEF RevokeToken, Set
  <2>2. Said3(e, t, None, None, FALSE)
    BY <1>1, ActiveEntry
  <2> HIDE DEF e, row
  <2>3. (\A f \in Fields : e[f] \in {None, row[f]}) /\ e["active"] = row["active"]
    BY <1>3, <2>2 DEF Said3, Fields
  <2>4. Notes(<<e>>, t, row) /\ <<e>> # <<>> /\ Tells(<<e>>, "active", row["active"])
    BY <1>1, <1>3, <2>2, <2>3, OneNote DEF Said3, Fields
  <2>5. x \in AdminRequests /\ x.pc = "record" /\ x.todo = <<e>> /\ x.token = t
    BY <1>0, <2>4, Noted DEF Notes
  <2> HIDE DEF x
  <2>6. token'[t] = row
    BY <1>0, <1>1, <2>1 DEF Touch, Pre, LibrarianGood
  <2>7. RequestOK(x, token') /\ Owes(x)
    BY <1>3, <2>4, <2>5, <2>6 DEF RequestOK, NotesOK, Notes, Owes
  <2>8. ASSUME Clean(t), \A b \in Admins \ {a} : adm[b].token # t, NEW f \in Fields
        PROVE  Said(t, f) = row[f] \/ Tells(x.todo, f, row[f])
    <3>1. \A h \in Fields : Said(t, h) = old[h]
      BY <1>0, <1>1, <2>8, SaidOfUnowed DEF Pre
    <3>2. CASE f = "active"
      BY <2>4, <2>5, <3>2
    <3>3. CASE f # "active"
      BY <1>3, <3>1, <3>3 DEF Fields
    <3> QED BY <3>2, <3>3
  <2>9. \A f \in Fields : \A i \in 1..Len(x.todo) : x.todo[i][f] \in {None, row[f]}
    BY <2>4, <2>5 DEF Notes
  <2> QED BY <1>0, <1>1, <1>3, <2>1, <2>5, <2>7, <2>8, <2>9, Touched DEF Pre
<1> QED BY <1>4, <1>5

LEMMA BeforeRead == ASSUME IInv, NEW a \in Admins, ReadBefore(a) PROVE LibrarianGood'
<1> DEFINE r == adm[a]
           t == r.token
           x == [r EXCEPT !.pc = "update", !.before = token[t]]
<1>0. Pre(a) /\ r \in AdminRequests /\ r.pc = "before" /\ ~Owing(a) /\ UNCHANGED <<token, log, agent, crossed, cut>>
  BY LibrarianNow DEF Pre, LibrarianGood, AdminsOK, ReadBefore, TokenStep, Owing, librarian
<1>1. t \in Tokens /\ token[t] # None
  BY <1>0, AccessAssumption DEF Pre, AdminOK, RequestOK, AdminRequests
<1>2. token[t] \in TokenRow
  BY <1>0, <1>1 DEF Pre, LibrarianGood
<1>3. CASE ~token[t].active
  BY <1>0, <1>3, Ended DEF Pre, ReadBefore, Set
<1>4. CASE token[t].active
  <2>1. adm' = [adm EXCEPT ![a] = x]
    BY <1>4 DEF ReadBefore, Set
  <2>2. x \in AdminRequests /\ x.pc = "update" /\ x.token = t /\ x.before = token[t]
    BY <1>0, <1>2 DEF AdminRequests
  <2> HIDE DEF x
  <2>3. RequestOK(x, token) /\ ~Owes(x)
    BY <1>1, <1>2, <2>2 DEF RequestOK, Owes
  <2>4. LogGood' /\ SaysTheSame
    BY <1>0, LogSame DEF Pre, LibrarianGood
  <2>5. adm'[a] = x
    BY <1>0, <2>1 DEF Pre
  <2>6. \A u \in Tokens : DebtOK(a, u)'
    BY <1>0, <2>2, <2>5 DEF DebtOK, Owing
  <2> QED BY <1>0, <2>1, <2>2, <2>3, <2>4, <2>6, Moved DEF Pre
<1> QED BY <1>3, <1>4

LEMMA AfterRead == ASSUME IInv, NEW a \in Admins, ReadAfter(a) PROVE LibrarianGood'
<1> DEFINE r == adm[a]
           t == r.token
           q == Changes(t, r.before, token[t])
           x == [r EXCEPT !.pc = "record", !.todo = q]
<1>0. Pre(a) /\ r \in AdminRequests /\ r.pc = "after" /\ Owing(a) /\ UNCHANGED <<token, log, agent, crossed, cut>>
  BY LibrarianNow DEF Pre, LibrarianGood, AdminsOK, ReadAfter, TokenStep, Owing, librarian
<1>1. t \in Tokens /\ token[t] # None /\ r.before \in TokenRow
  BY <1>0, AccessAssumption DEF Pre, AdminOK, RequestOK, AdminRequests
<1>2. token[t] \in TokenRow
  BY <1>0, <1>1 DEF Pre, LibrarianGood
<1>3. /\ Notes(q, t, token[t])
      /\ \A f \in {"scopes", "libs"} : r.before[f] = token[t][f] \/ Tells(q, f, token[t][f])
  BY <1>1, <1>2, ChangesGood
<1>4. LogGood' /\ SaysTheSame
  BY <1>0, LogSame DEF Pre, LibrarianGood
<1>5. ASSUME Clean(t), NEW f \in Fields PROVE Said(t, f) = token[t][f] \/ Tells(q, f, token[t][f])
  <2>1. r.before.active = token[t].active /\ Said(t, f) = r.before[f]
    BY <1>0, <1>1, <1>5 DEF Pre, LibrarianGood, DebtsOK, DebtOK
  <2> HIDE DEF q
  <2>2. CASE f = "active"
    BY <2>1, <2>2
  <2>3. CASE f \in {"scopes", "libs"}
    BY <1>3, <2>1, <2>3
  <2> QED BY <2>2, <2>3 DEF Fields
<1>6. CASE q = <<>>
  <2>1. adm' = [adm EXCEPT ![a] = NoAdmin]
    BY <1>6 DEF ReadAfter, Set
  <2>2. ASSUME Clean(t), NEW f \in Fields PROVE Said(t, f) = token[t][f]
    <3> HIDE DEF q
    <3>1. ~Tells(q, f, token[t][f])
      BY <1>6 DEF Tells
    <3> QED BY <1>5, <2>2, <3>1
  <2>3. adm'[a] = NoAdmin
    BY <1>0, <2>1 DEF Pre
  <2>4. \A u \in Tokens : DebtOK(a, u)'
    BY <2>3, NoAdminGood, AccessAssumption DEF DebtOK
  <2>5. ~Owes(NoAdmin)
    BY NoAdminGood DEF Owes
  <2> QED BY <1>0, <1>4, <2>1, <2>2, <2>4, <2>5, NoAdminGood, Moved DEF Pre
<1>7. CASE q # <<>>
  <2>1. adm' = [adm EXCEPT ![a] = x]
    BY <1>7 DEF ReadAfter, Set
  <2> HIDE DEF q
  <2>2. x \in AdminRequests /\ x.pc = "record" /\ x.todo = q /\ x.token = t
    BY <1>0, <1>3, Noted DEF Notes
  <2> HIDE DEF x
  <2>3. RequestOK(x, token) /\ Owes(x)
    BY <1>1, <1>3, <1>7, <2>2 DEF RequestOK, NotesOK, Notes, Owes
  <2>4. adm'[a] = x
    BY <1>0, <2>1 DEF Pre
  <2>5. ASSUME NEW u \in Tokens, u = t, Clean(u)' PROVE DebtOK(a, u)'
    <3>1. Clean(u) /\ token' = token
      BY <1>0, <2>5 DEF Clean
    <3>2. \A b \in Admins \ {a} : adm'[b].token = u => ~Owing(b)'
      <4>1. \A b \in Admins \ {a} : adm'[b] = adm[b]
        BY <1>0, <2>1 DEF Pre
      <4>2. \A b \in Admins \ {a} : adm[b].token = u => ~Owing(b)
        BY <1>0, <2>5, <3>1 DEF Pre, LibrarianGood, DebtsOK, DebtOK
      <4> QED BY <4>1, <4>2 DEF Owing
    <3>3. ASSUME NEW f \in Fields
          PROVE  /\ \A i \in 1..Len(q) : q[i][f] \in {None, token[u][f]}
                 /\ Said(u, f)' = token[u][f] \/ Tells(q, f, token[u][f])
      <4>1. \A i \in 1..Len(q) : q[i][f] \in {None, token[u][f]}
        BY <1>3, <2>5 DEF Notes
      <4>2. Said(u, f)' = Said(u, f)
        BY <1>4 DEF SaysTheSame
      <4>3. Said(u, f) = token[u][f] \/ Tells(q, f, token[u][f])
        BY <1>5, <2>5, <3>1
      <4> QED BY <4>1, <4>2, <4>3
    <3> QED BY <2>2, <2>4, <2>5, <3>1, <3>2, <3>3 DEF DebtOK
  <2>6. ASSUME NEW u \in Tokens PROVE DebtOK(a, u)'
    <3>1. CASE u = t /\ Clean(u)'
      BY <2>5, <3>1
    <3>2. CASE ~(u = t /\ Clean(u)')
      BY <2>2, <2>4, <3>2 DEF DebtOK
    <3> QED BY <3>1, <3>2
  <2> QED BY <1>0, <1>1, <1>4, <2>1, <2>2, <2>3, <2>6, Moved DEF Pre
<1> QED BY <1>6, <1>7

LEMMA TrailPurged == ASSUME IInv, NEW a \in Admins, NEW n, PurgeTrail(a, n) PROVE LibrarianGood'
<1> DEFINE r == adm[a]
           e == Entry(None, "security")
           x == [r EXCEPT !.pc = "record", !.todo = <<e>>]
<1>0. Pre(a) /\ r \in AdminRequests /\ r.pc = "purge" /\ ~Owing(a) /\ UNCHANGED <<token, agent, crossed, cut>>
  BY LibrarianNow DEF Pre, LibrarianGood, AdminsOK, PurgeTrail, TokenStep, Owing
<1>1. r.token = None
  BY <1>0 DEF Pre, AdminOK, RequestOK
<1>2. LogGood' /\ SaysTheSame
  BY <1>0, PurgeGood DEF PurgeTrail, Pre, LibrarianGood
<1>3. e \in Event /\ e.token = None /\ e.severity = "security"
  BY PlainEntry
<1>4. adm' = [adm EXCEPT ![a] = x]
  BY DEF PurgeTrail, Set
<1> HIDE DEF e
<1>5. <<e>> \in Seq(Event) /\ <<e>> # <<>> /\ Len(<<e>>) = 1 /\ <<e>>[1] = e
  BY <1>3
<1>6. x \in AdminRequests /\ x.pc = "record" /\ x.todo = <<e>> /\ x.token = None
  BY <1>0, <1>1, <1>5, Noted
<1> HIDE DEF x
<1>7. RequestOK(x, token) /\ Owes(x)
  BY <1>3, <1>5, <1>6 DEF RequestOK, NotesOK, Owes
<1>8. adm'[a] = x
  BY <1>0, <1>4 DEF Pre
<1>9. \A u \in Tokens : DebtOK(a, u)'
  BY <1>6, <1>8, AccessAssumption DEF DebtOK
<1> QED BY <1>0, <1>2, <1>4, <1>6, <1>7, <1>9, Moved DEF Pre

\* The fields of a row are what an entry may say.
LEMMA RowSaysSomething ==
    ASSUME NEW row \in TokenRow, NEW f \in Fields PROVE row[f] # None
<1>1. row.scopes \in SUBSET Scopes /\ row.libs \in SUBSET Libraries /\ row.active \in BOOLEAN
  BY DEF TokenRow
<1>2. row.scopes # None /\ row.libs # None
  BY <1>1, AccessAssumption
<1>3. row.active # None
  BY <1>1, AccessAssumption
<1> QED BY <1>2, <1>3 DEF Fields

LEMMA NoteRecorded == ASSUME IInv, NEW a \in Admins, Record(a) PROVE LibrarianGood'
<1> DEFINE r == adm[a]
           q == r.todo
           e == Head(q)
           rest == Tail(q)
           x == IF rest = <<>> THEN NoAdmin ELSE [r EXCEPT !.todo = rest]
<1>0. Pre(a) /\ r \in AdminRequests /\ r.pc = "record" /\ Owing(a) /\ UNCHANGED <<token, agent, crossed, cut>>
  BY LibrarianNow DEF Pre, LibrarianGood, AdminsOK, Record, TokenStep, Owing
<1>1. q \in Seq(Event) /\ q # <<>> /\ r.token \in Tokens \cup {None} /\ (r.token # None => token[r.token] # None)
      /\ \A i \in 1..Len(q) : q[i].token = r.token /\ q[i].severity = "security"
  BY <1>0 DEF Pre, AdminOK, RequestOK, NotesOK, AdminRequests
<1>2. /\ e = q[1] /\ e \in Event /\ Len(q) \in Nat \ {0}
      /\ rest \in Seq(Event) /\ Len(rest) = Len(q) - 1
      /\ \A i \in 1..Len(rest) : i + 1 \in 1..Len(q) /\ rest[i] = q[i + 1]
  BY <1>1
<1>3. e.token = r.token /\ e.severity = "security"
  BY <1>1, <1>2
<1>4. Recorded(e) /\ adm' = [adm EXCEPT ![a] = x]
  BY DEF Record, Set
<1> HIDE DEF e
<1>5. /\ LogGood'
      /\ \A u \in Tokens, f \in Fields :
            Said(u, f)' = IF e.token = u /\ e[f] # None THEN e[f] ELSE Said(u, f)
  BY <1>0, <1>2, <1>3, <1>4, RecordedGood DEF Pre, LibrarianGood
<1>6. \/ rest = <<>> /\ x = NoAdmin
      \/ rest # <<>> /\ x \in AdminRequests /\ x.pc = "record" /\ x.token = r.token /\ x.todo = rest
  <2>1. CASE rest = <<>>
    BY <2>1
  <2>2. CASE rest # <<>>
    BY <1>0, <1>2, <2>2 DEF AdminRequests
  <2> QED BY <2>1, <2>2
<1> HIDE DEF x
<1>7. /\ x \in AdminRequests /\ x.token \in {r.token, None} /\ x.pc \in {"idle", "record"}
      /\ RequestOK(x, token) /\ (Owes(x) => x.token = r.token)
  <2>1. CASE rest = <<>> /\ x = NoAdmin
    BY <2>1, NoAdminGood DEF Owes
  <2>2. CASE rest # <<>> /\ x \in AdminRequests /\ x.pc = "record" /\ x.token = r.token /\ x.todo = rest
    <3>1. \A i \in 1..Len(rest) : rest[i].token = r.token /\ rest[i].severity = "security"
      BY <1>1, <1>2
    <3> QED BY <1>1, <2>2, <3>1 DEF RequestOK, NotesOK
  <2> QED BY <1>6, <2>1, <2>2
<1>8. adm' \in [Admins -> AdminRequests] /\ AdminsOK'
  BY <1>0, <1>4, <1>7, AdminsMoved DEF Pre
<1>9. adm'[a] = x /\ \A b \in Admins \ {a} : adm'[b] = adm[b]
  BY <1>0, <1>4 DEF Pre
<1>10. AgentsOK'
  BY <1>0 DEF Pre, LibrarianGood, AgentsOK, AgentOK
<1>11. ASSUME NEW u \in Tokens, u # r.token PROVE \A f \in Fields : Said(u, f)' = Said(u, f)
  BY <1>3, <1>5, <1>11
<1>12. ASSUME NEW u \in Tokens, u = r.token, Clean(u)
       PROVE  /\ \A b \in Admins \ {a} : adm[b].token = u => ~Owing(b)
              /\ \A f \in Fields : /\ \A i \in 1..Len(rest) : rest[i][f] \in {None, token[u][f]}
                                   /\ Said(u, f)' = token[u][f] \/ Tells(rest, f, token[u][f])
  <2>1. /\ \A b \in Admins \ {a} : adm[b].token = u => ~Owing(b)
        /\ \A f \in Fields : /\ \A i \in 1..Len(q) : q[i][f] \in {None, token[u][f]}
                             /\ Said(u, f) = token[u][f] \/ Tells(q, f, token[u][f])
    BY <1>0, <1>12 DEF Pre, LibrarianGood, DebtsOK, DebtOK
  <2>2. token[u] \in TokenRow
    BY <1>0, <1>1, <1>12, AccessAssumption DEF Pre, LibrarianGood
  <2> HIDE DEF rest, q
  <2>3. ASSUME NEW f \in Fields PROVE Said(u, f)' = token[u][f] \/ Tells(rest, f, token[u][f])
    <3>1. e[f] \in {None, token[u][f]} /\ token[u][f] # None
      BY <1>2, <2>1, <2>2, RowSaysSomething
    <3>2. CASE e[f] # None
      BY <1>3, <1>5, <1>12, <3>1, <3>2
    <3>3. CASE e[f] = None /\ Said(u, f) = token[u][f]
      BY <1>5, <3>3
    <3>4. CASE e[f] = None /\ Tells(q, f, token[u][f])
      <4>1. PICK i \in 1..Len(q) : q[i][f] = token[u][f]
        BY <3>4 DEF Tells
      <4>2. i # 1
        BY <1>2, <3>1, <3>4, <4>1
      <4>3. i - 1 \in 1..Len(rest) /\ rest[i - 1] = q[i]
        BY <1>2, <4>2
      <4> QED BY <4>1, <4>3 DEF Tells
    <3> QED BY <2>1, <3>2, <3>3, <3>4
  <2>4. ASSUME NEW f \in Fields PROVE \A i \in 1..Len(rest) : rest[i][f] \in {None, token[u][f]}
    BY <1>2, <2>1
  <2> QED BY <2>1, <2>3, <2>4
<1>13. ASSUME NEW b \in Admins \ {a}, NEW u \in Tokens PROVE DebtOK(b, u)'
  <2>1. /\ DebtOK(b, u) /\ adm'[b] = adm[b] /\ Clean(u)' = Clean(u) /\ Owing(b)' = Owing(b)
        /\ token' = token
    BY <1>0, <1>9 DEF Pre, LibrarianGood, DebtsOK, Clean, Owing
  <2>2. CASE u = r.token
    <3>1. Clean(u) /\ adm[b].token = u => ~Owing(b)
      BY <1>12, <2>2
    <3> QED BY <2>1, <3>1 DEF DebtOK, Owing
  <2>3. CASE u # r.token
    <3>1. \A f \in Fields : Said(u, f)' = Said(u, f)
      BY <1>11, <2>3
    <3>2. ASSUME adm[b].token = u, Clean(u), Owing(b), NEW c \in Admins \ {b}, adm'[c].token = u
          PROVE  ~Owing(c)'
      <4>1. c # a
        BY <1>7, <1>9, <2>3, <3>2, AccessAssumption
      <4> QED BY <1>9, <2>1, <3>2, <4>1 DEF DebtOK, Owing
    <3> QED BY <2>1, <3>1, <3>2 DEF DebtOK
  <2> QED BY <2>2, <2>3
<1>14. ASSUME NEW u \in Tokens PROVE DebtOK(a, u)'
  <2>1. CASE x = NoAdmin
    BY <1>9, <2>1, NoAdminGood, AccessAssumption DEF DebtOK
  <2>2. CASE x.pc = "record" /\ x.token = r.token /\ x.todo = rest
    <3> SUFFICES ASSUME u = r.token, Clean(u)
                 PROVE  DebtOK(a, u)'
      BY <1>0, <1>9, <2>2 DEF DebtOK, Clean
    <3>1. \A b \in Admins \ {a} : adm'[b].token = u => ~Owing(b)'
      BY <1>9, <1>12 DEF Owing
    <3> HIDE DEF rest
    <3> QED BY <1>0, <1>9, <1>12, <2>2, <3>1 DEF DebtOK
  <2> QED BY <1>6, <2>1, <2>2
<1>15. ASSUME NEW u \in Tokens, Unowed(u)' PROVE \A f \in Fields : Said(u, f)' = token'[u][f]
  <2>1. token[u] # None /\ Clean(u) /\ \A b \in Admins : adm'[b].token = u => ~Owing(b)'
    BY <1>0, <1>15 DEF Unowed, Clean
  <2>2. CASE u = r.token
    <3>1. x = NoAdmin /\ rest = <<>>
      BY <1>6, <1>9, <2>1, <2>2 DEF Owing
    <3>2. \A f \in Fields : ~Tells(rest, f, token[u][f])
      BY <3>1 DEF Tells
    <3> HIDE DEF rest
    <3> QED BY <1>0, <1>12, <2>1, <2>2, <3>2
  <2>3. CASE u # r.token
    <3>1. \A b \in Admins \ {a} : adm[b].token = u => ~Owing(b)
      BY <1>9, <2>1 DEF Owing
    <3>2. Unowed(u)
      BY <2>1, <2>3, <3>1 DEF Unowed
    <3> QED BY <1>0, <1>11, <2>3, <3>2 DEF Pre, LibrarianGood, AllExplained, Explained
  <2> QED BY <2>2, <2>3
<1> QED BY <1>0, <1>5, <1>8, <1>10, <1>13, <1>14, <1>15 DEF Pre, LibrarianGood, DebtsOK, AllExplained, Explained

LEMMA AdminSteps == ASSUME IInv, NEW a \in Admins, AdminNext(a) PROVE LibrarianGood'
<1>1. CASE \/ \E u \in Users, sel \in Selections : AskAccess(a, u, sel)
           \/ ReadUser(a) \/ ValidateGrants(a) \/ ReplaceGrants(a)
           \/ \E l \in Libraries : AskRemove(a, l)
           \/ RemoveLibrary(a) \/ AskPurge(a)
  BY <1>1, AsideSteps
<1>2. ASSUME NEW t \in Tokens,
             \/ \E sc \in Capabilities, libs \in SUBSET Libraries : AskIssue(a, t, sc, libs) \/ AskRescope(a, t, sc, libs)
             \/ AskRevoke(a, t)
      PROVE  LibrarianGood'
  BY <1>2, TokenAsked
<1>3. CASE CreateToken(a)
  BY <1>3, TokenCreated
<1>4. CASE ReadBefore(a)
  BY <1>4, BeforeRead
<1>5. CASE UpdateToken(a)
  BY <1>5, TokenUpdated
<1>6. CASE ReadAfter(a)
  BY <1>6, AfterRead
<1>7. CASE RevokeToken(a)
  BY <1>7, TokenRevoked
<1>8. CASE Record(a)
  BY <1>8, NoteRecorded
<1>9. ASSUME NEW n \in 0..clock, PurgeTrail(a, n) PROVE LibrarianGood'
  BY <1>9, TrailPurged
<1> QED BY <1>1, <1>2, <1>3, <1>4, <1>5, <1>6, <1>7, <1>8, <1>9 DEF AdminNext
-----------------------------------------------------------------------------
(***************************************************************************)
(* The agent, a restart, and the steps that concern readers only.          *)
(***************************************************************************)
\* No step of an agent changes a token, and what it records says nothing of what tokens permit.
LEMMA AgentMoved ==
    ASSUME LibrarianGood, UNCHANGED <<adm, token, crossed, cut>>, LogGood', SaysTheSame,
           agent' \in [Agents -> AgentRequests], AgentsOK'
    PROVE  LibrarianGood'
<1>1. AdminsOK'
  BY DEF LibrarianGood, AdminsOK, AdminOK
<1>2. DebtsOK'
  BY DEF LibrarianGood, DebtsOK, DebtOK, Owing, Clean, SaysTheSame
<1>3. AllExplained'
  BY DEF LibrarianGood, AllExplained, Explained, Unowed, Owing, Clean, SaysTheSame
<1> QED BY <1>1, <1>2, <1>3 DEF LibrarianGood

LEMMA AgentWent ==
    ASSUME LibrarianGood, NEW g \in Agents, NEW r \in AgentRequests, agent' = [agent EXCEPT ![g] = r],
           UNCHANGED <<adm, token, crossed, cut>>, LogGood', SaysTheSame,
           r.pc # "idle" =>
              /\ r.token \in Tokens /\ r.row \in TokenRow /\ r.want \in Scopes /\ r.lib \in Libraries
              /\ ~r.stale => token[r.token] = r.row /\ r.row.active
              /\ r.pc \in {"do", "record"} => r.want \in r.row.scopes
    PROVE  LibrarianGood'
<1>1. agent \in [Agents -> AgentRequests] /\ AgentsOK /\ agent' \in [Agents -> AgentRequests]
      /\ agent'[g] = r /\ \A h \in Agents \ {g} : agent'[h] = agent[h]
  BY DEF LibrarianGood
<1>2. ASSUME NEW h \in Agents PROVE AgentOK(h)'
  <2>1. CASE h = g
    BY <1>1, <2>1 DEF AgentOK
  <2>2. CASE h # g
    <3>1. AgentOK(h) /\ agent'[h] = agent[h]
      BY <1>1, <2>2 DEF AgentsOK
    <3> QED BY <3>1 DEF AgentOK
  <2> QED BY <2>1, <2>2
<1> QED BY <1>1, <1>2, AgentMoved DEF AgentsOK

LEMMA NoAgentGood == NoAgent \in AgentRequests /\ NoAgent.pc = "idle"
BY DEF NoAgent, AgentRequests

\* An entry that says nothing of a token.
LEMMA UseRecorded ==
    ASSUME LogGood, NEW t \in Tokens, NEW sv \in {"security", "usage"}, Recorded(Entry(t, sv))
    PROVE  LogGood' /\ SaysTheSame
<1>1. Entry(t, sv) \in Event /\ \A f \in Fields : Entry(t, sv)[f] = None
  BY PlainEntry
<1> QED BY <1>1, RecordedGood DEF SaysTheSame

LEMMA AgentSteps == ASSUME IInv, NEW g \in Agents, AgentNext(g) PROVE LibrarianGood'
<1> DEFINE r == agent[g]
<1>0. LibrarianGood /\ r \in AgentRequests /\ AgentOK(g) /\ agent \in [Agents -> AgentRequests] /\ LogGood
  BY LibrarianNow DEF LibrarianGood, AgentsOK
<1>1. ASSUME NEW t \in Tokens, NEW want \in Scopes, NEW l \in Libraries, Verify(g, t, want, l)
      PROVE  LibrarianGood'
  <2> DEFINE x == [NoAgent EXCEPT !.pc = "scope", !.token = t, !.row = token[t], !.want = want, !.lib = l]
  <2>1. token[t] \in TokenRow /\ token[t].active
    BY <1>0, <1>1 DEF LibrarianGood, Verify, Authentic
  <2>2. /\ x \in AgentRequests /\ x.pc = "scope" /\ x.token = t /\ x.row = token[t] /\ x.want = want
        /\ x.lib = l
    BY <2>1 DEF NoAgent, AgentRequests
  <2>3. agent' = [agent EXCEPT ![g] = x] /\ UNCHANGED <<adm, token, log, crossed, cut>>
    BY <1>1 DEF Verify, Go
  <2> HIDE DEF x
  <2>4. LogGood' /\ SaysTheSame
    BY <1>0, <2>3, LogSame
  <2> QED BY <1>0, <2>1, <2>2, <2>3, <2>4, AgentWent
<1>2. ASSUME Go(g, NoAgent), UNCHANGED <<adm, token, crossed, cut>>, LogGood', SaysTheSame
      PROVE  LibrarianGood'
  BY <1>0, <1>2, NoAgentGood, AgentWent DEF Go
<1>3. CASE RequireScope(g)
  <2>1. r.pc = "scope" /\ UNCHANGED <<adm, token, crossed, cut>>
    BY <1>3 DEF RequireScope, AgentStep
  <2>2. CASE r.want \in r.row.scopes
    <3> DEFINE x == [r EXCEPT !.pc = "do"]
    <3>1. /\ x \in AgentRequests /\ x.pc = "do" /\ x.token = r.token /\ x.row = r.row /\ x.want = r.want
          /\ x.lib = r.lib /\ x.stale = r.stale
      BY <1>0 DEF AgentRequests
    <3>2. agent' = [agent EXCEPT ![g] = x] /\ UNCHANGED log
      BY <1>3, <2>2 DEF RequireScope, Go
    <3> HIDE DEF x
    <3>3. LogGood' /\ SaysTheSame
      BY <1>0, <3>2, LogSame
    <3> QED BY <1>0, <2>1, <2>2, <3>1, <3>2, <3>3, AgentWent DEF AgentOK
  <2>3. CASE r.want \notin r.row.scopes
    <3>1. Go(g, NoAgent) /\ Recorded(Entry(r.token, "security"))
      BY <1>3, <2>3 DEF RequireScope
    <3>2. r.token \in Tokens
      BY <1>0, <2>1 DEF AgentOK
    <3>3. LogGood' /\ SaysTheSame
      BY <1>0, <3>1, <3>2, UseRecorded
    <3> QED BY <1>2, <2>1, <3>1, <3>3
  <2> QED BY <2>2, <2>3
<1>4. CASE RecordUse(g)
  <2>1. r.pc = "record" /\ UNCHANGED <<adm, token, crossed, cut>> /\ Go(g, NoAgent)
        /\ Recorded(Entry(r.token, "usage"))
    BY <1>4 DEF RecordUse, AgentStep
  <2>2. r.token \in Tokens
    BY <1>0, <2>1 DEF AgentOK
  <2>3. LogGood' /\ SaysTheSame
    BY <1>0, <2>1, <2>2, UseRecorded
  <2> QED BY <1>2, <2>1, <2>3
<1>5. ASSUME r.pc = "do", UNCHANGED <<adm, token, log, crossed, cut>>, Find(g) \/ Try(g) \/ Go(g, NoAgent)
      PROVE  LibrarianGood'
  <2>1. LogGood' /\ SaysTheSame
    BY <1>0, <1>5, LogSame
  <2>2. CASE Try(g)
    <3> DEFINE x == [r EXCEPT !.pc = "record"]
    <3>1. /\ x \in AgentRequests /\ x.pc = "record" /\ x.token = r.token /\ x.row = r.row /\ x.want = r.want
          /\ x.lib = r.lib /\ x.stale = r.stale
      BY <1>0 DEF AgentRequests
    <3>2. agent' = [agent EXCEPT ![g] = x]
      BY <2>2 DEF Try, Go
    <3> HIDE DEF x
    <3> QED BY <1>0, <1>5, <2>1, <3>1, <3>2, AgentWent DEF AgentOK
  <2> QED BY <1>2, <1>5, <2>1, <2>2 DEF Find
<1>6. CASE \/ ResolveTitle(g) \/ ReadInventory(g) \/ ListLibraries(g) \/ SearchMetadata(g)
           \/ StageUpload(g) \/ CommitUpload(g) \/ DiscardUpload(g) \/ ReadPending(g)
  <2>1. r.pc = "do" /\ UNCHANGED <<adm, token, log, crossed, cut>>
    BY <1>6 DEF ResolveTitle, ReadInventory, ListLibraries, SearchMetadata, StageUpload, CommitUpload,
                DiscardUpload, ReadPending, Does, AgentStep
  <2>2. Find(g) \/ Try(g) \/ Go(g, NoAgent)
    BY <1>6 DEF ResolveTitle, Resolve, ReadInventory, ListLibraries, SearchMetadata, StageUpload, CommitUpload,
                DiscardUpload, ReadPending
  <2> QED BY <1>5, <2>1, <2>2
<1> QED BY <1>1, <1>3, <1>4, <1>6 DEF AgentNext

LEMMA Restarted == ASSUME IInv, Restart PROVE LibrarianGood'
<1>0. LibrarianGood /\ \A a \in Admins : adm[a] \in AdminRequests
  BY LibrarianNow DEF LibrarianGood
<1>1. /\ adm' = [a \in Admins |-> NoAdmin] /\ agent' = [g \in Agents |-> NoAgent]
      /\ cut' = cut \cup {t \in Tokens : \E a \in Admins : adm[a].token = t}
      /\ UNCHANGED <<token, log, crossed>>
  BY DEF Restart
<1>2. LogGood' /\ SaysTheSame
  BY <1>0, <1>1, LogSame DEF LibrarianGood
<1>3. adm' \in [Admins -> AdminRequests] /\ agent' \in [Agents -> AgentRequests] /\ cut' \subseteq Tokens
      /\ \A a \in Admins : adm'[a] = NoAdmin
  BY <1>0, <1>1, NoAdminGood, NoAgentGood DEF LibrarianGood
<1>4. AdminsOK' /\ AgentsOK'
  BY <1>1, <1>3, NoAdminGood, NoAgentGood DEF AdminsOK, AdminOK, AgentsOK, AgentOK
<1>5. DebtsOK'
  BY <1>3, NoAdminGood, AccessAssumption DEF DebtsOK, DebtOK
<1>6. ASSUME NEW t \in Tokens, Unowed(t)' PROVE \A f \in Fields : Said(t, f)' = token'[t][f]
  <2>1. token[t] # None /\ Clean(t) /\ \A a \in Admins : adm[a].token # t
    BY <1>1, <1>6 DEF Unowed, Clean
  <2>2. Unowed(t)
    BY <2>1 DEF Unowed
  <2> QED BY <1>0, <1>1, <1>2, <2>2 DEF LibrarianGood, AllExplained, Explained, SaysTheSame
<1> QED BY <1>0, <1>1, <1>2, <1>3, <1>4, <1>5, <1>6 DEF LibrarianGood, AllExplained, Explained

LEMMA LibrarianSame == ASSUME IInv, UNCHANGED <<librarian, adm>> PROVE LibrarianGood'
<1>1. LibrarianGood /\ agent' = agent
  BY LibrarianNow DEF librarian
<1>2. LogGood' /\ SaysTheSame
  BY <1>1, LogSame DEF LibrarianGood, librarian
<1>3. agent' \in [Agents -> AgentRequests] /\ AgentsOK'
  BY <1>1 DEF LibrarianGood, AgentsOK, AgentOK, librarian
<1> QED BY <1>1, <1>2, <1>3, AgentMoved DEF librarian

LEMMA LibrarianStep == ASSUME IInv, Next PROVE LibrarianGood'
<1>1. ASSUME NEW a \in Admins, AdminNext(a) PROVE LibrarianGood'
  BY <1>1, AdminSteps
<1>2. ASSUME NEW g \in Agents, AgentNext(g) PROVE LibrarianGood'
  BY <1>2, AgentSteps
<1>3. CASE Restart
  BY <1>3, Restarted
<1>4. ASSUME NEW u \in Users, NEW enabled \in BOOLEAN, NEW admin \in BOOLEAN, SetUser(u, enabled, admin)
      PROVE  LibrarianGood'
  BY <1>4, LibrarianSame DEF SetUser
<1>5. ASSUME NEW l \in Libraries, AddLibrary(l) \/ Connect(l) PROVE LibrarianGood'
  BY <1>5, LibrarianSame DEF AddLibrary, Connect
<1>6. ASSUME NEW s \in Series, Index(s) \/ SetPrivate(s) PROVE LibrarianGood'
  BY <1>6, LibrarianSame DEF Index, SetPrivate
<1> QED BY <1>1, <1>2, <1>3, <1>4, <1>5, <1>6 DEF Next
-----------------------------------------------------------------------------
(***************************************************************************)
(* What holds in every state.                                              *)
(***************************************************************************)
LEMMA Counted == ASSUME IInv, Next PROVE (ops \in 0..MaxOps /\ restarts \in 0..MaxRestarts)'
<1>0. ops \in 0..MaxOps /\ restarts \in 0..MaxRestarts /\ MaxOps \in Nat /\ MaxRestarts \in Nat
  BY AccessAssumption DEF IInv, TypeOK
<1>1. CASE Op /\ UNCHANGED restarts
  BY <1>0, <1>1 DEF Op
<1>2. CASE UNCHANGED <<ops, restarts>>
  BY <1>0, <1>2
<1>3. CASE restarts < MaxRestarts /\ restarts' = restarts + 1 /\ UNCHANGED ops
  BY <1>0, <1>3
<1>4. ASSUME NEW a \in Admins, AdminNext(a)
      PROVE  (Op /\ UNCHANGED restarts) \/ UNCHANGED <<ops, restarts>>
  BY <1>4 DEF AdminNext, AskAccess, ReadUser, ValidateGrants, ReplaceGrants, AskRemove, RemoveLibrary, AskIssue,
     AskRescope, AskRevoke, CreateToken, ReadBefore, UpdateToken, ReadAfter, RevokeToken, AskPurge, Record,
     PurgeTrail, Begin, TokenStep, Continue
<1>5. ASSUME NEW g \in Agents, AgentNext(g)
      PROVE  (Op /\ UNCHANGED restarts) \/ UNCHANGED <<ops, restarts>>
  BY <1>5 DEF AgentNext, Verify, RequireScope, ResolveTitle, ReadInventory, ListLibraries, SearchMetadata,
     StageUpload, CommitUpload, DiscardUpload, ReadPending, RecordUse, AgentStep, Does, Continue
<1>6. ASSUME ~(\E a \in Admins : AdminNext(a)), ~(\E g \in Agents : AgentNext(g)), ~Restart
      PROVE  Op /\ UNCHANGED restarts
  BY <1>6 DEF Next, SetUser, AddLibrary, Connect, Index, SetPrivate
<1> QED BY <1>1, <1>2, <1>3, <1>4, <1>5, <1>6 DEF Restart

LEMMA Start == Init => IInv
<1> SUFFICES ASSUME Init PROVE IInv
  OBVIOUS
<1>1. /\ \A a \in Admins : adm[a] = NoAdmin
      /\ \A g \in Agents : agent[g] = NoAgent
      /\ \A t \in Tokens : token[t] = None
      /\ \A u \in Users : grants[u] = {} /\ asked[u] = {}
      /\ trail = <<>> /\ clock = 0
  BY DEF Init
<1>2. Usage(trail) = {} /\ DOMAIN trail = {} /\ trail \in [DOMAIN trail -> Event]
  BY <1>1 DEF Usage
<1>3. Cardinality(Usage(trail)) <= TrailBound
  BY <1>2, FS_EmptySet, AccessAssumption
<1>4. TypeOK
  BY <1>1, <1>2, <1>3, NoAdminGood, NoAgentGood, AccessAssumption DEF Init, TypeOK
<1>5. AdminsOK /\ AgentsOK
  BY <1>1, NoAdminGood, NoAgentGood DEF AdminsOK, AdminOK, AgentsOK, AgentOK
<1>6. DebtsOK /\ AllExplained
  BY <1>1, NoAdminGood, AccessAssumption DEF DebtsOK, DebtOK, AllExplained, Explained, Unowed
<1>7. GrantsShaped /\ GrantsAsAsked /\ UsageIsSilent
  BY <1>1, <1>2 DEF GrantsShaped, GrantsAsAsked, UsageIsSilent
<1> QED BY <1>4, <1>5, <1>6, <1>7 DEF IInv

\* The invariant: what the properties below rest on.
THEOREM Invariant == Spec => []IInv
<1>1. Init => IInv
  BY Start
<1>2. IInv /\ [Next]_vars => IInv'
  <2> SUFFICES ASSUME IInv, [Next]_vars PROVE IInv'
    OBVIOUS
  <2>1. CASE Next
    <3>1. ReadersGood' /\ LibrarianGood' /\ (ops \in 0..MaxOps /\ restarts \in 0..MaxRestarts)'
      BY <2>1, ReadersStep, LibrarianStep, Counted
    <3> QED BY <3>1 DEF IInv, TypeOK, ReadersGood, ReadersType, LibrarianGood, LogGood, LogType
  <2>2. CASE UNCHANGED vars
    <3>1. ReadersGood' /\ LibrarianGood'
      BY <2>2, ReadersSame, LibrarianSame DEF vars, readers, librarian, IInv, TypeOK, ReadersGood, ReadersType, log
    <3>2. (ops \in 0..MaxOps /\ restarts \in 0..MaxRestarts)'
      BY <2>2 DEF vars, IInv, TypeOK
    <3> QED BY <3>1, <3>2 DEF IInv, TypeOK, ReadersGood, ReadersType, LibrarianGood, LogGood, LogType
  <2> QED BY <2>1, <2>2
<1> QED BY <1>1, <1>2, PTL DEF Spec

\* Requests, tokens, the agent's requests and the trail have the form the handlers expect, and
\* the trail keeps at most as many entries of use as librarian_events_bound allows.
THEOREM TypeCorrect == Spec => []TypeOK
<1>1. IInv => TypeOK
  BY DEF IInv
<1> QED BY <1>1, Invariant, PTL

\* A reader's grants cover the series that were asked for, and more only for a request that left out
\* the content type (AccessService.replace), whatever the sets of grants that are asked for, and
\* whatever removals come between its check and its writing.
THEOREM GrantsMeanWhatWasAsked == Spec => []GrantsAsAsked
<1>1. IInv => GrantsAsAsked
  BY DEF IInv
<1> QED BY <1>1, Invariant, PTL

\* What the agent does its token permits, unless the token changed under the request (librarian_identity).
THEOREM AgentStaysCurrent == Spec => []AgentCurrent
<1>1. IInv => AgentCurrent
  <2> SUFFICES ASSUME IInv, NEW g \in Agents, agent[g].pc \in {"do", "record"}, ~agent[g].stale
               PROVE  LET row == token[agent[g].token]
                      IN  row.active /\ agent[g].want \in row.scopes
    BY DEF AgentCurrent
  <2>1. AgentOK(g)
    BY DEF IInv, AgentsOK
  <2> QED BY <2>1 DEF AgentOK
<1> QED BY <1>1, Invariant, PTL

\* The trail says of a token what its row says, however it was trimmed and purged (LibrarianAuth).
THEOREM TrailAlwaysExplains == Spec => []TrailExplains
<1>1. IInv => TrailExplains
  <2> SUFFICES ASSUME IInv, NEW t \in Tokens, token[t] # None, Quiet(t), t \notin crossed \cup cut
               PROVE  \A f \in {"scopes", "libs", "active"} : Said(t, f) = token[t][f]
    BY DEF TrailExplains
  <2>1. Unowed(t)
    BY DEF Unowed, Clean, Quiet
  <2> QED BY <2>1 DEF IInv, AllExplained, Explained, Fields
<1> QED BY <1>1, Invariant, PTL
-----------------------------------------------------------------------------
(***************************************************************************)
(* Every listing shows the same.                                           *)
(***************************************************************************)
Expected(u) == {s \in indexed : CanRead(u, s) /\ Reachable(s)}

LEMMA VisibleIs ==
    Visible("all") = Series /\ Visible("private") = private /\ Visible("public") = Series \ private
BY DEF Visible

\* The queries and can_read judge alike, as long as a grant of a library names no series.
LEMMA ScopeIsPolicy ==
    ASSUME GrantsShaped, NEW u \in Users
    PROVE  \A s \in Series : s \in ReadScope(u) <=> CanRead(u, s)
<1>1. ASSUME NEW g \in grants[u], NEW s \in Series PROVE Covers(g, s) <=> GrantMatches(g, s)
  BY DEF GrantsShaped, Covers, GrantMatches
<1> QED BY <1>1 DEF ReadScope, CanRead

\* Each listing, in terms of what is expected.
LEMMA ListingsAre ==
    ASSUME GrantsShaped, indexed \subseteq Series, private \subseteq Series, NEW u \in Users,
           NEW which \in {"all", "public", "private"}
    PROVE  /\ CatalogSeries(u, which) = Expected(u) \cap Visible(which)
           /\ Publications(u, which) = Expected(u) \cap Visible(which)
           /\ \A l : SearchSource(u, l, which) = {s \in Expected(u) \cap Visible(which) : l \in {None, LibraryOf[s]}}
           /\ \A l : PublicationFeed(u, l, which) = {s \in Expected(u) \cap Visible(which) : l \in {None, LibraryOf[s]}}
           /\ Expected(u) \cap Visible(which) \subseteq Grouped(u, which)
           /\ \A s \in Grouped(u, which) : Reachable(s) => s \in Expected(u) \cap Visible(which)
           /\ Expected(u) \subseteq Series
           /\ Expected(u) \subseteq indexed \cap ReadScope(u)
<1>1. Visible(which) \subseteq Series
  BY VisibleIs
<1>2. \A s \in Series : s \in ReadScope(u) <=> CanRead(u, s)
  BY ScopeIsPolicy
<1>3. \A s : s \in Expected(u) \cap Visible(which)
              <=> s \in indexed /\ s \in Visible(which) /\ s \in ReadScope(u) /\ Reachable(s)
  BY <1>1, <1>2 DEF Expected
<1>4. CatalogSeries(u, which) = Expected(u) \cap Visible(which)
  BY <1>3 DEF CatalogSeries, Reachable
<1>5. Publications(u, which) = Expected(u) \cap Visible(which)
  BY <1>3 DEF Publications, PublicationFilter
<1>6. ASSUME NEW l
      PROVE  /\ SearchSource(u, l, which) = {s \in Expected(u) \cap Visible(which) : l \in {None, LibraryOf[s]}}
             /\ PublicationFeed(u, l, which) = {s \in Expected(u) \cap Visible(which) : l \in {None, LibraryOf[s]}}
  BY <1>3, <1>5 DEF SearchSource, PublicationFeed
<1>7. /\ Expected(u) \cap Visible(which) \subseteq Grouped(u, which)
      /\ \A s \in Grouped(u, which) : Reachable(s) => s \in Expected(u) \cap Visible(which)
  BY <1>3 DEF Grouped
<1>8. Expected(u) \subseteq Series /\ Expected(u) \subseteq indexed \cap ReadScope(u)
  BY <1>2 DEF Expected
<1> QED BY <1>4, <1>5, <1>6, <1>7, <1>8

\* The links of the web pages lead to every series of a collection, and no page on the way is empty.
LEMMA BrowsingFinds ==
    ASSUME GrantsShaped, indexed \subseteq Series, private \subseteq Series, NEW u \in Users,
           NEW which \in {"public", "private"}
    PROVE  /\ Browsing(u, which) = CatalogSeries(u, which)
           /\ \A s \in CatalogSeries(u, which) : LibraryOf[s] \in LibraryShelves(u, which)
           /\ \A l \in LibraryShelves(u, which) : \A c \in LibraryPage(u, l, which) : CategoryPage(u, l, c, which) # {}
<1> DEFINE all == CatalogSeries(u, which)
<1>1. /\ all \subseteq Grouped(u, which)
      /\ \A s \in Grouped(u, which) : Reachable(s) => s \in all
      /\ \A s \in all : Reachable(s)
  BY ListingsAre DEF Expected
<1>2. ASSUME NEW s \in all
      PROVE  /\ LibraryOf[s] \in LibraryShelves(u, which)
             /\ CategoryOf[s] \in LibraryPage(u, LibraryOf[s], which)
             /\ s \in CategoryPage(u, LibraryOf[s], CategoryOf[s], which)
  <2>1. LibraryOf[s] \in NavigationRoot(u, which) /\ LibraryOf[s] \in managed \cap online
    BY <1>1 DEF NavigationRoot, Reachable
  <2>2. CategoryOf[s] \in CategoryEntries(u, LibraryOf[s], which)
    BY <1>1 DEF CategoryEntries, In
  <2>3. s \in InCategory(all, LibraryOf[s], CategoryOf[s])
    BY DEF InCategory, In
  <2> QED BY <2>1, <2>2, <2>3 DEF LibraryShelves, LibraryPage, CategoryPage
<1>3. ASSUME NEW l, NEW c PROVE CategoryPage(u, l, c, which) \subseteq all
  BY DEF CategoryPage, InCategory, In
<1>4. ASSUME NEW l \in LibraryShelves(u, which), NEW c \in LibraryPage(u, l, which)
      PROVE  CategoryPage(u, l, c, which) # {}
  <2>1. l \in managed /\ l \in online /\ c \in CategoryEntries(u, l, which)
    BY DEF LibraryShelves, LibraryPage
  <2>2. PICK s \in Grouped(u, which) : LibraryOf[s] = l /\ CategoryOf[s] = c
    BY <2>1 DEF CategoryEntries, In
  <2>3. s \in InCategory(all, l, c)
    BY <1>1, <2>1, <2>2 DEF Reachable, InCategory, In
  <2> QED BY <2>1, <2>3 DEF CategoryPage
<1> HIDE DEF all
<1>5. \A s : s \in Browsing(u, which) <=>
        \E l \in LibraryShelves(u, which) : \E c \in LibraryPage(u, l, which) : s \in CategoryPage(u, l, c, which)
  BY DEF Browsing
<1>6. Browsing(u, which) = all
  BY <1>2, <1>3, <1>5
<1> QED BY <1>2, <1>4, <1>6 DEF all

\* The series pages, the feeds, the search, its counts and the reader agree on what a reader may see
\* ("a count is never an invitation to an empty page", search_facets).
THEOREM ListingsAlwaysAgree == Spec => []ListingsAgree
<1>1. IInv => ListingsAgree
  <2> SUFFICES ASSUME IInv, NEW u \in Users
      PROVE  LET expected == Expected(u)
             IN  /\ CatalogSeries(u, "all") = expected
                 /\ SearchPage(u, None, "all", TRUE) = expected /\ SearchSuggestions(u) = expected
                 /\ PublicationFeed(u, None, "public") \cup PublicationFeed(u, None, "private") = expected
                 /\ CatalogSeries(u, "public") \cap CatalogSeries(u, "private") = {}
                 /\ SeriesPage(u) = expected /\ expected \subseteq ReaderContext(u)
                 /\ \A which \in {"public", "private"} :
                       /\ Browsing(u, which) = CatalogSeries(u, which)
                       /\ \A l \in Libraries :
                             LET found == SearchPage(u, l, which, FALSE)
                             IN  /\ found = PublicationFeed(u, l, which)
                                 /\ LibraryFacet(u, l, which) = Cardinality(found)
                                 /\ CollectionFacet(u, l, which) = Cardinality(found)
                                 /\ found # {} => l \in LibraryShelves(u, which)
                       /\ \A l \in LibraryShelves(u, which) : \A c \in LibraryPage(u, l, which) :
                             CategoryPage(u, l, c, which) # {}
    BY DEF ListingsAgree, Expected
  <2> DEFINE expected == Expected(u)
  <2>0. GrantsShaped /\ indexed \subseteq Series /\ private \subseteq Series
    BY DEF IInv, TypeOK
  <2>1. /\ CatalogSeries(u, "all") = expected
        /\ CatalogSeries(u, "public") = expected \ private /\ CatalogSeries(u, "private") = expected \cap private
        /\ \A l : SearchSource(u, l, "all") = {s \in expected : l \in {None, LibraryOf[s]}}
        /\ expected \subseteq Series /\ expected \subseteq indexed \cap ReadScope(u)
    <3>1. expected \subseteq Series /\ expected \subseteq indexed \cap ReadScope(u)
      BY <2>0, ListingsAre
    <3>2. /\ expected \cap Visible("all") = expected
          /\ expected \cap Visible("public") = expected \ private
          /\ expected \cap Visible("private") = expected \cap private
      BY <3>1, VisibleIs
    <3>3. \A which \in {"all", "public", "private"} : CatalogSeries(u, which) = expected \cap Visible(which)
      BY <2>0, ListingsAre
    <3>4. \A l : SearchSource(u, l, "all") = {s \in expected \cap Visible("all") : l \in {None, LibraryOf[s]}}
      BY <2>0, ListingsAre
    <3> HIDE DEF expected
    <3>5. \A l : SearchSource(u, l, "all") = {s \in expected : l \in {None, LibraryOf[s]}}
      BY <3>2, <3>4
    <3> QED BY <3>1, <3>2, <3>3, <3>5
  <2>2. /\ PublicationFeed(u, None, "public") = expected \ private
        /\ PublicationFeed(u, None, "private") = expected \cap private
    BY <2>0, <2>1, VisibleIs, ListingsAre
  <2>3. SearchSuggestions(u) = expected /\ SearchPage(u, None, "all", TRUE) = expected
    BY <2>1 DEF SearchSuggestions, SearchPage, SearchCandidates
  <2>4. SeriesPage(u) = expected /\ expected \subseteq ReaderContext(u)
    BY <2>1 DEF SeriesPage, PublicationsInSeries, ReaderContext, PublicationById
  <2>5. ASSUME NEW which \in {"public", "private"}, NEW l \in Libraries
        PROVE  LET found == SearchPage(u, l, which, FALSE)
               IN  /\ found = PublicationFeed(u, l, which)
                   /\ LibraryFacet(u, l, which) = Cardinality(found)
                   /\ CollectionFacet(u, l, which) = Cardinality(found)
                   /\ found # {} => l \in LibraryShelves(u, which)
    <3> DEFINE shown == {s \in expected \cap Visible(which) : LibraryOf[s] = l}
    <3>0. l # None /\ Visible(which) \subseteq Series
      BY AccessAssumption, <2>0, VisibleIs
    <3>1. /\ SearchSource(u, l, which) = shown /\ PublicationFeed(u, l, which) = shown
          /\ SearchSource(u, None, which) = expected \cap Visible(which)
          /\ CatalogSeries(u, which) = expected \cap Visible(which)
      BY <2>0, <3>0, ListingsAre
    <3>2. SearchPage(u, l, which, FALSE) = shown
      BY <2>1, <3>0, <3>1 DEF SearchPage, SearchCandidates
    <3>3. LibraryFacet(u, l, which) = Cardinality(shown)
      BY <3>1 DEF LibraryFacet
    <3>4. SearchSource(u, l, "all") \cap Visible(which) = shown
      BY <2>1, <3>0
    <3>5. CollectionFacet(u, l, which) = Cardinality(shown)
      BY <3>4 DEF CollectionFacet
    <3>6. ASSUME NEW s \in shown PROVE l \in LibraryShelves(u, which)
      BY <2>0, <3>1, BrowsingFinds
    <3> HIDE DEF shown
    <3> QED BY <3>1, <3>2, <3>3, <3>5, <3>6
  <2>6. \A which \in {"public", "private"} :
           /\ Browsing(u, which) = CatalogSeries(u, which)
           /\ \A l \in LibraryShelves(u, which) : \A c \in LibraryPage(u, l, which) : CategoryPage(u, l, c, which) # {}
    BY <2>0, BrowsingFinds
  <2>7. PublicationFeed(u, None, "public") \cup PublicationFeed(u, None, "private") = expected
        /\ CatalogSeries(u, "public") \cap CatalogSeries(u, "private") = {}
    BY <2>1, <2>2
  <2> QED BY <2>1, <2>3, <2>4, <2>5, <2>6, <2>7
<1> QED BY <1>1, Invariant, PTL
=============================================================================
