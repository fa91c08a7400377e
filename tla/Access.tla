------------------------------- MODULE Access -------------------------------
(***************************************************************************)
(* Who may read and change what: readers' grants and what each listing     *)
(* shows of the catalog (authorization.py, the queries of database.py and  *)
(* the handlers in front of them), and the librarian's tokens with the     *)
(* trail of what was granted and done (librarian.py, http_api.py).         *)
(*                                                                         *)
(* Handlers run on threads and use several transactions each; a request is *)
(* a record with a pc, and every step is one transaction.  Names, hashes,  *)
(* summaries and times are left out; the trail is in the order in which it *)
(* was written.  Changes of accounts and of mounts are single steps here:  *)
(* Accounts and Catalog have them in full.                                 *)
(***************************************************************************)
EXTENDS Naturals, FiniteSets, Sequences

CONSTANTS
    Users,                             \* accounts
    Libraries, Categories, Series,
    LibraryOf, CategoryOf,             \* of a series
    Selections,                        \* sets of grants that may be asked for
    Tokens,                            \* librarian tokens
    Capabilities,                      \* sets of scopes that a token may be given
    Admins, Agents,                    \* requests that may run together
    TrailBound, TrimBatch,             \* librarian_events_bound
    MaxOps,                            \* bound: requests and changes
    MaxRestarts,                       \* bound: restarts
    None

Scopes == {"catalog:read", "metadata:read", "ingest:stage", "ingest:commit"}

Grants == [lib : Libraries, cat : Categories \cup {None}, series : Series \cup {None}]

ASSUME AccessAssumption ==
    /\ LibraryOf \in [Series -> Libraries] /\ CategoryOf \in [Series -> Categories]
    /\ Selections \subseteq SUBSET Grants
    /\ Capabilities \subseteq (SUBSET Scopes) \ {{}}
    /\ TrailBound \in Nat /\ TrimBatch \in Nat \ {0} /\ MaxOps \in Nat /\ MaxRestarts \in Nat
    /\ None \notin Users \cup Libraries \cup Categories \cup Series \cup Tokens
    /\ None \notin BOOLEAN /\ \A ss \in (SUBSET Scopes) \cup (SUBSET Libraries) : ss # None
    /\ None \notin [scopes : SUBSET Scopes, libs : SUBSET Libraries, active : BOOLEAN]

VARIABLES
    user,      \* users: [enabled, admin]
    grants,    \* access_grants of each user
    managed,   \* the libraries that are enabled
    online,    \* the libraries whose mount is connected
    indexed,   \* the series with a volume in the catalog
    private,   \* catalog_series.is_private
    token,     \* librarian_tokens: [scopes, libs, active], or None
    trail,     \* librarian_events, by the time each was written at
    clock,     \* the time at which the last one was written
    adm,       \* administrators' requests
    agent,     \* the agent's requests
    ops, restarts,
    asked,     \* history: the grants that the last accepted request for each user named
    raced,     \* history: libraries removed between the check of a grant and its writing
    crossed,   \* history: tokens that two requests were changing together
    cut        \* history: tokens of requests that a restart ended

vars == <<user, grants, managed, online, indexed, private, token, trail, clock, adm, agent,
          ops, restarts, asked, raced, crossed, cut>>

readers == <<user, grants, managed, online, indexed, private, asked, raced>>
log == <<trail, clock>>
librarian == <<token, log, agent, crossed, cut>>

TokenRow == [scopes : SUBSET Scopes, libs : SUBSET Libraries, active : BOOLEAN]

\* What an entry of the trail says of a token; None is what it does not speak of.
Event == [token : Tokens \cup {None}, severity : {"security", "usage"},
          scopes : (SUBSET Scopes) \cup {None}, libs : (SUBSET Libraries) \cup {None},
          active : BOOLEAN \cup {None}]

Entry(t, severity) == [token |-> t, severity |-> severity, scopes |-> None, libs |-> None, active |-> None]

NoAdmin == [pc |-> "idle", op |-> None, user |-> None, sel |-> {}, lib |-> None, token |-> None,
            scopes |-> {}, libs |-> {}, before |-> None, todo |-> <<>>]

AdminRequests ==
    [pc : {"idle", "user", "validate", "write", "delete", "create", "before", "update",
           "after", "revoke", "purge", "record"},
     op : {None, "access", "remove", "issue", "rescope", "revoke", "purge"},
     user : Users \cup {None}, sel : SUBSET Grants, lib : Libraries \cup {None},
     token : Tokens \cup {None}, scopes : SUBSET Scopes, libs : SUBSET Libraries,
     before : TokenRow \cup {None}, todo : Seq(Event)]

NoAgent == [pc |-> "idle", token |-> None, row |-> None, want |-> None, lib |-> None, stale |-> FALSE]

AgentRequests ==
    [pc : {"idle", "scope", "do", "record"}, token : Tokens \cup {None},
     row : TokenRow \cup {None}, want : Scopes \cup {None}, lib : Libraries \cup {None},
     stale : BOOLEAN]

Usage(tr) == {i \in DOMAIN tr : tr[i].severity = "usage"}

TypeOK ==
    /\ user \in [Users -> [enabled : BOOLEAN, admin : BOOLEAN]]
    /\ grants \in [Users -> SUBSET Grants]
    /\ managed \subseteq Libraries /\ online \subseteq Libraries
    /\ indexed \subseteq Series /\ private \subseteq Series
    /\ token \in [Tokens -> TokenRow \cup {None}]
    /\ clock \in Nat /\ DOMAIN trail \subseteq 1..clock /\ trail \in [DOMAIN trail -> Event]
    /\ Cardinality(Usage(trail)) <= TrailBound
    /\ adm \in [Admins -> AdminRequests] /\ agent \in [Agents -> AgentRequests]
    /\ ops \in 0..MaxOps /\ restarts \in 0..MaxRestarts
    /\ asked \in [Users -> SUBSET Grants] /\ raced \subseteq Libraries
    /\ crossed \subseteq Tokens /\ cut \subseteq Tokens

Op == ops < MaxOps /\ ops' = ops + 1

-----------------------------------------------------------------------------
(***************************************************************************)
(* What a reader is shown.                                                 *)
(***************************************************************************)
\* _scope_predicate: of an administrator everything; of a reader what a grant covers.
Covers(g, s) ==
    /\ g.lib = LibraryOf[s]
    /\ g.cat = None \/ (g.cat = CategoryOf[s] /\ (g.series = None \/ g.series = s))

\* GrantPolicy.read_scope, as a set of series.
ReadScope(u) ==
    {s \in Series : user[u].enabled /\ (user[u].admin \/ \E g \in grants[u] : Covers(g, s))}

\* _grant_matches.
GrantMatches(g, s) ==
    /\ g.lib = LibraryOf[s]
    /\ g.cat # None => g.cat = CategoryOf[s]
    /\ g.series # None => g.series = s

\* GrantPolicy.can_read.
CanRead(u, s) == user[u].enabled /\ (user[u].admin \/ \E g \in grants[u] : GrantMatches(g, s))

\* _visibility_predicate.
Visible(which) ==
    CASE which = "all" -> Series [] which = "private" -> private [] which = "public" -> Series \ private

\* _REACHABLE: the library is managed and its mount connected.
Reachable(s) == LibraryOf[s] \in managed /\ LibraryOf[s] \in online

PublicationFilterAnywhere(u, which) == Visible(which) \cap ReadScope(u)

\* _publication_filter.
PublicationFilter(u, which) == {s \in Visible(which) : Reachable(s) /\ s \in ReadScope(u)}

\* publications: the OPDS publication feed and the newest volumes.
Publications(u, which) == indexed \cap PublicationFilter(u, which)

\* opds_publications: the feed, of one library or (None) of all.
PublicationFeed(u, l, which) == {s \in Publications(u, which) : l \in {None, LibraryOf[s]}}

\* catalog_series: the series pages, and one series by its id.
CatalogSeries(u, which) ==
    {s \in Visible(which) : /\ LibraryOf[s] \in managed \cap online
                            /\ s \in indexed /\ s \in ReadScope(u)}

\* _search_source, with a library (or None) and a collection that were chosen as filters.
SearchSource(u, l, which) ==
    {s \in indexed \cap Visible(which) \cap ReadScope(u) : Reachable(s) /\ l \in {None, LibraryOf[s]}}

\* search_candidates; _documents asks catalog_series for each of them again.
SearchCandidates(u, l, which) == SearchSource(u, l, which) \cap CatalogSeries(u, "all")

\* CatalogSearchService.search, with or without terms (that every series matches): it answers
\* nothing if there is nothing to look for.
SearchPage(u, l, which, terms) ==
    IF ~terms /\ l = None /\ which = "all" THEN {} ELSE SearchCandidates(u, l, which)

\* search_suggestions: no filters.
SearchSuggestions(u) == SearchSource(u, None, "all")

\* search_facets: how many series choosing a library, or a collection, would give, with
\* the other filters as they are.
LibraryFacet(u, l, which) == Cardinality({s \in SearchSource(u, None, which) : LibraryOf[s] = l})

CollectionFacet(u, l, which) == Cardinality(SearchSource(u, l, "all") \cap Visible(which))

\* _grouped, which libraries, categories and series share.
Grouped(u, which) == {s \in indexed \cap Visible(which) : s \in ReadScope(u)}

In(ss, l) == {s \in ss : LibraryOf[s] = l}

InCategory(ss, l, c) == {s \in In(ss, l) : CategoryOf[s] = c}

\* libraries: what the OPDS catalog starts from, public or private.
NavigationRoot(u, which) == {LibraryOf[s] : s \in Grouped(u, which)}

\* _category_entries and _series_entries of the OPDS navigation.
CategoryEntries(u, l, which) == {CategoryOf[s] : s \in In(Grouped(u, which), l)}

SeriesEntries(u, l, c, which) == InCategory(Grouped(u, which), l, c)

\* What a client finds that follows the links of the OPDS navigation.
Navigation(u, which) ==
    UNION {UNION {SeriesEntries(u, l, c, which) : c \in CategoryEntries(u, l, which)}
             : l \in NavigationRoot(u, which)}

\* The web pages: the shelves are only of libraries that are managed and connected ...
LibraryShelves(u, which) == NavigationRoot(u, which) \cap managed \cap online

\* ... a library's page has its categories, whatever became of the library ...
LibraryPage(u, l, which) ==
    IF l \in NavigationRoot(u, which) THEN CategoryEntries(u, l, which) ELSE {}

\* ... and the page of a category its series.
CategoryPage(u, l, c, which) ==
    IF c \in CategoryEntries(u, l, which) THEN InCategory(CatalogSeries(u, which), l, c) ELSE {}

\* What a reader finds that follows the links of the web pages.
Browsing(u, which) ==
    UNION {UNION {CategoryPage(u, l, c, which) : c \in LibraryPage(u, l, which)}
             : l \in LibraryShelves(u, which)}

\* publication_by_id, before every request for a volume.
PublicationById(u) == indexed \cap ReadScope(u)

\* publications_in_series: the series whose volumes are listed.
PublicationsInSeries(u) == indexed \cap ReadScope(u)

\* series_detail: a series by its id, with its volumes.
SeriesPage(u) == CatalogSeries(u, "all") \cap PublicationsInSeries(u)

\* ReaderService.context: a volume by its id, among those of its series.
ReaderContext(u) == PublicationById(u) \cap PublicationsInSeries(u)

-----------------------------------------------------------------------------
(***************************************************************************)
(* Administrators and readers.                                             *)
(***************************************************************************)
Set(a, r) == adm' = [adm EXCEPT ![a] = r]

Begin(a, r) == Op /\ adm[a].pc = "idle" /\ Set(a, r) /\ UNCHANGED <<readers, librarian, restarts>>

Continue == UNCHANGED <<ops, restarts>>

\* A user becomes an administrator or a reader, is disabled or enabled (AuthService).
SetUser(u, enabled, admin) ==
    /\ Op /\ user' = [user EXCEPT ![u] = [enabled |-> enabled, admin |-> admin]]
    /\ user' # user
    /\ UNCHANGED <<grants, managed, online, indexed, private, asked, raced, librarian, adm, restarts>>

NormalizeNarrow(sel) ==
    LET libraryWide == {g.lib : g \in {h \in sel : h.cat = None}}
    IN  {g \in sel : g.lib \notin libraryWide}

\* AccessService.replace: what a wider grant covers is left out.
Normalize(sel) ==
    LET libraryWide == {g.lib : g \in {h \in sel : h.cat = None}}
        categoryWide == {<<g.lib, g.cat>> : g \in {h \in sel : h.cat # None /\ h.series = None}}
    IN  {g \in sel : g.lib \notin libraryWide /\ <<g.lib, g.cat>> \notin categoryWide}
        \cup {[lib |-> l, cat |-> None, series |-> None] : l \in libraryWide}
        \cup {[lib |-> p[1], cat |-> p[2], series |-> None] : p \in {q \in categoryWide : q[1] \notin libraryWide}}

\* update_user_access, admin_update_access: the grants a user is to have.
AskAccess(a, u, sel) ==
    Begin(a, [NoAdmin EXCEPT !.pc = "user", !.op = "access", !.user = u, !.sel = sel])

\* An administrator needs none.
ReadUser(a) ==
    /\ Continue /\ adm[a].pc = "user"
    /\ Set(a, IF user[adm[a].user].admin THEN NoAdmin ELSE [adm[a] EXCEPT !.pc = "validate"])
    /\ UNCHANGED <<readers, librarian>>

\* _validate_grant; these reads come before the transaction that writes.
Valid(g) ==
    /\ g.lib \in managed
    /\ g.series # None => LibraryOf[g.series] = g.lib /\ CategoryOf[g.series] = g.cat

ValidateGrants(a) ==
    /\ Continue /\ adm[a].pc = "validate"
    /\ Set(a, IF \A g \in Normalize(adm[a].sel) : Valid(g) THEN [adm[a] EXCEPT !.pc = "write"] ELSE NoAdmin)
    /\ UNCHANGED <<readers, librarian>>

\* replace_access_grants: a library that is no longer managed still has its row.
ReplaceGrants(a) ==
    LET r == adm[a]
    IN  /\ Continue /\ r.pc = "write"
        /\ grants' = [grants EXCEPT ![r.user] = Normalize(r.sel)]
        /\ asked' = [asked EXCEPT ![r.user] = r.sel]
        /\ raced' = raced \cup ({g.lib : g \in r.sel} \ managed)
        /\ Set(a, NoAdmin)
        /\ UNCHANGED <<user, managed, online, indexed, private, librarian>>

\* add_library, for a new one and for one that was removed; a scan indexes it later.
AddLibrary(l) ==
    /\ Op /\ l \notin managed
    /\ managed' = managed \cup {l}
    /\ UNCHANGED <<user, grants, online, indexed, private, asked, raced, librarian, adm, restarts>>

\* remove_library: looked up first, then removed.
AskRemove(a, l) == l \in managed /\ Begin(a, [NoAdmin EXCEPT !.pc = "delete", !.op = "remove", !.lib = l])

GrantsWithout(l) == [u \in Users |-> {g \in grants[u] : g.lib # l}]

RemoveLibrary(a) ==
    LET l == adm[a].lib
    IN  /\ Continue /\ adm[a].pc = "delete"
        /\ managed' = managed \ {l}
        /\ grants' = GrantsWithout(l)
        /\ indexed' = {s \in indexed : LibraryOf[s] # l}
        /\ asked' = [u \in Users |-> {g \in asked[u] : g.lib # l}]
        /\ raced' = raced \ {l}
        /\ Set(a, NoAdmin)
        /\ UNCHANGED <<user, online, private, librarian>>

\* disconnect, reconnect of a mount: the rows stay.
Connect(l) ==
    /\ Op /\ online' = IF l \in online THEN online \ {l} ELSE online \cup {l}
    /\ UNCHANGED <<user, grants, managed, indexed, private, asked, raced, librarian, adm, restarts>>

\* A scan finds a series; one that is under way goes on when its library is removed.
Index(s) ==
    /\ Op /\ s \notin indexed /\ indexed' = indexed \cup {s}
    /\ UNCHANGED <<user, grants, managed, online, private, asked, raced, librarian, adm, restarts>>

\* set_series_private.
SetPrivate(s) ==
    /\ Op /\ s \in indexed
    /\ private' = IF s \in private THEN private \ {s} ELSE private \cup {s}
    /\ UNCHANGED <<user, grants, managed, online, indexed, asked, raced, librarian, adm, restarts>>

-----------------------------------------------------------------------------
(***************************************************************************)
(* Librarian tokens and the trail.                                         *)
(***************************************************************************)
Without(tr, gone) == [i \in DOMAIN tr \ gone |-> tr[i]]

Oldest(tr) == {i \in Usage(tr) : Cardinality({j \in Usage(tr) : j <= i}) <= TrimBatch}

TrimmedLate(tr) ==
    IF Cardinality(Usage(tr)) <= TrailBound + 1 THEN tr ELSE Without(tr, Oldest(tr))

\* librarian_events_bound: the oldest go when there are too many, permission history never.
Trimmed(tr) ==
    IF Cardinality(Usage(tr)) <= TrailBound THEN tr ELSE Without(tr, Oldest(tr))

\* record_librarian_event.
Recorded(e) ==
    /\ clock' = clock + 1
    /\ trail' = Trimmed([i \in DOMAIN trail \cup {clock'} |-> IF i = clock' THEN e ELSE trail[i]])

\* A token's row is written: who else is changing it, and which requests use it, is remembered.
Touch(a, t, row) ==
    /\ token' = [token EXCEPT ![t] = row]
    /\ crossed' = crossed \cup {x \in {t} : \E b \in Admins \ {a} : adm[b].token = t}
    /\ agent' = [g \in Agents |-> [agent[g] EXCEPT !.stale = @ \/ agent[g].token = t]]

TokenStep(a, pc) == Continue /\ adm[a].pc = pc /\ UNCHANGED readers

AskIssue(a, t, scopes, libs) ==
    /\ token[t] = None /\ \A b \in Admins : adm[b].token # t
    /\ Begin(a, [NoAdmin EXCEPT !.pc = "create", !.op = "issue", !.token = t, !.scopes = scopes, !.libs = libs])

\* LibrarianAuth.issue: the row, and then the entry.
CreateToken(a) ==
    LET r == adm[a]
        row == [scopes |-> r.scopes, libs |-> r.libs, active |-> TRUE]
    IN  /\ TokenStep(a, "create")
        /\ Touch(a, r.token, row)
        /\ Set(a, [r EXCEPT !.pc = "record", !.todo = <<[Entry(r.token, "security") EXCEPT
                     !.scopes = row.scopes, !.libs = row.libs, !.active = TRUE]>>])
        /\ UNCHANGED <<log, cut>>

AskRescope(a, t, scopes, libs) ==
    /\ token[t] # None
    /\ Begin(a, [NoAdmin EXCEPT !.pc = "before", !.op = "rescope", !.token = t, !.scopes = scopes, !.libs = libs])

\* LibrarianAuth.update: what it was, the change, what it became, an entry for each difference.
ReadBefore(a) ==
    /\ TokenStep(a, "before")
    /\ Set(a, IF token[adm[a].token].active
              THEN [adm[a] EXCEPT !.pc = "update", !.before = token[adm[a].token]] ELSE NoAdmin)
    /\ UNCHANGED librarian

\* update_librarian_token: only while it is not revoked.
UpdateToken(a) ==
    LET r == adm[a]
        old == token[r.token]
    IN  /\ TokenStep(a, "update")
        /\ IF old.active
           THEN /\ Touch(a, r.token, [old EXCEPT !.scopes = r.scopes, !.libs = r.libs])
                /\ Set(a, [r EXCEPT !.pc = "after"])
           ELSE Set(a, NoAdmin) /\ UNCHANGED <<token, crossed, agent>>
        /\ UNCHANGED <<log, cut>>

ChangesOfScopes(t, before, after) ==
    IF before.scopes # after.scopes THEN <<[Entry(t, "security") EXCEPT !.scopes = after.scopes]>> ELSE <<>>

Changes(t, before, after) ==
    ChangesOfScopes(t, before, after)
    \o (IF before.libs # after.libs THEN <<[Entry(t, "security") EXCEPT !.libs = after.libs]>> ELSE <<>>)

ReadAfter(a) ==
    LET r == adm[a]
        todo == Changes(r.token, r.before, token[r.token])
    IN  /\ TokenStep(a, "after")
        /\ Set(a, IF todo = <<>> THEN NoAdmin ELSE [r EXCEPT !.pc = "record", !.todo = todo])
        /\ UNCHANGED librarian

AskRevoke(a, t) ==
    token[t] # None /\ Begin(a, [NoAdmin EXCEPT !.pc = "revoke", !.op = "revoke", !.token = t])

\* revoke_librarian_token: once; the row stays.
RevokeToken(a) ==
    LET r == adm[a]
    IN  /\ TokenStep(a, "revoke")
        /\ IF token[r.token].active
           THEN /\ Touch(a, r.token, [token[r.token] EXCEPT !.active = FALSE])
                /\ Set(a, [r EXCEPT !.pc = "record", !.todo = <<[Entry(r.token, "security") EXCEPT !.active = FALSE]>>])
           ELSE Set(a, NoAdmin) /\ UNCHANGED <<token, crossed, agent>>
        /\ UNCHANGED <<log, cut>>

AskPurge(a) == Begin(a, [NoAdmin EXCEPT !.pc = "purge", !.op = "purge"])

\* AuditTrail.purge: some prefix of the trail is old enough; permission history stays.
PurgeTrail(a, n) ==
    /\ TokenStep(a, "purge")
    /\ trail' = Without(trail, {i \in Usage(trail) : i <= n})
    /\ Set(a, [adm[a] EXCEPT !.pc = "record", !.todo = <<Entry(None, "security")>>])
    /\ UNCHANGED <<clock, token, agent, crossed, cut>>

\* AuditTrail.record: each entry is a transaction of its own.
Record(a) ==
    LET todo == Tail(adm[a].todo)
    IN  /\ TokenStep(a, "record")
        /\ Recorded(Head(adm[a].todo))
        /\ Set(a, IF todo = <<>> THEN NoAdmin ELSE [adm[a] EXCEPT !.todo = todo])
        /\ UNCHANGED <<token, agent, crossed, cut>>

-----------------------------------------------------------------------------
(***************************************************************************)
(* The agent.                                                              *)
(***************************************************************************)
AgentStep(g, pc) == Continue /\ agent[g].pc = pc /\ UNCHANGED <<readers, adm, token, crossed, cut>>

Go(g, r) == agent' = [agent EXCEPT ![g] = r]

KnownHash(t) == token[t] # None

\* librarian_token_by_hash: a revoked token has no hash.
Authentic(t) == token[t] # None /\ token[t].active

\* librarian_identity: the request works with the row as it is now.
Verify(g, t, want, l) ==
    /\ Op /\ agent[g].pc = "idle" /\ Authentic(t)
    /\ Go(g, [NoAgent EXCEPT !.pc = "scope", !.token = t, !.row = token[t], !.want = want, !.lib = l])
    /\ UNCHANGED <<readers, adm, token, log, crossed, cut, restarts>>

\* _require_librarian_scope: a refusal is permission history.
RequireScope(g) ==
    LET r == agent[g]
    IN  /\ AgentStep(g, "scope")
        /\ IF r.want \in r.row.scopes
           THEN Go(g, [r EXCEPT !.pc = "do"]) /\ UNCHANGED log
           ELSE Go(g, NoAgent) /\ Recorded(Entry(r.token, "security"))

\* LibrarianToken.reaches: no library means every one.
Reaches(row, l) == row.libs = {} \/ l \in row.libs

\* LibrarianService.libraries; a mount that is not connected hides series, not libraries.
Within(r) == Reaches(r.row, r.lib) /\ r.lib \in managed

Does(g, scope) == AgentStep(g, "do") /\ agent[g].want = scope /\ UNCHANGED log

\* What is recorded, whether or not it could be done.
Try(g) == Go(g, [agent[g] EXCEPT !.pc = "record"])

\* What names one series, or an upload for one: what is not found, or not reached, is not recorded.
Find(g) == (Within(agent[g]) /\ agent[g].lib \in online /\ Try(g)) \/ Go(g, NoAgent)

\* librarian_libraries answers with what is reached ...
ListLibraries(g) == Does(g, "catalog:read") /\ Try(g)

\* ... resolve looks in one library if one is named, and in all that are reached if not ...
Resolve(g) == Try(g) \/ (~Within(agent[g]) /\ Go(g, NoAgent))

\* ... librarian_series, by title and by metadata.
ResolveTitle(g) == Does(g, "catalog:read") /\ Resolve(g)

SearchMetadata(g) == Does(g, "metadata:read") /\ Try(g)

\* librarian_series_detail.
ReadInventory(g) == Does(g, "catalog:read") /\ Find(g)

\* librarian_ingest_stage and librarian_ingest_commit: what is refused is recorded too.
StageUpload(g) == Does(g, "ingest:stage") /\ Try(g)

CommitUpload(g) == Does(g, "ingest:commit") /\ Try(g)

\* librarian_ingest_discard: whoever's upload it is.
DiscardUpload(g) == Does(g, "ingest:stage") /\ Find(g)

\* librarian_ingest_pending, librarian_ingest_detail: nothing is recorded, or decided by them.
\* What waits is shown as far as the token reaches; what became of an upload that is gone is told
\* from the trail, without asking what the token reaches.
ReadPending(g) == Does(g, "ingest:stage") /\ Go(g, NoAgent)

RecordUse(g) ==
    /\ AgentStep(g, "record")
    /\ Recorded(Entry(agent[g].token, "usage"))
    /\ Go(g, NoAgent)

-----------------------------------------------------------------------------
\* The process ends and starts again; what was not recorded stays unrecorded.
Restart ==
    /\ restarts < MaxRestarts /\ restarts' = restarts + 1
    /\ adm' = [a \in Admins |-> NoAdmin] /\ agent' = [g \in Agents |-> NoAgent]
    /\ cut' = cut \cup {t \in Tokens : \E a \in Admins : adm[a].token = t}
    /\ UNCHANGED <<readers, token, log, crossed, ops>>

Init ==
    /\ user = [u \in Users |-> [enabled |-> TRUE, admin |-> FALSE]]
    /\ grants = [u \in Users |-> {}] /\ asked = [u \in Users |-> {}]
    /\ managed = Libraries /\ online = Libraries /\ indexed = Series /\ private = {}
    /\ token = [t \in Tokens |-> None] /\ trail = <<>> /\ clock = 0
    /\ adm = [a \in Admins |-> NoAdmin] /\ agent = [g \in Agents |-> NoAgent]
    /\ ops = 0 /\ restarts = 0 /\ raced = {} /\ crossed = {} /\ cut = {}

AdminNext(a) ==
    \/ \E u \in Users, sel \in Selections : AskAccess(a, u, sel)
    \/ ReadUser(a) \/ ValidateGrants(a) \/ ReplaceGrants(a)
    \/ \E l \in Libraries : AskRemove(a, l)
    \/ RemoveLibrary(a)
    \/ \E t \in Tokens :
          \/ \E sc \in Capabilities, libs \in SUBSET Libraries : AskIssue(a, t, sc, libs) \/ AskRescope(a, t, sc, libs)
          \/ AskRevoke(a, t)
    \/ CreateToken(a) \/ ReadBefore(a) \/ UpdateToken(a) \/ ReadAfter(a) \/ RevokeToken(a)
    \/ AskPurge(a) \/ Record(a) \/ \E n \in 0..clock : PurgeTrail(a, n)

AgentNext(g) ==
    \/ \E t \in Tokens, want \in Scopes, l \in Libraries : Verify(g, t, want, l)
    \/ RequireScope(g) \/ ResolveTitle(g) \/ ReadInventory(g) \/ ListLibraries(g) \/ SearchMetadata(g)
    \/ StageUpload(g) \/ CommitUpload(g) \/ DiscardUpload(g) \/ ReadPending(g) \/ RecordUse(g)

Next ==
    \/ \E a \in Admins : AdminNext(a)
    \/ \E g \in Agents : AgentNext(g)
    \/ \E u \in Users, enabled \in BOOLEAN, admin \in BOOLEAN : SetUser(u, enabled, admin)
    \/ \E l \in Libraries : AddLibrary(l) \/ Connect(l)
    \/ \E s \in Series : Index(s) \/ SetPrivate(s)
    \/ Restart

Spec == Init /\ [][Next]_vars

-----------------------------------------------------------------------------
(***************************************************************************)
(* Properties.                                                             *)
(***************************************************************************)
\* A reader's grants cover exactly the series that the last accepted request for that reader named,
\* less the libraries removed since, however the request was normalised (AccessService.replace); but
\* one that leaves out the content type is taken for the whole library, even if it names a series
\* (GrantInput lets it).  A library that is not managed has grants only if it was removed while they
\* were written (remove_library).
GrantsAsAsked ==
    \A u \in Users :
        /\ \A s \in Series :
              (\E g \in grants[u] : Covers(g, s)) <=>
              \E g \in asked[u] : GrantMatches(g, s) \/ (g.cat = None /\ g.lib = LibraryOf[s])
        /\ \A g \in grants[u] : g.lib \in managed \cup raced

\* The series pages, the publication feeds and the search show a reader the same series, those
\* that can_read permits in libraries that are managed and connected; each in exactly one collection,
\* there is a way to each of them from the shelves, with no page on the way that is empty, and
\* each of them opens.  The counts beside the filters of a search say what choosing them gives:
\* "a count is never an invitation to an empty page" (search_facets).
ListingsAgree ==
    \A u \in Users :
        LET expected == {s \in indexed : CanRead(u, s) /\ Reachable(s)}
        IN  /\ CatalogSeries(u, "all") = expected
            /\ SearchPage(u, None, "all", TRUE) = expected /\ SearchSuggestions(u) = expected
            /\ PublicationFeed(u, None, "public") \cup PublicationFeed(u, None, "private") = expected
            /\ CatalogSeries(u, "public") \cap CatalogSeries(u, "private") = {}
            /\ SeriesPage(u) = expected /\ expected \subseteq ReaderContext(u)
            /\ \A which \in {"public", "private"} :
                  /\ Browsing(u, which) = CatalogSeries(u, which)
                  /\ \A l \in Libraries :
                        LET found == SearchPage(u, l, which, FALSE)
                        IN  /\ found = PublicationFeed(u, l, which)
                            /\ LibraryFacet(u, l, which) = Cardinality(found)
                            /\ CollectionFacet(u, l, which) = Cardinality(found)
                            /\ found # {} => l \in LibraryShelves(u, which)
                  /\ \A l \in LibraryShelves(u, which) : \A c \in LibraryPage(u, l, which) :
                        CategoryPage(u, l, c, which) # {}

\* README: a disconnected mount is "Hidden from readers".
HiddenWhenDisconnected ==
    \A u \in Users : ~user[u].admin =>
        \A s \in Navigation(u, "public") \cup ReaderContext(u) : LibraryOf[s] \in online

Quiet(t) == \A a \in Admins : adm[a].token # t

Latest(is) == CHOOSE i \in is : \A j \in is : j <= i

Said(t, f) ==
    LET about == {i \in DOMAIN trail : trail[i].token = t /\ trail[i][f] # None}
    IN  IF about = {} THEN None ELSE trail[Latest(about)][f]

\* LibrarianAuth: "who was granted what": what the trail said last of a token's scopes, libraries and
\* revocation is what its row says, however much was trimmed or purged, unless two requests were
\* changing the token together or the process ended before the entry was made.
TrailExplains ==
    \A t \in Tokens : token[t] # None /\ Quiet(t) /\ t \notin crossed \cup cut =>
        \A f \in {"scopes", "libs", "active"} : Said(t, f) = token[t][f]

\* What the agent is doing, its token permits now: every scope is asked for of the row the request
\* came in with, so only a request that was let in before the token was changed or revoked goes by
\* what it was (librarian_identity, _require_librarian_scope).
AgentCurrent ==
    \A g \in Agents : agent[g].pc \in {"do", "record"} /\ ~agent[g].stale =>
        LET row == token[agent[g].token]
        IN  row.active /\ agent[g].want \in row.scopes
=============================================================================
