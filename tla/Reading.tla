------------------------------ MODULE Reading ------------------------------
(***************************************************************************)
(* Serving pages of volumes that are replaced meanwhile: the pool of open  *)
(* archives, the disk caches of pages and of smaller copies (archives.py), *)
(* the spread task (app.py, reader.py) and reading positions.              *)
(*                                                                         *)
(* Requests run on threads.  Each reads the catalog, then the file, and    *)
(* keeps what it made under the revision it read first.  A version stands  *)
(* for the content of an archive: its revision, its size and time, and the *)
(* checksum of its page, whose length may be the same in every version.    *)
(* Every volume is a series of its own and has one page that is asked for; *)
(* every cached file is of size one.                                       *)
(***************************************************************************)
EXTENDS Integers, FiniteSets, Sequences

CONSTANTS
    Volumes, Versions,
    PageCount,    \* of a version
    Readers,      \* requests that may run together
    Spread,       \* the spread task
    Capacity,     \* archive_cache_size
    Budget,       \* files that fit in a cache
    MaxPages,     \* the pages of the longest version
    MaxRequests,  \* bound: requests, and analyses asked for
    MaxChanges,   \* bound: changes of files, and restarts
    None

ASSUME ReadingAssumption ==
    /\ MaxPages \in Nat /\ PageCount \in [Versions -> 1..MaxPages]
    /\ Capacity \in Nat \ {0} /\ Budget \in Nat \ {0}
    /\ MaxRequests \in Nat /\ MaxChanges \in Nat
    /\ IsFiniteSet(Readers) /\ Spread \notin Readers
    /\ None \notin Versions \cup Volumes

VARIABLES
    disk,      \* the archive of each volume, or None
    pub,       \* the version each volume is indexed at, or None
    pool,      \* ArchivePool: the open archives, least recently used first
    cache,     \* the files in the caches, least recently used first
    known,     \* DiskCacheBudget._known of each cache, or None
    req,       \* the requests, and the spread task
    pending,   \* spread_pending: "no", "yes" or "force"
    analysis,  \* publication_spread_analysis: the revision analysed, or None
    dims,      \* the version whose dimensions the page rows hold, or None, and
               \* (history) whether the volume changed while it was measured
    progress,  \* reading_progress of a reader, or None
    requests, changes

vars == <<disk, pub, pool, cache, known, req, pending, analysis, dims, progress,
          requests, changes>>

catalog == <<pub, analysis, dims, progress>>

Kinds == {"page", "copy"}

Actors == Readers \cup {Spread}

Idle == [pc |-> "idle", kind |-> None, vol |-> None, rev |-> None, page |-> None,
         checked |-> FALSE, moved |-> FALSE, got |-> None, force |-> FALSE]

Requests == [pc : {"idle", "page", "cached", "wait", "stat", "open", "check", "read", "store",
                   "add", "respond", "save", "take", "known", "dims", "finish"},
             kind : Kinds \cup {None, "save", "spread"}, vol : Volumes \cup {None},
             rev : Versions \cup {None}, page : Versions \cup {None},
             checked : BOOLEAN, moved : BOOLEAN,
             got : [content : Versions, raced : BOOLEAN] \cup {None}, force : BOOLEAN]

\* A file's name in a cache, and the key of an open archive.
Name(r) == [kind |-> r.kind, vol |-> r.vol, rev |-> r.rev, page |-> r.page]

Key(r) == [vol |-> r.vol, rev |-> r.rev]

KeyOf(x) == [vol |-> x.vol, rev |-> x.rev]

Entries == [vol : Volumes, rev : Versions, content : Versions, raced : BOOLEAN]

Cached == [kind : Kinds, vol : Volumes, rev : Versions, page : Versions,
           content : Versions, raced : BOOLEAN]

Names == [kind : Kinds, vol : Volumes, rev : Versions, page : Versions]

TypeOK ==
    /\ disk \in [Volumes -> Versions \cup {None}] /\ pub \in [Volumes -> Versions \cup {None}]
    /\ pool \in Seq(Entries) /\ cache \in Seq(Cached)
    /\ \A i, j \in DOMAIN pool : KeyOf(pool[i]) = KeyOf(pool[j]) => i = j
    /\ known \in [Kinds -> (SUBSET Names) \cup {None}]
    /\ req \in [Actors -> Requests]
    /\ pending \in [Volumes -> {"no", "yes", "force"}]
    /\ analysis \in [Volumes -> Versions \cup {None}]
    /\ dims \in [Volumes -> [content : Versions, raced : BOOLEAN] \cup {None}]
    /\ progress \in [Volumes -> [page : Nat \ {0}, completed : BOOLEAN] \cup {None}]
    /\ requests \in 0..MaxRequests /\ changes \in 0..MaxChanges

-----------------------------------------------------------------------------
(***************************************************************************)
(* The pool and the caches are kept in order of use: what goes is chosen   *)
(* by its place in it.                                                     *)
(***************************************************************************)
\* The place of i among the indices is, the first n of them, and what a sequence holds there.
Rank(is, i) == Cardinality({j \in is : j <= i})

First(is, n) == {i \in is : Rank(is, i) <= n}

Kept(s, is) == [n \in 1..Cardinality(is) |-> s[CHOOSE i \in is : Rank(is, i) = n]]

(***************************************************************************)
(* ArchivePool.                                                            *)
(***************************************************************************)
\* Who reads from an archive that is open; active counts them.
Holders(rs, k) == {a \in Actors : rs[a].pc \in {"check", "read"} /\ Key(rs[a]) = k}

Removable(p, rs) == {i \in DOMAIN p : Holders(rs, KeyOf(p[i])) = {}}

EvictAny(p, rs) == IF Len(p) > Capacity THEN Tail(p) ELSE p

\* _evict: the least recently used one that nobody reads from, while there are too many.
Evict(p, rs) == Kept(p, DOMAIN p \ First(Removable(p, rs), Len(p) - Capacity))

Opened(k) == {i \in DOMAIN pool : KeyOf(pool[i]) = k}

\* acquire: what is open under this path and revision, or the file as it is now.
Handle(r) ==
    IF Opened(Key(r)) # {} THEN pool[CHOOSE i \in Opened(Key(r)) : TRUE]
    ELSE [vol |-> r.vol, rev |-> r.rev, content |-> disk[r.vol], raced |-> r.moved]

\* The entry goes to the end, is in use from now on, and others may have to go.
Acquired(r, rs) == Evict(Append(Kept(pool, DOMAIN pool \ Opened(Key(r))), Handle(r)), rs)

-----------------------------------------------------------------------------
(***************************************************************************)
(* A request for a page, or for a smaller copy of it.                      *)
(***************************************************************************)
Step(a, r) == req' = [req EXCEPT ![a] = r]

Again == [Idle EXCEPT !.pc = "take", !.kind = "spread"]

FailedEnds(r) == Idle

\* What is refused or fails ends the request; the spread task goes on with the next series.
Failed(r) == IF r.kind = "spread" THEN Again ELSE Idle

\* A request reads the volume's row (publication_by_id) ...
Request(a, pc, kind, v) ==
    /\ requests < MaxRequests /\ requests' = requests + 1
    /\ req[a].pc = "idle" /\ pub[v] # None
    /\ Step(a, [Idle EXCEPT !.pc = pc, !.kind = kind, !.vol = v, !.rev = pub[v]])
    /\ UNCHANGED <<disk, catalog, pool, cache, known, pending, changes>>

RequestPage(a, v) == Request(a, "page", "page", v)

\* A page no wider than asked.  Covers are made in the same way, one at a time, in a cache
\* of their own; they are left out.
RequestCopy(a, v) == Request(a, "page", "copy", v)

RequestSave(a, v) == Request(a, "save", "save", v)

Stays == UNCHANGED <<disk, pending, requests, changes>>

\* ... and then, in another transaction, the page's.
ReadPage(a) ==
    LET r == req[a]
    IN  /\ Stays /\ r.pc = "page"
        /\ Step(a, IF pub[r.vol] = None THEN Idle ELSE [r EXCEPT !.pc = "cached", !.page = pub[r.vol]])
        /\ UNCHANGED <<catalog, pool, cache, known>>

NameOf(x) == [kind |-> x.kind, vol |-> x.vol, rev |-> x.rev, page |-> x.page]

FilesAt(n) == {i \in DOMAIN cache : NameOf(cache[i]) = n}

HasFile(n) == FilesAt(n) # {}

File(n) == cache[CHOOSE i \in FilesAt(n) : TRUE]

\* The file becomes the most recent one, in the place of one of its name.
Latest(file) == Append(Kept(cache, DOMAIN cache \ FilesAt(NameOf(file))), file)

\* cached: a file that is there is touched, which makes it the most recent one.
CachedFile(a) ==
    LET r == req[a]
    IN  /\ Stays /\ r.pc = "cached"
        /\ IF HasFile(Name(r))
           THEN /\ cache' = Latest(File(Name(r)))
                /\ Step(a, [r EXCEPT !.pc = "respond"])
           ELSE UNCHANGED cache /\ Step(a, [r EXCEPT !.pc = "wait"])
        /\ UNCHANGED <<catalog, pool, known>>

\* One request at a time makes the file of a page; the next one finds it made.
Making(a) == req[a].pc \in {"stat", "open", "check", "read", "store", "add"} /\ req[a].kind \in Kinds

Lock(a) ==
    LET r == req[a]
    IN  /\ Stays /\ r.pc = "wait"
        /\ ~\E b \in Actors : Making(b) /\ req[b].vol = r.vol /\ req[b].kind = r.kind
        /\ Step(a, [r EXCEPT !.pc = IF HasFile(Name(r)) THEN "respond" ELSE "stat"])
        /\ UNCHANGED <<catalog, pool, cache, known>>

StatNothing(a) ==
    LET r == req[a]
    IN  /\ Stays /\ r.pc = "stat"
        /\ Step(a, IF disk[r.vol] # None THEN [r EXCEPT !.pc = "open", !.moved = FALSE] ELSE Failed(r))
        /\ UNCHANGED <<catalog, pool, cache, known>>

\* archive_path: the file must have the indexed size and modification time.
Stat(a) ==
    LET r == req[a]
    IN  /\ Stays /\ r.pc = "stat"
        /\ Step(a, IF disk[r.vol] = r.rev THEN [r EXCEPT !.pc = "open", !.moved = FALSE] ELSE Failed(r))
        /\ UNCHANGED <<catalog, pool, cache, known>>

\* open_page validates the page first, in an acquire of its own; a copy and
\* dimensions are read without that.  (history) A page is raced if either was.
Open(a) ==
    LET r == req[a]
        r2 == [r EXCEPT !.pc = IF r.kind = "page" /\ ~r.checked THEN "check" ELSE "read",
                        !.got = [content |-> Handle(r).content,
                                 raced |-> Handle(r).raced \/ (r.checked /\ r.got.raced)]]
    IN  /\ Stays /\ r.pc = "open"
        /\ IF disk[r.vol] = None /\ Opened(Key(r)) = {}
           THEN Step(a, Failed(r)) /\ UNCHANGED pool
           ELSE Step(a, r2) /\ pool' = Acquired(r, [req EXCEPT ![a] = r2])
        /\ UNCHANGED <<catalog, cache, known>>

\* The archive is given back; the pool may shrink now.
Release(a, r) == Step(a, r) /\ pool' = Evict(pool, [req EXCEPT ![a] = r])

\* _validate_member: the page in the archive is the page that was indexed.
Check(a) ==
    LET r == req[a]
    IN  /\ Stays /\ r.pc = "check"
        /\ Release(a, IF r.got.content = r.page
                      THEN [r EXCEPT !.pc = "stat", !.checked = TRUE] ELSE Idle)
        /\ UNCHANGED <<catalog, cache, known>>

Read(a) ==
    LET r == req[a]
    IN  /\ Stays /\ r.pc = "read"
        /\ Release(a, [r EXCEPT !.pc = IF r.kind = "spread" THEN "dims" ELSE "store"])
        /\ UNCHANGED <<catalog, cache, known>>

\* The finished file takes its name at once.
Store(a, kind) ==
    LET r == req[a]
        file == [kind |-> kind, vol |-> r.vol, rev |-> r.rev, page |-> r.page,
                 content |-> r.got.content, raced |-> r.got.raced]
    IN  /\ Stays /\ r.pc = "store" /\ r.kind = kind
        /\ cache' = Latest(file)
        /\ Step(a, [r EXCEPT !.pc = "add"])
        /\ UNCHANGED <<catalog, pool, known>>

\* _materialise.
StorePage(a) == Store(a, "page")

\* rendition.
StoreCopy(a) == Store(a, "copy")

Files(kind) == {n \in Names : n.kind = kind /\ HasFile(n)}

OldestSpared(n) == {}

\* DiskCacheBudget._evict: the oldest files of the cache go, but never the new one.
Oldest(n) ==
    First({i \in DOMAIN cache : cache[i].kind = n.kind /\ NameOf(cache[i]) # n},
          Cardinality(Files(n.kind)) - Budget)

\* DiskCacheBudget.added.  A file that another one's eviction took already fails the request.
Add(a) ==
    LET r == req[a]
        n == Name(r)
        total == (IF known[r.kind] = None THEN Files(r.kind) ELSE known[r.kind]) \cup {n}
        gone == IF Cardinality(total) > Budget THEN Oldest(n) ELSE {}
    IN  /\ Stays /\ r.pc = "add"
        /\ IF HasFile(n)
           THEN /\ known' = [known EXCEPT ![r.kind] =
                      IF Cardinality(total) > Budget THEN {m \in Files(r.kind) : FilesAt(m) \cap gone = {}} ELSE total]
                /\ cache' = Kept(cache, DOMAIN cache \ gone)
                /\ Step(a, [r EXCEPT !.pc = "respond"])
           ELSE Step(a, Idle) /\ UNCHANGED <<cache, known>>
        /\ UNCHANGED <<catalog, pool>>

\* The response opens the file: it may have been evicted by now.
Respond(a) ==
    /\ Stays /\ req[a].pc = "respond"
    /\ Step(a, Idle)
    /\ UNCHANGED <<catalog, pool, cache, known>>

-----------------------------------------------------------------------------
(***************************************************************************)
(* Reading positions.                                                      *)
(***************************************************************************)
\* ReaderService.save_progress, mark_as_read: checked against the volume that was read
\* first.  A volume that is gone takes the request with it.
SaveProgress(a, page, completed) ==
    LET r == req[a]
    IN  /\ Stays /\ r.pc = "save"
        /\ page <= PageCount[r.rev] /\ (completed => page = PageCount[r.rev])
        /\ progress' = IF pub[r.vol] = None THEN progress
                       ELSE [progress EXCEPT ![r.vol] = [page |-> page, completed |-> completed]]
        /\ Step(a, Idle)
        /\ UNCHANGED <<pub, analysis, dims, pool, cache, known>>

\* mark_as_unread.
ClearProgress(a) ==
    /\ Stays /\ req[a].pc = "save"
    /\ progress' = [progress EXCEPT ![req[a].vol] = None]
    /\ Step(a, Idle)
    /\ UNCHANGED <<pub, analysis, dims, pool, cache, known>>

-----------------------------------------------------------------------------
(***************************************************************************)
(* The spread task.                                                        *)
(***************************************************************************)
Queue(v, force) ==
    pending' = [pending EXCEPT ![v] = IF force \/ @ = "force" THEN "force" ELSE "yes"]

\* start_spread_detection: one task; what is queued while it runs, it takes.
AskSpread(v, force) ==
    /\ requests < MaxRequests /\ requests' = requests + 1
    /\ Queue(v, force)
    /\ req' = IF req[Spread].pc # "idle" THEN req
              ELSE [req EXCEPT ![Spread] = Again]
    /\ UNCHANGED <<disk, catalog, pool, cache, known, changes>>

SpreadStep == req[Spread].kind = "spread" /\ UNCHANGED <<disk, requests, changes, cache, known>>

\* _run_spread_detection: the next series, and its volume; or the end of the task.
SpreadTake(v) ==
    /\ SpreadStep /\ req[Spread].pc = "take" /\ pending[v] # "no"
    /\ pending' = [pending EXCEPT ![v] = "no"]
    /\ Step(Spread, IF pub[v] = None THEN Again
                    ELSE [Again EXCEPT !.pc = "known", !.vol = v, !.rev = pub[v],
                                       !.force = (pending[v] = "force")])
    /\ UNCHANGED <<catalog, pool>>

SpreadEnds ==
    /\ SpreadStep /\ req[Spread].pc = "take" /\ \A v \in Volumes : pending[v] = "no"
    /\ Step(Spread, Idle)
    /\ UNCHANGED <<catalog, pool, pending>>

\* analyze_publication: nothing to do if this revision was analysed; pages whose
\* dimensions are not known are measured first, from the archive.
SpreadKnown ==
    LET r == req[Spread]
    IN  /\ SpreadStep /\ r.pc = "known"
        /\ Step(Spread, IF analysis[r.vol] = r.rev /\ ~r.force THEN Again
                        ELSE IF dims[r.vol] # None THEN [r EXCEPT !.pc = "finish"]
                        ELSE [r EXCEPT !.pc = "stat"])
        /\ UNCHANGED <<catalog, pool, pending>>

\* update_page_dimensions: by page number, whatever was indexed since.
SpreadDims ==
    LET r == req[Spread]
    IN  /\ SpreadStep /\ r.pc = "dims"
        /\ dims' = IF pub[r.vol] = None THEN dims
                    ELSE [dims EXCEPT ![r.vol] = [r.got EXCEPT !.raced = @ \/ pub[r.vol] # r.rev]]
        /\ Step(Spread, [r EXCEPT !.pc = "finish", !.got = None])
        /\ UNCHANGED <<pub, analysis, progress, pool, pending>>

\* save_publication_spread_analysis; any failure goes on with the next series.
SpreadFinish ==
    LET r == req[Spread]
    IN  /\ SpreadStep /\ r.pc = "finish"
        /\ analysis' = IF pub[r.vol] = None THEN analysis ELSE [analysis EXCEPT ![r.vol] = r.rev]
        /\ Step(Spread, Again)
        /\ UNCHANGED <<pub, dims, progress, pool, pending>>

-----------------------------------------------------------------------------
Moved(v) == [a \in Actors |-> [req[a] EXCEPT !.moved = @ \/ (req[a].vol = v /\ req[a].pc = "open")]]

\* Somebody replaces, adds or deletes an archive.
Replace(v, x) ==
    /\ changes < MaxChanges /\ changes' = changes + 1
    /\ disk[v] # x /\ disk' = [disk EXCEPT ![v] = x]
    /\ req' = Moved(v)
    /\ UNCHANGED <<catalog, pool, cache, known, pending, requests>>

\* A scan brings the catalog up to date with the volume: upsert_publication writes new page rows,
\* without dimensions; a volume that is gone takes its analysis and positions with it.
Index(v) ==
    /\ pub[v] # disk[v]
    /\ pub' = [pub EXCEPT ![v] = disk[v]]
    /\ dims' = [dims EXCEPT ![v] = None]
    /\ analysis' = [analysis EXCEPT ![v] = IF disk[v] = None THEN None ELSE @]
    /\ progress' = [progress EXCEPT ![v] = IF disk[v] = None THEN None ELSE @]
    /\ UNCHANGED <<disk, pool, cache, known, req, pending, requests, changes>>

\* The process restarts: the caches stay, what is remembered of them does not.
Restart ==
    /\ changes < MaxChanges /\ changes' = changes + 1
    /\ pool' = <<>> /\ known' = [k \in Kinds |-> None]
    /\ req' = [a \in Actors |-> Idle]
    /\ pending' = [v \in Volumes |-> "no"]
    /\ UNCHANGED <<disk, catalog, cache, requests>>

Init ==
    /\ disk \in [Volumes -> Versions] /\ pub = disk
    /\ pool = <<>> /\ cache = <<>> /\ known = [k \in Kinds |-> None]
    /\ req = [a \in Actors |-> Idle]
    /\ pending = [v \in Volumes |-> "no"]
    /\ analysis = [v \in Volumes |-> None] /\ dims = [v \in Volumes |-> None]
    /\ progress = [v \in Volumes |-> None]
    /\ requests = 0 /\ changes = 0

Next ==
    \/ \E a \in Readers, v \in Volumes : RequestPage(a, v) \/ RequestCopy(a, v) \/ RequestSave(a, v)
    \/ \E a \in Readers : \/ ReadPage(a) \/ CachedFile(a) \/ Lock(a) \/ Check(a)
                           \/ StorePage(a) \/ StoreCopy(a) \/ Add(a) \/ Respond(a) \/ ClearProgress(a)
                           \/ \E page \in 1..MaxPages, done \in BOOLEAN : SaveProgress(a, page, done)
    \/ \E a \in Actors : Stat(a) \/ Open(a) \/ Read(a)
    \/ \E v \in Volumes, force \in BOOLEAN : AskSpread(v, force)
    \/ \E v \in Volumes : SpreadTake(v) \/ Index(v) \/ \E x \in Versions \cup {None} : Replace(v, x)
    \/ SpreadEnds \/ SpreadKnown \/ SpreadDims \/ SpreadFinish \/ Restart

Spec == Init /\ [][Next]_vars

-----------------------------------------------------------------------------
(***************************************************************************)
(* Properties.                                                             *)
(***************************************************************************)
\* An archive somebody reads from is open, whoever else came and went (ArchivePool._evict), and the
\* pool holds more than its capacity only while all of them are read from.
PoolSafe ==
    /\ \A a \in Actors : req[a].pc \in {"check", "read"} => Opened(Key(req[a])) # {}
    /\ Len(pool) > Capacity => Removable(pool, req) = {}

\* A file in a cache holds what its name says, the page of that revision, and stored dimensions
\* are those of the indexed revision, although the catalog, the archive and the pool were looked
\* at one after the other: unless the archive was replaced just between archive_path and the
\* opening of the file, or indexed again before update_page_dimensions.
KeptTruthful ==
    /\ \A i \in DOMAIN cache :
          \/ cache[i].raced
          \/ cache[i].content = cache[i].rev
             /\ (cache[i].kind = "page" => cache[i].content = cache[i].page)
    /\ \A v \in Volumes : dims[v] # None => dims[v].raced \/ dims[v].content = pub[v]

\* A cache is over its budget by no more than the files that are being added (DiskCacheBudget),
\* once the process has looked at what is in it.
BudgetKept ==
    \A k \in Kinds : known[k] # None =>
        Cardinality(Files(k)) <= Budget + Cardinality({a \in Readers : req[a].pc = "add" /\ req[a].kind = k})

\* What is queued for the spread task is never left without a task that will take it
\* (start_spread_detection, _run_spread_detection).
SpreadAttended == (\E v \in Volumes : pending[v] # "no") => req[Spread].pc # "idle"
=============================================================================
