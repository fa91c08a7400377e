------------------------------ MODULE Catalog ------------------------------
(***************************************************************************)
(* Data mounts, managed libraries and the catalog scan (storage.py,        *)
(* catalog.py, the scan task of app.py and the rows they keep in           *)
(* database.py).                                                           *)
(*                                                                         *)
(* One scan runs at a time, on a worker thread, against directories that   *)
(* change under it and disks that come and go.  Administrators change      *)
(* mounts and libraries: the handler looks whether a scan runs, the        *)
(* service then validates, and the write is a transaction of its own.      *)
(*                                                                         *)
(* A library stands for its directory on one mount, and keeps its identity *)
(* when it is removed and added again.  A file's version stands for its    *)
(* modification time and size.  An id lives as long as its row.            *)
(***************************************************************************)
EXTENDS Naturals, FiniteSets

CONSTANTS
    Mounts, Default,   \* data mounts, and the one the server was configured with
    Paths, Home,       \* directories, and the one the server was configured with
    Overlaps,          \* the pairs of different directories, one inside the other
    Libraries, MountOf,\* managed libraries, and the mount each is a directory of
    Series, LibraryOf,
    Files, SeriesOf,
    Versions, Unsafe,  \* what may be in a file, and what inspect refuses of it
    Breaking,          \* what makes inspect raise an error that no scan expects
    Scheduled,         \* whether scan_interval_seconds is set
    Editors,           \* administrators' requests that may run together
    MaxChanges,        \* bound: changes to the disks, and restarts
    MaxEdits,          \* bound: requests of administrators
    None

ASSUME CatalogAssumption ==
    /\ Default \in Mounts /\ Home \in Paths
    /\ Overlaps \subseteq SUBSET Paths
    /\ MountOf \in [Libraries -> Mounts]
    /\ LibraryOf \in [Series -> Libraries]
    /\ SeriesOf \in [Files -> Series]
    /\ Unsafe \subseteq Versions /\ Breaking \subseteq Versions \ Unsafe
    /\ Scheduled \in BOOLEAN
    /\ MaxChanges \in Nat /\ MaxEdits \in Nat
    /\ None \notin Mounts \cup Paths \cup Libraries \cup Files \cup Versions

VARIABLES
    mount,    \* data_mounts: the row of each mount, or None
    lib,      \* managed_libraries: "none", "enabled" or "removed"
    adopted,  \* application_metadata: the original mount's directories were adopted once
    pub,      \* publications: the version each file was indexed at, or None
    index,    \* catalog_search: the volumes a series was indexed with
    disk,     \* the files of the libraries, wherever their mount is
    plugged,  \* the directories whose disk is there
    locked,   \* the series whose directory cannot be read
    scan,     \* the scan task
    edit,     \* the administrators' requests
    up,       \* whether the server runs
    changes, edits,
    lately,   \* history: what befell a file since the scan came to its library
    missed,   \* history: the mounts given a directory since a request was validated
    unheld    \* history: the pairs of mounts never held against each other as they are

vars == <<mount, lib, adopted, pub, index, disk, plugged, locked, scan, edit, up,
          changes, edits, lately, missed, unheld>>

rows == <<mount, lib, adopted, pub, index>>

world == <<disk, plugged, locked>>

checks == <<missed, unheld>>

FilesOf(l) == {f \in Files : LibraryOf[SeriesOf[f]] = l}

MountRow == [path : Paths, enabled : BOOLEAN, scans : BOOLEAN]

ScanStates == {"idle", "start", "adopt", "choose", "pick", "list", "files", "inspect"}

NoScan == [pc |-> "idle", scope |-> None, libs |-> {}, lib |-> None, root |-> None,
           todo |-> {}, seen |-> {}, queue |-> {}, file |-> None, before |-> None]

Scans == [pc : ScanStates, scope : {None, "all"} \cup Libraries \cup Mounts,
          libs : SUBSET Libraries, lib : Libraries \cup {None}, root : Paths \cup {None},
          todo : SUBSET Series, seen : SUBSET Files, queue : SUBSET Files,
          file : Files \cup {None}, before : Versions \cup {None}]

NoEdit == [pc |-> "idle", op |-> None, mount |-> None, lib |-> None, path |-> None,
           scans |-> FALSE]

Ops == {"add", "update", "disconnect", "reconnect", "forget", "addLibrary", "removeLibrary"}

Edits == [pc : {"idle", "valid", "written"}, op : Ops \cup {None},
          mount : Mounts \cup {None}, lib : Libraries \cup {None},
          path : Paths \cup {None}, scans : BOOLEAN]

TypeOK ==
    /\ mount \in [Mounts -> MountRow \cup {None}]
    /\ lib \in [Libraries -> {"none", "enabled", "removed"}] /\ adopted \in BOOLEAN
    /\ pub \in [Files -> Versions \cup {None}]
    /\ index \in [Series -> SUBSET Files]
    /\ disk \in [Files -> Versions \cup {None}]
    /\ plugged \subseteq Paths /\ locked \subseteq Series
    /\ scan \in Scans
    /\ edit \in [Editors -> Edits]
    /\ up \in BOOLEAN
    /\ changes \in 0..MaxChanges /\ edits \in 0..MaxEdits
    /\ lately \in [Files -> {"steady", "present", "absent", "mixed"}]
    /\ missed \in [Editors -> SUBSET Mounts] /\ unheld \subseteq SUBSET Mounts

-----------------------------------------------------------------------------
(***************************************************************************)
(* What queries ask of the rows.                                           *)
(***************************************************************************)
Registered == {m \in Mounts : mount[m] # None}

\* managed_libraries(): enabled, on a connected mount.
Managed == {l \in Libraries : lib[l] = "enabled" /\ mount[MountOf[l]] # None /\ mount[MountOf[l]].enabled}

Rows(s, p) == {f \in Files : SeriesOf[f] = s /\ p[f] # None}

\* _reindex_series: the row of a series lists its volumes, or is gone.
Reindexed(ss, p) == [s \in Series |-> IF s \in ss THEN Rows(s, p) ELSE index[s]]

Overlap(p, q) == p = q \/ {p, q} \in Overlaps

\* Mutant of RejectOverlap: disconnected mounts are not looked at.
RejectConnected(p, m) ==
    \E n \in Registered \ {m} : mount[n].enabled /\ Overlap(p, mount[n].path)

\* _reject_overlap: with every other mount, the disconnected ones too.
RejectOverlap(p, m) == \E n \in Registered \ {m} : Overlap(p, mount[n].path)

\* _validate_path; what it asks of the path alone but its existence is left out.
ValidPath(p, m) == p \in plugged /\ ~RejectOverlap(p, m)

-----------------------------------------------------------------------------
(***************************************************************************)
(* The scan task.                                                          *)
(***************************************************************************)
ScanActive == scan.pc # "idle"

\* _start_scan_task: one scan at a time; another one asked for is dropped.
Begun(scope) == [NoScan EXCEPT !.pc = "start", !.scope = scope]

Started(scope) == IF ScanActive THEN scan ELSE Begun(scope)

\* The library is done: on to the next one.
NextLibrary == [NoScan EXCEPT !.pc = "pick", !.libs = scan.libs \ {scan.lib}]

ScanStep == up /\ UNCHANGED <<mount, lib, adopted, world, edit, up, changes, edits, checks>>

ScopeUnindexed(scope) ==
    {l \in Managed : scope \in {"all", l, MountOf[l]} /\ \A f \in FilesOf(l) : pub[f] = None}

\* scan and scan_mount; _libraries_for_scan, _on_mount.
Scope(scope) ==
    IF scope = "all" THEN Managed
    ELSE IF scope \in Libraries THEN {scope} ELSE {l \in Managed : MountOf[l] = scope}

\* _scan_once: with no library on record, not even a removed one, ...
MayAdopt == scan.scope \notin Mounts /\ \A l \in Libraries : lib[l] = "none"

\* ... the directories on the original mount are listed (none, if it cannot be read) ...
Adoptable == IF mount[Default].path \in plugged THEN {l \in Libraries : MountOf[l] = Default} ELSE {}

ListDirectories ==
    /\ ScanStep /\ scan.pc = "start" /\ MayAdopt
    /\ scan' = [scan EXCEPT !.pc = "adopt", !.libs = Adoptable]
    /\ UNCHANGED <<pub, index, lately>>

\* ... and added, once in the life of the database: initialize_libraries.
AdoptLibraries ==
    /\ up /\ scan.pc = "adopt"
    /\ lib' = [l \in Libraries |-> IF ~adopted /\ l \in scan.libs /\ lib[l] = "none"
                                   THEN "enabled" ELSE lib[l]]
    /\ adopted' = TRUE
    /\ scan' = [scan EXCEPT !.pc = "choose", !.libs = {}]
    /\ UNCHANGED <<mount, pub, index, world, edit, up, changes, edits, lately, checks>>

ChooseLibraries ==
    /\ ScanStep
    /\ scan.pc = "choose" \/ (scan.pc = "start" /\ ~MayAdopt)
    /\ IF \/ scan.scope \in Libraries /\ lib[scan.scope] # "enabled"
          \/ scan.scope \in Mounts /\ mount[scan.scope] = None
       THEN scan' = NoScan
       ELSE scan' = [NoScan EXCEPT !.pc = "pick", !.libs = Scope(scan.scope)]
    /\ UNCHANGED <<pub, index, lately>>

\* _library_root, for the mount as it is now.
RootAvailable(l) ==
    LET m == mount[MountOf[l]]
    IN  m # None /\ m.enabled /\ m.scans /\ m.path \in plugged

\* Between libraries nothing is recorded.
Unwatched == [f \in Files |-> "mixed"]

\* What is true of a file when the scan comes to its library.
AtFirst(f, p) == IF disk[f] = None THEN "absent"
                 ELSE IF p \in plugged /\ SeriesOf[f] \notin locked THEN "steady" ELSE "present"

\* _scan_library, _discover: the directories of the series, by name ...
CheckRoot(l) ==
    /\ ScanStep /\ scan.pc = "pick" /\ l \in scan.libs
    /\ RootAvailable(l)
    /\ LET root == mount[MountOf[l]].path
       IN  /\ scan' = [scan EXCEPT !.pc = "list", !.lib = l, !.root = root,
                           !.todo = {s \in Series : LibraryOf[s] = l}]
           /\ lately' = [f \in Files |-> AtFirst(f, root)]
    /\ UNCHANGED <<pub, index>>

\* _scan_libraries: a library whose storage is unavailable is left as it was indexed.
SkipLibrary(l) ==
    /\ ScanStep /\ scan.pc = "pick" /\ l \in scan.libs
    /\ ~RootAvailable(l)
    /\ scan' = [scan EXCEPT !.libs = @ \ {l}]
    /\ UNCHANGED <<pub, index, lately>>

\* ... and the archives in each.  A directory that cannot be read is passed over.
Listed(s) ==
    IF scan.root \in plugged /\ s \notin locked
    THEN {f \in Files : SeriesOf[f] = s /\ disk[f] # None}
    ELSE {}

ListSeries(s) ==
    /\ ScanStep /\ scan.pc = "list" /\ s \in scan.todo
    /\ scan' = [scan EXCEPT !.todo = @ \ {s}, !.seen = @ \cup Listed(s)]
    /\ UNCHANGED <<pub, index, lately>>

\* _scan_library reads the mount again.  A path that moved fails the whole scan:
\* relative_to raises what nobody catches.
Resolve ==
    /\ ScanStep /\ scan.pc = "list" /\ scan.todo = {}
    /\ LET m == mount[MountOf[scan.lib]]
       IN  scan' = IF m = None THEN NextLibrary
                   ELSE IF m.path # scan.root /\ scan.seen # {} THEN NoScan
                   ELSE [scan EXCEPT !.pc = "files", !.queue = scan.seen]
    /\ lately' = IF scan'.pc = "files" THEN lately ELSE Unwatched
    /\ UNCHANGED <<pub, index>>

OnDisk(f) == IF scan.root \in plugged /\ SeriesOf[f] \notin locked THEN disk[f] ELSE None

\* publication_by_path: indexed with this modification time and size.
Known(f) == OnDisk(f) = pub[f]

\* stat, and what is known of the path: unchanged, unreadable, or to be inspected.
Look(f) ==
    /\ ScanStep /\ scan.pc = "files" /\ f \in scan.queue
    /\ scan' = IF OnDisk(f) = None \/ Known(f)
               THEN [scan EXCEPT !.queue = @ \ {f}]
               ELSE [scan EXCEPT !.queue = @ \ {f}, !.pc = "inspect", !.file = f, !.before = None]
    /\ UNCHANGED <<pub, index, lately>>

\* _validate_archive, _ordered_images, _pages and _metadata accept what is in it.
Inspected(v) == v \notin Unsafe

\* inspect: stat and read the archive; what is refused of it, or cannot be read, fails
\* the file, and an error of another kind (a damaged member's zlib.error or EOFError)
\* the whole scan.
Open ==
    /\ ScanStep /\ scan.pc = "inspect" /\ scan.before = None
    /\ LET v == OnDisk(scan.file)
       IN  scan' = IF v \in Breaking THEN NoScan
                   ELSE IF v = None \/ ~Inspected(v)
                   THEN [scan EXCEPT !.pc = "files", !.file = None]
                   ELSE [scan EXCEPT !.before = v]
    /\ lately' = IF scan'.pc = "idle" THEN Unwatched ELSE lately
    /\ UNCHANGED <<pub, index>>

\* ... stat again: it must not have changed.
Unchanged(f, v) == OnDisk(f) = v

\* upsert_publication.  The row needs its library: without it the scan fails as a whole.
Upsert ==
    /\ ScanStep /\ scan.pc = "inspect" /\ scan.before # None
    /\ LET f == scan.file
           kept == Unchanged(f, scan.before)
           wrote == [pub EXCEPT ![f] = scan.before]
       IN  IF kept /\ lib[scan.lib] = "none"
           THEN scan' = NoScan /\ UNCHANGED <<pub, index>>
           ELSE /\ scan' = [scan EXCEPT !.pc = "files", !.file = None, !.before = None]
                /\ pub' = IF kept THEN wrote ELSE pub
                /\ index' = IF kept THEN Reindexed({SeriesOf[f]}, wrote) ELSE index
    /\ lately' = IF scan'.pc = "idle" THEN Unwatched ELSE lately

UnseenOrFailed ==
    {f \in FilesOf(scan.lib) : pub[f] # None /\ (f \notin scan.seen \/ disk[f] \in Unsafe)}

\* remove_publications_except: what was not seen goes, and the series it was in
\* are indexed again.
Unseen == {f \in FilesOf(scan.lib) : pub[f] # None /\ f \notin scan.seen}

EmptiedOnly == {SeriesOf[f] : f \in {g \in Unseen : Rows(SeriesOf[g], pub) = {g}}}

Touched == {SeriesOf[f] : f \in Unseen}

Prune ==
    /\ ScanStep /\ scan.pc = "files" /\ scan.queue = {}
    /\ pub' = [f \in Files |-> IF f \in Unseen THEN None ELSE pub[f]]
    /\ index' = Reindexed(Touched, pub')
    /\ scan' = NextLibrary
    /\ lately' = Unwatched

FinishScan ==
    /\ ScanStep /\ scan.pc = "pick" /\ scan.libs = {}
    /\ scan' = NoScan
    /\ UNCHANGED <<pub, index, lately>>

\* _scan_scheduler, which ends at once without an interval.
Tick ==
    /\ Scheduled /\ up /\ ~ScanActive
    /\ scan' = Started("all")
    /\ UNCHANGED <<rows, world, edit, up, changes, edits, lately, checks>>

\* A scan asked for: by an administrator, or by a commit that placed a volume.
AskScan(scope) ==
    /\ up /\ edits < MaxEdits
    /\ scan' = Started(scope)
    /\ edits' = edits + 1
    /\ UNCHANGED <<rows, world, edit, up, changes, lately, checks>>

AskScanLibrary(l) == lib[l] = "enabled" /\ AskScan(l)

AskScanMount(m) == mount[m] # None /\ AskScan(m)

-----------------------------------------------------------------------------
(***************************************************************************)
(* Requests of administrators.                                             *)
(***************************************************************************)
EditStep == up /\ UNCHANGED <<world, up, changes>>

Request(op, m, l, p, b) ==
    [pc |-> "valid", op |-> op, mount |-> m, lib |-> l, path |-> p, scans |-> b]

\* _mount_action, _mount_call: refused while a scan runs; the service validates on a
\* thread, and writes later.  What is refused changes nothing.
Ask(e, r) ==
    /\ EditStep /\ edit[e].pc = "idle" /\ edits < MaxEdits
    /\ ~ScanActive
    /\ edit' = [edit EXCEPT ![e] = r]
    /\ edits' = edits + 1
    /\ missed' = [missed EXCEPT ![e] = {}]
    /\ UNCHANGED <<rows, scan, lately, unheld>>

\* What each operation needs: MountService.add, update, disconnect, reconnect and forget ...
MayAdd(m, p) == mount[m] = None /\ ValidPath(p, m)

MayUpdate(m, p) == mount[m] # None /\ ValidPath(p, m)

MayDisconnect(m) == mount[m] # None

MayReconnect(m) == mount[m] # None /\ ValidPath(mount[m].path, m)

MayForget(m) == mount[m] # None /\ m # Default /\ ~mount[m].enabled

\* ... and LibraryService.add and remove.
MayAddLibrary(l) ==
    LET m == mount[MountOf[l]] IN m # None /\ m.enabled /\ m.path \in plugged

MayRemoveLibrary(l) == lib[l] = "enabled"

AskAdd(e, m, p, b) == MayAdd(m, p) /\ Ask(e, Request("add", m, None, p, b))

AskUpdate(e, m, p, b) == MayUpdate(m, p) /\ Ask(e, Request("update", m, None, p, b))

AskDisconnect(e, m) == MayDisconnect(m) /\ Ask(e, Request("disconnect", m, None, None, FALSE))

AskReconnect(e, m) == MayReconnect(m) /\ Ask(e, Request("reconnect", m, None, None, FALSE))

AskForget(e, m) == MayForget(m) /\ Ask(e, Request("forget", m, None, None, FALSE))

AskAddLibrary(e, l) == MayAddLibrary(l) /\ Ask(e, Request("addLibrary", MountOf[l], l, None, FALSE))

AskRemoveLibrary(e, l) == MayRemoveLibrary(l) /\ Ask(e, Request("removeLibrary", MountOf[l], l, None, FALSE))

\* The path of a row is unique, and the row must still be there.
Conflict(r) ==
    CASE r.op = "add" -> mount[r.mount] # None \/ \E n \in Registered : mount[n].path = r.path
      [] r.op = "update" -> mount[r.mount] = None \/ \E n \in Registered \ {r.mount} : mount[n].path = r.path
      [] OTHER -> mount[r.mount] = None

\* The rows of a library go with it.
Without(ls) == [f \in Files |-> IF LibraryOf[SeriesOf[f]] \in ls THEN None ELSE pub[f]]

Disturbed(fs) == [f \in Files |-> IF f \in fs /\ lately[f] = "steady" THEN "present" ELSE lately[f]]

WriteMount(m, row) == mount' = [mount EXCEPT ![m] = row] /\ UNCHANGED <<lib, adopted, pub, index, lately>>

\* add_data_mount.
AddMount(r) == r.op = "add" /\ WriteMount(r.mount, [path |-> r.path, enabled |-> TRUE, scans |-> r.scans])

\* update_data_mount: whether it is connected stays as it is.
UpdateMount(r) ==
    r.op = "update" /\ WriteMount(r.mount, [mount[r.mount] EXCEPT !.path = r.path, !.scans = r.scans])

\* set_data_mount_enabled.
EnableMount(r) ==
    /\ r.op \in {"disconnect", "reconnect"}
    /\ WriteMount(r.mount, [mount[r.mount] EXCEPT !.enabled = (r.op = "reconnect")])

\* forget_data_mount and _forget_library_rows.
ForgetMount(r) ==
    LET ls == {l \in Libraries : MountOf[l] = r.mount}
    IN  /\ r.op = "forget"
        /\ mount' = [mount EXCEPT ![r.mount] = None]
        /\ lib' = [l \in Libraries |-> IF l \in ls THEN "none" ELSE lib[l]]
        /\ pub' = Without(ls)
        /\ index' = [s \in Series |-> IF LibraryOf[s] \in ls THEN {} ELSE index[s]]
        /\ lately' = Disturbed(UNION {FilesOf(l) : l \in ls})
        /\ UNCHANGED adopted

\* add_library, _upsert_library.
WriteLibrary(r) ==
    /\ r.op = "addLibrary"
    /\ lib' = [lib EXCEPT ![r.lib] = "enabled"]
    /\ UNCHANGED <<mount, adopted, pub, index, lately>>

\* remove_library; the search rows of its series stay, and find nothing.
RemoveLibrary(r) ==
    /\ r.op = "removeLibrary"
    /\ lib' = [lib EXCEPT ![r.lib] = "removed"]
    /\ pub' = Without({r.lib})
    /\ lately' = Disturbed(FilesOf(r.lib))
    /\ UNCHANGED <<mount, adopted, index>>

\* The requests that give a mount its directory.
Moving == {"add", "update"}

\* A directory is given to a mount: it was held against all the others as they were
\* when the request was validated.
NotHeld(m, ns) == {u \in unheld : m \notin u} \cup {{m, n} : n \in ns \ {m}}

Validated(x) == edit[x].pc = "valid" /\ edit[x].op \in Moving

Write(e) ==
    LET r == edit[e]
    IN  /\ EditStep /\ r.pc = "valid"
        /\ IF Conflict(r) THEN UNCHANGED <<rows, lately>>
           ELSE \/ AddMount(r) \/ UpdateMount(r) \/ EnableMount(r) \/ ForgetMount(r)
                \/ WriteLibrary(r) \/ RemoveLibrary(r)
        /\ edit' = [edit EXCEPT ![e] = IF Conflict(r) \/ r.op \notin {"reconnect", "addLibrary"}
                                       THEN NoEdit ELSE [@ EXCEPT !.pc = "written"]]
        /\ IF ~Conflict(r) /\ r.op \in Moving
           THEN /\ unheld' = NotHeld(r.mount, missed[e])
                /\ missed' = [x \in Editors |-> IF x = e THEN {}
                                              ELSE IF Validated(x) THEN missed[x] \cup {r.mount}
                                              ELSE missed[x]]
           ELSE missed' = [missed EXCEPT ![e] = {}] /\ UNCHANGED unheld
        /\ UNCHANGED <<scan, edits>>

Answer(e, scope) ==
    /\ EditStep /\ edit[e].pc = "written"
    /\ scan' = Started(scope)
    /\ edit' = [edit EXCEPT ![e] = NoEdit]
    /\ UNCHANGED <<rows, edits, lately, checks>>

\* Back on the event loop: a reconnected mount and a new library are scanned.
AnswerReconnect(e) == edit[e].op = "reconnect" /\ Answer(e, edit[e].mount)

AnswerAddLibrary(e) == edit[e].op = "addLibrary" /\ Answer(e, edit[e].lib)

-----------------------------------------------------------------------------
(***************************************************************************)
(* The directories, and the process.                                       *)
(***************************************************************************)
Change ==
    /\ changes < MaxChanges /\ changes' = changes + 1
    /\ UNCHANGED <<rows, edit, edits, checks>>

Lives(f) ==
    LET m == mount[MountOf[LibraryOf[SeriesOf[f]]]]
    IN  m # None /\ m.path \in plugged

Became(f, state) ==
    lately' = [lately EXCEPT ![f] = IF scan.lib = None THEN @ ELSE state]

\* Somebody, or an ingest, writes a file: placed at once under its name.
WriteFile(f, v) ==
    /\ Change /\ Lives(f) /\ disk[f] # v
    /\ disk' = [disk EXCEPT ![f] = v]
    /\ Became(f, IF lately[f] \in {"steady", "present"} THEN "present" ELSE "mixed")
    /\ UNCHANGED <<plugged, locked, scan, up>>

DeleteFile(f) ==
    /\ Change /\ Lives(f) /\ disk[f] # None
    /\ disk' = [disk EXCEPT ![f] = None]
    /\ Became(f, "mixed")
    /\ UNCHANGED <<plugged, locked, scan, up>>

Unplug(p) ==
    /\ Change /\ p \in plugged
    /\ plugged' = plugged \ {p}
    /\ lately' = IF p = scan.root THEN Disturbed(Files) ELSE lately
    /\ UNCHANGED <<disk, locked, scan, up>>

Lock(s) ==
    /\ Change /\ s \notin locked
    /\ locked' = locked \cup {s}
    /\ lately' = Disturbed({f \in Files : SeriesOf[f] = s})
    /\ UNCHANGED <<disk, plugged, scan, up>>

Mend ==
    /\ plugged # Paths \/ locked # {}
    /\ plugged' = Paths /\ locked' = {}
    /\ UNCHANGED <<rows, disk, scan, edit, up, changes, edits, lately, checks>>

\* MountService.initialize: the original mount is pointed at the configured
\* directory again, whatever it was moved to.  If another mount is there by now the
\* server does not start.  A server that starts scans everything.
ConfiguredPathTaken == \E n \in Registered \ {Default} : mount[n].path = Home

Restart ==
    /\ up => changes < MaxChanges
    /\ changes' = IF up THEN changes + 1 ELSE changes
    /\ Home \in plugged
    /\ up' = ~ConfiguredPathTaken
    /\ mount' = IF ConfiguredPathTaken THEN mount ELSE [mount EXCEPT ![Default].path = Home]
    /\ scan' = IF ConfiguredPathTaken THEN NoScan ELSE Begun("all")
    /\ edit' = [e \in Editors |-> NoEdit]
    /\ lately' = Unwatched
    /\ missed' = [e \in Editors |-> {}]
    /\ unheld' = IF mount' = mount THEN unheld ELSE NotHeld(Default, Mounts)
    /\ UNCHANGED <<lib, adopted, pub, index, world, edits>>

-----------------------------------------------------------------------------
\* README: a mount's path is "validated for ... overlap with another mount": no two
\* registered mounts overlap.
NoOverlap ==
    \A m, n \in Registered : m # n => ~Overlap(mount[m].path, mount[n].path)

\* Two mounts overlap only if they were never held against each other as they are: the
\* directory of one was written while a request for the other, already validated, waited to
\* be (the check and the write of MountService.add and update are apart), or a
\* restart has pointed the original mount at the configured directory again
\* without asking (MountService.initialize).
MountsApart ==
    \A m, n \in Registered : m # n /\ Overlap(mount[m].path, mount[n].path) => {m, n} \in unheld

\* A server that starts: mounts and libraries as they were left, nothing indexed yet.
Init ==
    /\ mount \in [Mounts -> {row \in MountRow : row.scans} \cup {None}]
    /\ mount[Default] = [path |-> Home, enabled |-> TRUE, scans |-> TRUE]
    /\ NoOverlap
    /\ lib \in [Libraries -> {"none", "enabled", "removed"}]
    /\ \A l \in Libraries : mount[MountOf[l]] = None => lib[l] = "none"
    /\ adopted \in BOOLEAN
    /\ pub = [f \in Files |-> None]
    /\ index = [s \in Series |-> {}]
    /\ disk \in [Files -> Versions \cup {None}]
    /\ plugged = Paths /\ locked = {}
    /\ scan = Begun("all")
    /\ edit = [e \in Editors |-> NoEdit]
    /\ up = TRUE /\ changes = 0 /\ edits = 0
    /\ lately = Unwatched
    /\ missed = [e \in Editors |-> {}] /\ unheld = {}

ScanNext ==
    \/ ListDirectories \/ AdoptLibraries \/ ChooseLibraries \/ Resolve \/ Open \/ Upsert \/ Prune \/ FinishScan
    \/ \E l \in Libraries : CheckRoot(l) \/ SkipLibrary(l)
    \/ \E s \in Series : ListSeries(s)
    \/ \E f \in Files : Look(f)

EditNext ==
    \/ AskScan("all")
    \/ \E l \in Libraries : AskScanLibrary(l)
    \/ \E m \in Mounts : AskScanMount(m)
    \/ \E e \in Editors :
          \/ \E m \in Mounts :
                \/ \E p \in Paths, b \in BOOLEAN : AskAdd(e, m, p, b) \/ AskUpdate(e, m, p, b)
                \/ AskDisconnect(e, m) \/ AskReconnect(e, m) \/ AskForget(e, m)
          \/ \E l \in Libraries : AskAddLibrary(e, l) \/ AskRemoveLibrary(e, l)
          \/ Write(e) \/ AnswerReconnect(e) \/ AnswerAddLibrary(e)

WorldNext ==
    \/ \E f \in Files : DeleteFile(f) \/ \E v \in Versions : WriteFile(f, v)
    \/ \E p \in Paths : Unplug(p)
    \/ \E s \in Series : Lock(s)
    \/ Mend \/ Restart

Next == ScanNext \/ EditNext \/ WorldNext \/ Tick

Spec == Init /\ [][Next]_vars

\* The scan thread runs, and the scheduler's timer, if there is one, keeps firing.
Fairness == WF_vars(ScanNext) /\ WF_vars(Tick)

FairSpec == Spec /\ Fairness

-----------------------------------------------------------------------------
(***************************************************************************)
(* Properties.                                                             *)
(***************************************************************************)
\* The search index lists exactly the volumes of every series that has any: a series
\* is indexed again by whatever changes its volumes (upsert_publication,
\* remove_publications_except, forget_data_mount), and remove_library leaves
\* rows behind only for series that have no volume left.
IndexExact == \A s \in Series : Rows(s, pub) # {} => index[s] = Rows(s, pub)

Pruning == scan.pc = "files" /\ scan.queue = {} /\ scan'.pc = "pick"

\* When a scan leaves a library, every archive that lay there readable and unmodified all along
\* is indexed as it is (or kept as it was, if it cannot be inspected), and what was
\* not there at any time is gone from the catalog (_scan_library).
ScanSound ==
    [][Pruning => \A f \in FilesOf(scan.lib) :
          /\ lately[f] = "steady" =>
                IF disk[f] \in Unsafe THEN pub'[f] = pub[f]
                ELSE pub'[f] = disk[f]
          /\ lately[f] = "absent" => pub'[f] = None]_vars

\* README: "Unplugging a disk is therefore never mistaken for deleting a library": a scan
\* removes no volume whose file was on its disk all along.
UnplugIsNotDeletion ==
    [][Pruning => \A f \in FilesOf(scan.lib) :
          pub[f] # None /\ lately[f] \in {"steady", "present"} => pub'[f] # None]_vars

\* The file is where a scan of everything reads it.
InReach(f) ==
    LET l == LibraryOf[SeriesOf[f]]
        m == mount[MountOf[l]]
    IN  up /\ l \in Managed /\ m.scans /\ m.path \in plugged /\ SeriesOf[f] \notin locked

Healthy(f) == InReach(f) /\ disk[f] \notin Unsafe \cup Breaking \cup {None}

Current(f) == Healthy(f) /\ pub[f] = disk[f]

\* An archive at which every scan ends.
Poisoned == \E g \in Files : InReach(g) /\ disk[g] \in Breaking

\* With automatic scans, an archive in a library that can be scanned is indexed as it is
\* in the end, whether or not the scan asked for when it was placed was dropped
\* (_start_scan_task): the scheduler asks again.  One archive that makes a scan fail as a
\* whole may keep all the others from it (catalog.py:530).
EventuallyIndexed ==
    Scheduled => \A f \in Files : Healthy(f) ~> (Current(f) \/ ~Healthy(f) \/ Poisoned)
=============================================================================
