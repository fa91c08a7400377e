--------------------------- MODULE CatalogProofs ---------------------------
(***************************************************************************)
(* What a scan does to the catalog, for any number of mounts, libraries,   *)
(* series, files and administrators, whatever happens to the disks.        *)
(***************************************************************************)
EXTENDS Catalog, TLAPS

\* A request knows what it is about.
EditOK(e) ==
    edit[e].pc # "idle" =>
        /\ edit[e].op \in Ops
        /\ edit[e].mount \in Mounts
        /\ edit[e].op \in {"add", "update"} => edit[e].path \in Paths
        /\ edit[e].op \in {"addLibrary", "removeLibrary"} => edit[e].lib \in Libraries
        /\ edit[e].op = "forget" => edit[e].mount # Default

EditsOK == \A e \in Editors : EditOK(e)

\* The mount the server was configured with is never forgotten.
DefaultOK == mount[Default] \in MountRow

InLibrary == scan.pc \in {"list", "files", "inspect"}

\* The scan has a library, and its directory, from the listing until the library is done.
ScanOK ==
    /\ ~InLibrary => scan.lib = None /\ scan.seen = {}
    /\ InLibrary => scan.lib \in Libraries /\ scan.root \in Paths
    /\ scan.pc \in {"files", "inspect"} => scan.todo = {}
    /\ scan.pc = "inspect" => scan.file \in Files

\* The scan has dealt with the file: it is neither in the queue nor being inspected.
Settled(f) ==
    /\ scan.pc \in {"files", "inspect"} /\ f \notin scan.queue
    /\ ~(scan.pc = "inspect" /\ scan.file = f)

\* What the scan knows of a file that lay there readable and unmodified since it came to the
\* library: it is seen once its series is listed, is read as it is, and is indexed
\* once it is settled, unless it cannot be.
SteadyOK(f) ==
    lately[f] = "steady" =>
        /\ disk[f] # None /\ scan.root \in plugged /\ SeriesOf[f] \notin locked
        /\ SeriesOf[f] \in scan.todo \/ f \in scan.seen
        /\ scan.pc = "inspect" /\ scan.file = f /\ scan.before # None => scan.before = disk[f]
        /\ Settled(f) => disk[f] \in Unsafe \/ pub[f] = disk[f]

\* A file that was never there was never seen.
AbsentOK(f) == lately[f] = "absent" => disk[f] = None /\ f \notin scan.seen

WatchOK == InLibrary => \A f \in FilesOf(scan.lib) : SteadyOK(f) /\ AbsentOK(f)

\* The inductive invariant.
IInv ==
    /\ TypeOK
    /\ EditsOK
    /\ DefaultOK
    /\ ScanOK
    /\ WatchOK
    /\ IndexExact
-----------------------------------------------------------------------------
(***************************************************************************)
(* The requests.                                                           *)
(***************************************************************************)
LEMMA EditsStep == ASSUME IInv, Next PROVE edit' \in [Editors -> Edits] /\ EditsOK'
<1> DEFINE Good == edit' \in [Editors -> Edits] /\ EditsOK'
<1>0. edit \in [Editors -> Edits] /\ mount \in [Mounts -> MountRow \cup {None}] /\ EditsOK
  BY DEF IInv, TypeOK
<1>1. CASE edit' = edit
  BY <1>0, <1>1 DEF EditsOK, EditOK
<1>2. ASSUME NEW e \in Editors, NEW r \in Edits, edit' = [edit EXCEPT ![e] = r],
             r.pc # "idle" =>
                /\ r.op \in Ops /\ r.mount \in Mounts
                /\ r.op \in {"add", "update"} => r.path \in Paths
                /\ r.op \in {"addLibrary", "removeLibrary"} => r.lib \in Libraries
                /\ r.op = "forget" => r.mount # Default
      PROVE  Good
  BY <1>0, <1>2 DEF EditsOK, EditOK
<1>3. NoEdit \in Edits /\ NoEdit.pc = "idle"
  BY DEF NoEdit, Edits
<1>4. ASSUME NEW e \in Editors, NEW op \in Ops, NEW m \in Mounts, NEW l \in Libraries \cup {None},
             NEW p \in Paths \cup {None}, NEW b \in BOOLEAN, Ask(e, Request(op, m, l, p, b)),
             op \in {"add", "update"} => p \in Paths,
             op \in {"addLibrary", "removeLibrary"} => l \in Libraries,
             op = "forget" => m # Default
      PROVE  Good
  <2>1. Request(op, m, l, p, b) \in Edits
    BY DEF Request, Edits
  <2> QED BY <1>2, <1>4, <2>1 DEF Ask, Request
<1>5. CASE EditNext
  <2>1. ASSUME NEW e \in Editors, NEW m \in Mounts, NEW p \in Paths, NEW b \in BOOLEAN,
               AskAdd(e, m, p, b) \/ AskUpdate(e, m, p, b)
        PROVE  Good
    <3>1. CASE Ask(e, Request("add", m, None, p, b))
      BY <1>4, <3>1 DEF Ops
    <3>2. CASE Ask(e, Request("update", m, None, p, b))
      BY <1>4, <3>2 DEF Ops
    <3> QED BY <2>1, <3>1, <3>2 DEF AskAdd, AskUpdate
  <2>2. ASSUME NEW e \in Editors, NEW m \in Mounts,
               AskDisconnect(e, m) \/ AskReconnect(e, m) \/ AskForget(e, m)
        PROVE  Good
    <3>1. CASE Ask(e, Request("disconnect", m, None, None, FALSE))
      BY <1>4, <3>1 DEF Ops
    <3>2. CASE Ask(e, Request("reconnect", m, None, None, FALSE))
      BY <1>4, <3>2 DEF Ops
    <3>3. CASE m # Default /\ Ask(e, Request("forget", m, None, None, FALSE))
      BY <1>4, <3>3 DEF Ops
    <3> QED BY <2>2, <3>1, <3>2, <3>3 DEF AskDisconnect, AskReconnect, AskForget, MayForget
  <2>3. ASSUME NEW e \in Editors, NEW l \in Libraries, AskAddLibrary(e, l) \/ AskRemoveLibrary(e, l)
        PROVE  Good
    <3>0. MountOf[l] \in Mounts
      BY CatalogAssumption
    <3>1. CASE Ask(e, Request("addLibrary", MountOf[l], l, None, FALSE))
      BY <1>4, <3>0, <3>1 DEF Ops
    <3>2. CASE Ask(e, Request("removeLibrary", MountOf[l], l, None, FALSE))
      BY <1>4, <3>0, <3>2 DEF Ops
    <3> QED BY <2>3, <3>1, <3>2 DEF AskAddLibrary, AskRemoveLibrary
  <2>4. ASSUME NEW e \in Editors, Write(e) PROVE Good
    <3>1. /\ edit[e] \in Edits /\ EditOK(e) /\ edit[e].pc = "valid"
          /\ \/ edit' = [edit EXCEPT ![e] = NoEdit]
             \/ edit' = [edit EXCEPT ![e] = [edit[e] EXCEPT !.pc = "written"]]
      BY <1>0, <2>4 DEF Write, EditsOK
    <3>2. [edit[e] EXCEPT !.pc = "written"] \in Edits
      BY <3>1 DEF Edits
    <3>3. /\ [edit[e] EXCEPT !.pc = "written"].op = edit[e].op
          /\ [edit[e] EXCEPT !.pc = "written"].mount = edit[e].mount
          /\ [edit[e] EXCEPT !.pc = "written"].path = edit[e].path
          /\ [edit[e] EXCEPT !.pc = "written"].lib = edit[e].lib
      BY <3>1 DEF Edits
    <3>4. CASE edit' = [edit EXCEPT ![e] = NoEdit]
      BY <1>2, <1>3, <3>4
    <3>5. CASE edit' = [edit EXCEPT ![e] = [edit[e] EXCEPT !.pc = "written"]]
      BY <1>2, <3>1, <3>2, <3>3, <3>5 DEF EditOK
    <3> QED BY <3>1, <3>4, <3>5
  <2>5. ASSUME NEW e \in Editors, AnswerReconnect(e) \/ AnswerAddLibrary(e) PROVE Good
    BY <1>2, <1>3, <2>5 DEF AnswerReconnect, AnswerAddLibrary, Answer
  <2>6. CASE \/ AskScan("all")
             \/ \E l \in Libraries : AskScanLibrary(l)
             \/ \E m \in Mounts : AskScanMount(m)
    BY <1>1, <2>6 DEF AskScanLibrary, AskScanMount, AskScan
  <2> QED BY <1>5, <2>1, <2>2, <2>3, <2>4, <2>5, <2>6 DEF EditNext
<1>6. CASE ScanNext \/ Tick
  <2>1. edit' = edit
    BY <1>6 DEF ScanNext, ListDirectories, AdoptLibraries, ChooseLibraries, Resolve, Open, Upsert, Prune, FinishScan, CheckRoot,
                SkipLibrary, ListSeries, Look, ScanStep, Tick
  <2> QED BY <1>1, <2>1
<1>7. CASE WorldNext /\ ~Restart
  <2>1. edit' = edit
    BY <1>7 DEF WorldNext, DeleteFile, WriteFile, Unplug, Lock, Mend, Change
  <2> QED BY <1>1, <2>1
<1>8. CASE Restart
  BY <1>3, <1>8 DEF Restart, EditsOK, EditOK
<1> QED BY <1>5, <1>6, <1>7, <1>8 DEF Next

-----------------------------------------------------------------------------
(***************************************************************************)
(* The scan.                                                               *)
(***************************************************************************)
ScanGood == scan \in Scans /\ ScanOK

LEMMA NoScanGood == ASSUME scan' = NoScan PROVE ScanGood'
<1>1. scan' = [pc |-> "idle", scope |-> None, libs |-> {}, lib |-> None, root |-> None,
               todo |-> {}, seen |-> {}, queue |-> {}, file |-> None, before |-> None]
  BY DEF NoScan
<1> QED BY <1>1 DEF ScanGood, ScanOK, InLibrary, Scans, ScanStates

LEMMA BegunGood ==
    ASSUME NEW scope \in {"all"} \cup Libraries \cup Mounts, scan' = Begun(scope)
    PROVE  ScanGood'
<1>1. scan' = [pc |-> "start", scope |-> scope, libs |-> {}, lib |-> None, root |-> None,
               todo |-> {}, seen |-> {}, queue |-> {}, file |-> None, before |-> None]
  BY DEF Begun, NoScan
<1> QED BY <1>1 DEF ScanGood, ScanOK, InLibrary, Scans, ScanStates

LEMMA StartedGood ==
    ASSUME IInv, NEW scope \in {"all"} \cup Libraries \cup Mounts, scan' = Started(scope)
    PROVE  ScanGood'
<1>1. CASE ScanActive
  BY <1>1 DEF Started, IInv, TypeOK, ScanGood, ScanOK, InLibrary
<1>2. CASE ~ScanActive
  BY <1>2, BegunGood DEF Started
<1> QED BY <1>1, <1>2

LEMMA ScanStepGood == ASSUME IInv, Next PROVE ScanGood'
<1>0. scan \in Scans /\ ScanOK /\ mount \in [Mounts -> MountRow \cup {None}]
      /\ disk \in [Files -> Versions \cup {None}]
  BY DEF IInv, TypeOK
<1>1. CASE ScanNext
  <2>1. CASE ChooseLibraries
    <3>1. Scope(scan.scope) \subseteq Libraries
      BY DEF Scope, Managed
    <3>2. \/ scan' = NoScan
          \/ scan' = [NoScan EXCEPT !.pc = "pick", !.libs = Scope(scan.scope)]
      BY <2>1 DEF ChooseLibraries
    <3>3. CASE scan' = [NoScan EXCEPT !.pc = "pick", !.libs = Scope(scan.scope)]
      <4>1. scan' = [pc |-> "pick", scope |-> None, libs |-> Scope(scan.scope), lib |-> None,
                     root |-> None, todo |-> {}, seen |-> {}, queue |-> {}, file |-> None, before |-> None]
        BY <3>3 DEF NoScan
      <4> QED BY <3>1, <4>1 DEF ScanGood, ScanOK, InLibrary, Scans, ScanStates
    <3> QED BY <3>2, <3>3, NoScanGood
  <2>2. CASE FinishScan
    BY <2>2, NoScanGood DEF FinishScan
  <2>12. CASE ListDirectories
    <3>1. Adoptable \subseteq Libraries /\ scan.pc = "start"
          /\ scan' = [scan EXCEPT !.pc = "adopt", !.libs = Adoptable]
      BY <2>12 DEF ListDirectories, Adoptable
    <3> QED BY <1>0, <3>1 DEF ScanGood, ScanOK, InLibrary, Scans, ScanStates
  <2>13. CASE AdoptLibraries
    <3>1. scan.pc = "adopt" /\ scan' = [scan EXCEPT !.pc = "choose", !.libs = {}]
      BY <2>13 DEF AdoptLibraries
    <3> QED BY <1>0, <3>1 DEF ScanGood, ScanOK, InLibrary, Scans, ScanStates
  <2>3. ASSUME scan' = NextLibrary PROVE ScanGood'
    <3>1. scan' = [pc |-> "pick", scope |-> None, libs |-> scan.libs \ {scan.lib}, lib |-> None,
                   root |-> None, todo |-> {}, seen |-> {}, queue |-> {}, file |-> None, before |-> None]
      BY <2>3 DEF NextLibrary, NoScan
    <3>2. scan.libs \ {scan.lib} \subseteq Libraries
      BY <1>0 DEF Scans
    <3> QED BY <3>1, <3>2 DEF ScanGood, ScanOK, InLibrary, Scans, ScanStates
  <2>4. ASSUME NEW l \in Libraries, SkipLibrary(l) PROVE ScanGood'
    BY <1>0, <2>4 DEF SkipLibrary, ScanGood, ScanOK, InLibrary, Scans
  <2>5. ASSUME NEW l \in Libraries, CheckRoot(l) PROVE ScanGood'
    <3> DEFINE root == mount[MountOf[l]].path
               todo == {s \in Series : LibraryOf[s] = l}
    <3>1. root \in Paths
      BY <1>0, <2>5, CatalogAssumption DEF CheckRoot, RootAvailable, MountRow
    <3>2. scan' = [scan EXCEPT !.pc = "list", !.lib = l, !.root = root, !.todo = todo]
      BY <2>5 DEF CheckRoot
    <3> HIDE DEF root
    <3>3. todo \subseteq Series
      OBVIOUS
    <3> HIDE DEF todo
    <3> QED BY <1>0, <3>1, <3>2, <3>3 DEF ScanGood, ScanOK, InLibrary, Scans, ScanStates
  <2>6. ASSUME NEW s \in Series, ListSeries(s) PROVE ScanGood'
    <3>1. Listed(s) \subseteq Files
      BY DEF Listed
    <3>2. scan.pc = "list" /\ scan' = [scan EXCEPT !.todo = scan.todo \ {s}, !.seen = scan.seen \cup Listed(s)]
      BY <2>6 DEF ListSeries
    <3> QED BY <1>0, <3>1, <3>2 DEF ScanGood, ScanOK, InLibrary, Scans
  <2>7. CASE Resolve
    <3>1. scan.pc = "list" /\ scan.todo = {}
          /\ (scan' = NextLibrary \/ scan' = NoScan \/ scan' = [scan EXCEPT !.pc = "files", !.queue = scan.seen])
      BY <2>7 DEF Resolve
    <3>2. CASE scan' = [scan EXCEPT !.pc = "files", !.queue = scan.seen]
      BY <1>0, <3>1, <3>2 DEF ScanGood, ScanOK, InLibrary, Scans, ScanStates
    <3> QED BY <2>3, <3>1, <3>2, NoScanGood
  <2>8. ASSUME NEW f \in Files, Look(f) PROVE ScanGood'
    <3>1. /\ scan.pc = "files"
          /\ \/ scan' = [scan EXCEPT !.queue = scan.queue \ {f}]
             \/ scan' = [scan EXCEPT !.queue = scan.queue \ {f}, !.pc = "inspect", !.file = f, !.before = None]
      BY <2>8 DEF Look
    <3> QED BY <1>0, <3>1 DEF ScanGood, ScanOK, InLibrary, Scans, ScanStates
  <2>9. CASE Open
    <3>1. OnDisk(scan.file) \in Versions \cup {None}
      BY <1>0, <2>9 DEF Open, OnDisk, ScanOK
    <3>2. /\ scan.pc = "inspect"
          /\ \/ scan' = NoScan
             \/ scan' = [scan EXCEPT !.pc = "files", !.file = None]
             \/ scan' = [scan EXCEPT !.before = OnDisk(scan.file)]
      BY <2>9 DEF Open
    <3>3. CASE scan' # NoScan
      BY <1>0, <3>1, <3>2, <3>3 DEF ScanGood, ScanOK, InLibrary, Scans, ScanStates
    <3> QED BY <3>3, NoScanGood
  <2>10. CASE Upsert
    <3>1. /\ scan.pc = "inspect"
          /\ scan' = NoScan \/ scan' = [scan EXCEPT !.pc = "files", !.file = None, !.before = None]
      BY <2>10 DEF Upsert
    <3>2. CASE scan' = [scan EXCEPT !.pc = "files", !.file = None, !.before = None]
      BY <1>0, <3>1, <3>2 DEF ScanGood, ScanOK, InLibrary, Scans, ScanStates
    <3> QED BY <3>1, <3>2, NoScanGood
  <2>11. CASE Prune
    BY <2>3, <2>11 DEF Prune
  <2> QED BY <1>1, <2>1, <2>2, <2>4, <2>5, <2>6, <2>7, <2>8, <2>9, <2>10, <2>11, <2>12, <2>13 DEF ScanNext
<1>2. CASE scan' = scan
  BY <1>0, <1>2 DEF ScanGood, ScanOK, InLibrary
<1>3. CASE Tick
  BY <1>3, StartedGood DEF Tick
<1>4. CASE EditNext
  <2>1. CASE \/ AskScan("all")
             \/ \E l \in Libraries : AskScanLibrary(l)
             \/ \E m \in Mounts : AskScanMount(m)
    BY <2>1, StartedGood DEF AskScanLibrary, AskScanMount, AskScan
  <2>2. ASSUME NEW e \in Editors, AnswerReconnect(e) \/ AnswerAddLibrary(e) PROVE ScanGood'
    <3>1. EditOK(e) /\ edit[e].pc = "written"
      BY <2>2 DEF AnswerReconnect, AnswerAddLibrary, Answer, IInv, EditsOK
    <3> QED BY <2>2, <3>1, StartedGood DEF AnswerReconnect, AnswerAddLibrary, Answer, EditOK
  <2>3. ASSUME NEW e \in Editors,
               \/ \E m \in Mounts :
                     \/ \E p \in Paths, b \in BOOLEAN : AskAdd(e, m, p, b) \/ AskUpdate(e, m, p, b)
                     \/ AskDisconnect(e, m) \/ AskReconnect(e, m) \/ AskForget(e, m)
               \/ \E l \in Libraries : AskAddLibrary(e, l) \/ AskRemoveLibrary(e, l)
               \/ Write(e)
        PROVE  ScanGood'
    BY <1>2, <2>3 DEF AskAdd, AskUpdate, AskDisconnect, AskReconnect, AskForget, AskAddLibrary,
                      AskRemoveLibrary, Ask, Write
  <2> QED BY <1>4, <2>1, <2>2, <2>3 DEF EditNext
<1>5. CASE WorldNext /\ ~Restart
  <2>1. scan' = scan
    BY <1>5 DEF WorldNext, DeleteFile, WriteFile, Unplug, Lock, Mend
  <2> QED BY <1>2, <2>1
<1>6. CASE Restart
  <2>1. scan' = NoScan \/ scan' = Begun("all")
    BY <1>6 DEF Restart
  <2> QED BY <2>1, NoScanGood, BegunGood
<1> QED BY <1>1, <1>3, <1>4, <1>5, <1>6 DEF Next
-----------------------------------------------------------------------------
(***************************************************************************)
(* The catalog and its index.                                              *)
(***************************************************************************)
\* What becomes of the volumes and of the index in a step.
Indexed(f, v) ==
    /\ scan.pc = "inspect" /\ scan.file = f /\ scan.before = v /\ v # None
    /\ Unchanged(f, v)
    /\ pub' = [pub EXCEPT ![f] = v]
    /\ index' = Reindexed({SeriesOf[f]}, pub')
    /\ scan' = [scan EXCEPT !.pc = "files", !.file = None, !.before = None]
    /\ UNCHANGED <<disk, plugged, locked, lately>>

Pruned ==
    /\ scan.pc = "files" /\ scan.queue = {}
    /\ pub' = [f \in Files |-> IF f \in Unseen THEN None ELSE pub[f]]
    /\ index' = Reindexed(Touched, pub')
    /\ scan' = NextLibrary

Dropped(ls) ==
    /\ pub' = Without(ls)
    /\ index' = index \/ index' = [s \in Series |-> IF LibraryOf[s] \in ls THEN {} ELSE index[s]]
    /\ lately' = Disturbed({f \in Files : LibraryOf[SeriesOf[f]] \in ls})
    /\ scan' = scan /\ UNCHANGED <<disk, plugged, locked>>

RowsChange ==
    \/ UNCHANGED <<pub, index>>
    \/ \E f \in Files, v \in Versions : Indexed(f, v)
    \/ Pruned
    \/ \E ls : Dropped(ls)

LEMMA EveryRowsChange == ASSUME IInv, Next PROVE RowsChange
<1> USE DEF RowsChange
<1>1. CASE ScanNext
  <2>1. CASE \/ ListDirectories \/ AdoptLibraries \/ ChooseLibraries \/ Resolve \/ Open \/ FinishScan
             \/ \E l \in Libraries : CheckRoot(l) \/ SkipLibrary(l)
             \/ \E s \in Series : ListSeries(s)
             \/ \E f \in Files : Look(f)
    BY <2>1 DEF ListDirectories, AdoptLibraries, ChooseLibraries, Resolve, Open, FinishScan, CheckRoot,
                SkipLibrary, ListSeries, Look
  <2>2. CASE Upsert
    <3>1. scan.file \in Files /\ scan.before \in Versions /\ scan.pc = "inspect"
      BY <2>2 DEF Upsert, IInv, TypeOK, ScanOK, Scans
    <3>2. CASE Unchanged(scan.file, scan.before) /\ ~(lib[scan.lib] = "none")
      <4>1. /\ scan' = [scan EXCEPT !.pc = "files", !.file = None, !.before = None]
            /\ pub' = [pub EXCEPT ![scan.file] = scan.before]
            /\ index' = Reindexed({SeriesOf[scan.file]}, pub')
        BY <2>2, <3>2 DEF Upsert
      <4>2. scan'.pc = "files"
        BY <4>1 DEF IInv, TypeOK, Scans
      <4>3. UNCHANGED <<disk, plugged, locked, lately>>
        BY <2>2, <4>2 DEF Upsert, ScanStep, world
      <4>4. Indexed(scan.file, scan.before)
        BY <2>2, <3>1, <3>2, <4>1, <4>3 DEF Indexed, Upsert
      <4> QED BY <3>1, <4>4
    <3>3. CASE ~Unchanged(scan.file, scan.before) \/ lib[scan.lib] = "none"
      BY <2>2, <3>3 DEF Upsert
    <3> QED BY <3>2, <3>3
  <2>3. CASE Prune
    BY <2>3 DEF Prune, Pruned
  <2> QED BY <1>1, <2>1, <2>2, <2>3 DEF ScanNext
<1>2. CASE EditNext
  <2>1. ASSUME NEW e \in Editors, Write(e) PROVE RowsChange
    <3> DEFINE r == edit[e]
    <3>0. scan' = scan /\ UNCHANGED <<disk, plugged, locked>>
      BY <2>1 DEF Write, EditStep, world
    <3>1. CASE UNCHANGED <<rows, lately>> \/ AddMount(r) \/ UpdateMount(r) \/ EnableMount(r) \/ WriteLibrary(r)
      BY <3>1 DEF rows, AddMount, UpdateMount, EnableMount, WriteLibrary, WriteMount
    <3>2. CASE ForgetMount(r)
      <4> DEFINE ls == {l \in Libraries : MountOf[l] = r.mount}
      <4>1. UNION {FilesOf(l) : l \in ls} = {f \in Files : LibraryOf[SeriesOf[f]] \in ls}
        BY DEF FilesOf
      <4>2. Dropped(ls)
        BY <3>0, <3>2, <4>1 DEF ForgetMount, Dropped
      <4> QED BY <4>2
    <3>3. CASE RemoveLibrary(r)
      <4>1. FilesOf(r.lib) = {f \in Files : LibraryOf[SeriesOf[f]] \in {r.lib}}
        BY DEF FilesOf
      <4>2. Dropped({r.lib})
        BY <3>0, <3>3, <4>1 DEF RemoveLibrary, Dropped
      <4> QED BY <4>2
    <3> QED BY <2>1, <3>1, <3>2, <3>3 DEF Write
  <2>2. ASSUME NEW e \in Editors,
               \/ \E m \in Mounts :
                     \/ \E p \in Paths, b \in BOOLEAN : AskAdd(e, m, p, b) \/ AskUpdate(e, m, p, b)
                     \/ AskDisconnect(e, m) \/ AskReconnect(e, m) \/ AskForget(e, m)
               \/ \E l \in Libraries : AskAddLibrary(e, l) \/ AskRemoveLibrary(e, l)
               \/ AnswerReconnect(e) \/ AnswerAddLibrary(e)
        PROVE  RowsChange
    BY <2>2 DEF AskAdd, AskUpdate, AskDisconnect, AskReconnect, AskForget, AskAddLibrary,
                AskRemoveLibrary, Ask, AnswerReconnect, AnswerAddLibrary, Answer, rows
  <2>3. CASE \/ AskScan("all")
             \/ \E l \in Libraries : AskScanLibrary(l)
             \/ \E m \in Mounts : AskScanMount(m)
    BY <2>3 DEF AskScanLibrary, AskScanMount, AskScan, rows
  <2> QED BY <1>2, <2>1, <2>2, <2>3 DEF EditNext
<1>3. CASE WorldNext \/ Tick
  BY <1>3 DEF WorldNext, DeleteFile, WriteFile, Unplug, Lock, Mend, Restart, Tick, Change, rows
<1> QED BY <1>1, <1>2, <1>3 DEF Next

LEMMA RowsType ==
    ASSUME TypeOK, RowsChange
    PROVE  pub' \in [Files -> Versions \cup {None}] /\ index' \in [Series -> SUBSET Files]
<1> USE DEF TypeOK
<1>1. ASSUME NEW ss, NEW p PROVE Reindexed(ss, p) \in [Series -> SUBSET Files]
  BY DEF Reindexed, Rows
<1>2. ASSUME NEW f \in Files, NEW v \in Versions, Indexed(f, v)
      PROVE  pub' \in [Files -> Versions \cup {None}] /\ index' \in [Series -> SUBSET Files]
  BY <1>1, <1>2 DEF Indexed
<1>3. CASE Pruned
  BY <1>1, <1>3 DEF Pruned
<1>4. ASSUME NEW ls, Dropped(ls)
      PROVE  pub' \in [Files -> Versions \cup {None}] /\ index' \in [Series -> SUBSET Files]
  BY <1>4 DEF Dropped, Without
<1> QED BY <1>2, <1>3, <1>4 DEF RowsChange

\* Whatever changes the volumes of a series indexes it again, or leaves it none.
LEMMA IndexStep == ASSUME IInv, RowsChange PROVE IndexExact'
<1>0. pub \in [Files -> Versions \cup {None}] /\ index \in [Series -> SUBSET Files]
      /\ SeriesOf \in [Files -> Series]
  BY CatalogAssumption DEF IInv, TypeOK
<1>1. CASE UNCHANGED <<pub, index>>
  BY <1>1 DEF IInv, IndexExact
<1>2. ASSUME NEW ss, index' = Reindexed(ss, pub'),
             \A f \in Files : SeriesOf[f] \notin ss => pub'[f] = pub[f]
      PROVE  IndexExact'
  <2>1. ASSUME NEW s \in Series, s \in ss PROVE index'[s] = Rows(s, pub')
    BY <1>2, <2>1 DEF Reindexed
  <2>2. ASSUME NEW s \in Series, s \notin ss
        PROVE  index'[s] = index[s] /\ Rows(s, pub') = Rows(s, pub)
    BY <1>2, <2>2 DEF Reindexed, Rows
  <2> QED BY <2>1, <2>2 DEF IInv, IndexExact
<1>3. ASSUME NEW f \in Files, NEW v \in Versions, Indexed(f, v) PROVE IndexExact'
  <2>1. \A g \in Files : SeriesOf[g] \notin {SeriesOf[f]} => pub'[g] = pub[g]
    BY <1>0, <1>3 DEF Indexed
  <2> QED BY <1>2, <1>3, <2>1 DEF Indexed
<1>4. CASE Pruned
  <2>1. \A g \in Files : SeriesOf[g] \notin Touched => pub'[g] = pub[g]
    BY <1>0, <1>4 DEF Pruned, Touched
  <2> QED BY <1>2, <1>4, <2>1 DEF Pruned
<1>5. ASSUME NEW ls, Dropped(ls) PROVE IndexExact'
  <2>1. ASSUME NEW s \in Series, LibraryOf[s] \in ls PROVE Rows(s, pub') = {}
    BY <1>5, <2>1 DEF Dropped, Without, Rows
  <2>2. ASSUME NEW s \in Series, LibraryOf[s] \notin ls
        PROVE  Rows(s, pub') = Rows(s, pub) /\ index'[s] = index[s]
    BY <1>0, <1>5, <2>2 DEF Dropped, Without, Rows
  <2> QED BY <2>1, <2>2 DEF IInv, IndexExact
<1> QED BY <1>1, <1>3, <1>4, <1>5 DEF RowsChange
-----------------------------------------------------------------------------
(***************************************************************************)
(* Mounts and libraries.                                                   *)
(***************************************************************************)
LEMMA MountsType ==
    ASSUME IInv, Next
    PROVE  /\ mount' \in [Mounts -> MountRow \cup {None}]
           /\ lib' \in [Libraries -> {"none", "enabled", "removed"}]
           /\ DefaultOK'
<1> USE DEF DefaultOK
<1> DEFINE Good == /\ mount' \in [Mounts -> MountRow \cup {None}]
                   /\ mount'[Default] \in MountRow
                   /\ lib' \in [Libraries -> {"none", "enabled", "removed"}]
<1>0. Default \in Mounts /\ Home \in Paths
      /\ mount \in [Mounts -> MountRow \cup {None}] /\ mount[Default] \in MountRow
      /\ lib \in [Libraries -> {"none", "enabled", "removed"}]
  BY CatalogAssumption DEF IInv, TypeOK, DefaultOK
<1>6. CASE AdoptLibraries
  BY <1>0, <1>6 DEF AdoptLibraries
<1>1. CASE (ScanNext /\ ~AdoptLibraries) \/ Tick
  <2>1. mount' = mount /\ lib' = lib
    BY <1>1 DEF ScanNext, ListDirectories, ChooseLibraries, Resolve, Open, Upsert, Prune, FinishScan, CheckRoot,
                SkipLibrary, ListSeries, Look, ScanStep, Tick, rows
  <2> QED BY <1>0, <2>1
<1>2. ASSUME NEW e \in Editors, Write(e) PROVE Good
  <2> DEFINE r == edit[e]
  <2>1. /\ r \in Edits /\ r.mount \in Mounts /\ r.op \in Ops
        /\ r.op \in {"add", "update"} => r.path \in Paths
        /\ r.op \in {"addLibrary", "removeLibrary"} => r.lib \in Libraries
        /\ r.op = "forget" => r.mount # Default
    BY <1>2 DEF Write, IInv, TypeOK, EditsOK, EditOK
  <2>2. CASE UNCHANGED <<rows, lately>>
    BY <1>0, <2>2 DEF rows
  <2>3. ASSUME ~Conflict(r), AddMount(r) PROVE Good
    <3>1. [path |-> r.path, enabled |-> TRUE, scans |-> r.scans] \in MountRow
      BY <2>1, <2>3 DEF AddMount, MountRow, Edits
    <3> QED BY <1>0, <2>1, <2>3, <3>1 DEF AddMount, WriteMount
  <2>4. ASSUME ~Conflict(r), UpdateMount(r) PROVE Good
    <3>1. mount[r.mount] # None
      BY <2>4 DEF UpdateMount, Conflict
    <3>2. mount[r.mount] \in MountRow
      BY <1>0, <2>1, <3>1
    <3>3. [mount[r.mount] EXCEPT !.path = r.path, !.scans = r.scans] \in MountRow
      BY <2>1, <2>4, <3>2 DEF UpdateMount, MountRow, Edits
    <3> QED BY <1>0, <2>1, <2>4, <3>3 DEF UpdateMount, WriteMount
  <2>5. ASSUME ~Conflict(r), EnableMount(r) PROVE Good
    <3>1. mount[r.mount] # None
      BY <2>5 DEF EnableMount, Conflict
    <3>2. mount[r.mount] \in MountRow
      BY <1>0, <2>1, <3>1
    <3>3. [mount[r.mount] EXCEPT !.enabled = (r.op = "reconnect")] \in MountRow
      BY <3>2 DEF MountRow
    <3> QED BY <1>0, <2>1, <2>5, <3>3 DEF EnableMount, WriteMount
  <2>6. CASE ForgetMount(r)
    BY <1>0, <2>1, <2>6 DEF ForgetMount
  <2>7. CASE WriteLibrary(r) \/ RemoveLibrary(r)
    BY <1>0, <2>1, <2>7 DEF WriteLibrary, RemoveLibrary
  <2> QED BY <1>2, <2>2, <2>3, <2>4, <2>5, <2>6, <2>7 DEF Write
<1>3. CASE EditNext /\ \A e \in Editors : ~Write(e)
  <2>1. mount' = mount /\ lib' = lib
    BY <1>3 DEF EditNext, AskAdd, AskUpdate, AskDisconnect, AskReconnect, AskForget, AskAddLibrary,
                AskRemoveLibrary, Ask, AnswerReconnect, AnswerAddLibrary, Answer,
                AskScanLibrary, AskScanMount, AskScan, rows
  <2> QED BY <1>0, <2>1
<1>4. CASE WorldNext /\ ~Restart
  <2>1. mount' = mount /\ lib' = lib
    BY <1>4 DEF WorldNext, DeleteFile, WriteFile, Unplug, Lock, Mend, Change, rows
  <2> QED BY <1>0, <2>1
<1>5. CASE Restart
  <2>1. CASE mount' = mount
    BY <1>0, <1>5, <2>1 DEF Restart
  <2>2. CASE mount' = [mount EXCEPT ![Default].path = Home]
    <3>1. [mount[Default] EXCEPT !.path = Home] \in MountRow
      BY <1>0 DEF MountRow
    <3> QED BY <1>0, <1>5, <2>2, <3>1 DEF Restart
  <2> QED BY <1>5, <2>1, <2>2 DEF Restart
<1> QED BY <1>1, <1>2, <1>3, <1>4, <1>5, <1>6 DEF Next, DefaultOK
-----------------------------------------------------------------------------
(***************************************************************************)
(* What the scan knows of the files of its library.                        *)
(***************************************************************************)
FileOK(f) == SteadyOK(f) /\ AbsentOK(f)

\* What happens beside the scan: a file that was disturbed is steady no more.
LEMMA Undisturbed ==
    ASSUME IInv, InLibrary, scan' = scan, NEW f \in Files, f \in FilesOf(scan.lib),
           lately'[f] = "steady" =>
               /\ lately[f] = "steady" /\ disk'[f] = disk[f] /\ pub'[f] = pub[f]
               /\ scan.root \in plugged' /\ SeriesOf[f] \notin locked',
           lately'[f] = "absent" => lately[f] = "absent" /\ disk'[f] = disk[f]
    PROVE  FileOK(f)'
BY DEF FileOK, SteadyOK, AbsentOK, IInv, WatchOK, Settled

LEMMA NoLibrary == ASSUME scan'.pc \in {"idle", "start", "adopt", "choose", "pick"} PROVE WatchOK'
BY DEF WatchOK, InLibrary

LEMMA BesideScan ==
    ASSUME IInv, scan' = scan, UNCHANGED <<pub, disk, plugged, locked, lately>>
    PROVE  WatchOK'
<1>1. CASE InLibrary
  <2>1. ASSUME NEW f \in Files, f \in FilesOf(scan.lib) PROVE FileOK(f)'
    <3>1. lately[f] = "steady" => scan.root \in plugged /\ SeriesOf[f] \notin locked
      BY <1>1, <2>1 DEF IInv, WatchOK, SteadyOK
    <3> QED BY <1>1, <2>1, <3>1, Undisturbed
  <2> QED BY <1>1, <2>1 DEF WatchOK, FileOK, FilesOf
<1>2. CASE ~InLibrary
  BY <1>2 DEF WatchOK, InLibrary
<1> QED BY <1>1, <1>2

LEMMA ScanWatch == ASSUME IInv, ScanNext PROVE WatchOK'
<1>0. /\ scan \in Scans /\ ScanOK /\ SeriesOf \in [Files -> Series]
      /\ disk \in [Files -> Versions \cup {None}] /\ pub \in [Files -> Versions \cup {None}]
  BY CatalogAssumption DEF IInv, TypeOK
<1>1. ASSUME InLibrary, NEW f \in Files, f \in FilesOf(scan.lib)
      PROVE  FileOK(f) /\ (lately[f] = "steady" => OnDisk(f) = disk[f])
  BY <1>1 DEF FileOK, IInv, WatchOK, SteadyOK, OnDisk
<1>2. ASSUME InLibrary', UNCHANGED <<disk, plugged, locked>>,
             \A f \in Files : f \in FilesOf(scan'.lib) => FileOK(f)'
      PROVE  WatchOK'
  BY <1>2 DEF WatchOK, FileOK, FilesOf
<1>3. CASE ChooseLibraries \/ FinishScan \/ Prune \/ \E l \in Libraries : SkipLibrary(l)
  <2>1. CASE ChooseLibraries \/ FinishScan \/ Prune
    <3>1. \/ scan' = NoScan
          \/ scan' = [NoScan EXCEPT !.pc = "pick", !.libs = Scope(scan.scope)]
          \/ scan' = [NoScan EXCEPT !.pc = "pick", !.libs = scan.libs \ {scan.lib}]
      BY <2>1 DEF ChooseLibraries, FinishScan, Prune, NextLibrary
    <3>2. NoScan.pc = "idle" /\ \A ls : [NoScan EXCEPT !.pc = "pick", !.libs = ls].pc = "pick"
      BY DEF NoScan
    <3>3. scan'.pc \in {"idle", "pick"}
      BY <3>1, <3>2
    <3> QED BY <3>3, NoLibrary
  <2>2. ASSUME NEW l \in Libraries, SkipLibrary(l) PROVE WatchOK'
    <3>1. scan'.pc = "pick"
      BY <1>0, <2>2 DEF SkipLibrary, Scans
    <3> QED BY <3>1, NoLibrary
  <2> QED BY <1>3, <2>1, <2>2
<1>10. CASE ListDirectories \/ AdoptLibraries
  <2>1. scan'.pc \in {"adopt", "choose"}
    BY <1>0, <1>10 DEF ListDirectories, AdoptLibraries, Scans
  <2> QED BY <2>1, NoLibrary
<1>4. ASSUME NEW l \in Libraries, CheckRoot(l) PROVE WatchOK'
  <2> DEFINE root == mount[MountOf[l]].path
             todo == {s \in Series : LibraryOf[s] = l}
  <2>1. scan' = [scan EXCEPT !.pc = "list", !.lib = l, !.root = root, !.todo = todo]
        /\ scan.pc = "pick" /\ UNCHANGED <<disk, plugged, locked>>
        /\ lately' = [f \in Files |-> AtFirst(f, root)]
    BY <1>4 DEF CheckRoot, ScanStep, world
  <2> HIDE DEF root
  <2>2. scan'.pc = "list" /\ scan'.lib = l /\ scan'.root = root /\ scan'.todo = todo /\ scan'.seen = {}
    BY <1>0, <2>1 DEF Scans, ScanOK, InLibrary
  <2>3. ASSUME NEW f \in Files, f \in FilesOf(l) PROVE FileOK(f)'
    <3>1. SeriesOf[f] \in todo
      BY <1>0, <2>3 DEF FilesOf
    <3>2. lately'[f] = "steady" => disk[f] # None /\ root \in plugged /\ SeriesOf[f] \notin locked
      BY <2>1 DEF AtFirst
    <3>3. lately'[f] = "absent" => disk[f] = None
      BY <2>1 DEF AtFirst
    <3> QED BY <2>1, <2>2, <3>1, <3>2, <3>3 DEF FileOK, SteadyOK, AbsentOK, Settled
  <2> QED BY <1>2, <2>1, <2>2, <2>3 DEF InLibrary
<1>5. ASSUME NEW s \in Series, ListSeries(s) PROVE WatchOK'
  <2>1. /\ scan.pc = "list" /\ UNCHANGED <<disk, plugged, locked, pub, lately>>
        /\ scan'.pc = "list" /\ scan'.lib = scan.lib /\ scan'.root = scan.root
        /\ scan'.todo = scan.todo \ {s} /\ scan'.seen = scan.seen \cup Listed(s)
    BY <1>0, <1>5 DEF ListSeries, ScanStep, world, Scans
  <2>2. ASSUME NEW f \in Files, f \in FilesOf(scan.lib) PROVE FileOK(f)'
    <3>1. FileOK(f)
      BY <1>1, <2>1, <2>2 DEF InLibrary
    <3>2. lately[f] = "steady" => SeriesOf[f] \in scan.todo \ {s} \/ f \in scan.seen \cup Listed(s)
      BY <3>1 DEF FileOK, SteadyOK, Listed
    <3>3. lately[f] = "absent" => f \notin scan.seen \cup Listed(s)
      BY <3>1 DEF FileOK, AbsentOK, Listed
    <3> QED BY <2>1, <3>1, <3>2, <3>3 DEF FileOK, SteadyOK, AbsentOK, Settled
  <2> QED BY <1>2, <2>1, <2>2 DEF InLibrary
<1>6. CASE Resolve
  <2>1. CASE scan'.pc \in {"idle", "pick"}
    BY <2>1, NoLibrary
  <2>2. CASE ~(scan'.pc \in {"idle", "pick"})
    <3>1. scan.pc = "list" /\ scan.todo = {} /\ UNCHANGED <<disk, plugged, locked, pub>>
          /\ scan' = [scan EXCEPT !.pc = "files", !.queue = scan.seen]
      BY <1>6, <2>2 DEF Resolve, ScanStep, world, NoScan, NextLibrary
    <3>2. /\ scan'.pc = "files" /\ scan'.lib = scan.lib /\ scan'.root = scan.root
          /\ scan'.todo = {} /\ scan'.seen = scan.seen /\ scan'.queue = scan.seen
      BY <1>0, <3>1 DEF Scans
    <3>3. lately' = lately
      BY <1>6, <3>2 DEF Resolve
    <3>4. ASSUME NEW f \in Files, f \in FilesOf(scan.lib) PROVE FileOK(f)'
      <4>1. FileOK(f)
        BY <1>1, <3>1, <3>4 DEF InLibrary
      <4> QED BY <3>1, <3>2, <3>3, <4>1 DEF FileOK, SteadyOK, AbsentOK, Settled
    <3> QED BY <1>2, <3>1, <3>2, <3>4 DEF InLibrary
  <2> QED BY <2>1, <2>2
<1>7. ASSUME NEW g \in Files, Look(g) PROVE WatchOK'
  <2>1. /\ scan.pc = "files" /\ UNCHANGED <<disk, plugged, locked, pub, lately>>
        /\ scan'.lib = scan.lib /\ scan'.root = scan.root
        /\ scan'.todo = scan.todo /\ scan'.seen = scan.seen /\ scan'.queue = scan.queue \ {g}
    BY <1>0, <1>7 DEF Look, ScanStep, world, Scans
  <2>2. \/ scan'.pc = "files" /\ (OnDisk(g) = None \/ Known(g))
        \/ scan'.pc = "inspect" /\ scan'.file = g /\ scan'.before = None
    BY <1>0, <1>7 DEF Look, Scans
  <2>3. ASSUME NEW f \in Files, f \in FilesOf(scan.lib) PROVE FileOK(f)'
    <3>1. FileOK(f) /\ (lately[f] = "steady" => OnDisk(f) = disk[f])
      BY <1>1, <2>1, <2>3 DEF InLibrary
    <3>2. lately[f] = "steady" /\ Settled(f)' => disk[f] \in Unsafe \/ pub[f] = disk[f]
      BY <2>1, <2>2, <3>1 DEF FileOK, SteadyOK, Settled, Known
    <3> QED BY <2>1, <2>2, <3>1, <3>2 DEF FileOK, SteadyOK, AbsentOK
  <2> QED BY <1>2, <2>1, <2>2, <2>3 DEF InLibrary
<1>8. CASE Open
  <2>0. CASE scan'.pc = "idle"
    BY <2>0, NoLibrary
  <2>1. CASE scan'.pc # "idle"
    <3>1. /\ scan.pc = "inspect" /\ UNCHANGED <<disk, plugged, locked, pub, lately>>
          /\ scan'.lib = scan.lib /\ scan'.root = scan.root /\ scan.before = None
          /\ scan'.todo = scan.todo /\ scan'.seen = scan.seen /\ scan'.queue = scan.queue
      BY <1>0, <1>8, <2>1 DEF Open, ScanStep, world, Scans, NoScan
    <3>2. \/ scan'.pc = "files" /\ (OnDisk(scan.file) = None \/ OnDisk(scan.file) \in Unsafe)
          \/ scan'.pc = "inspect" /\ scan'.file = scan.file /\ scan'.before = OnDisk(scan.file)
      BY <1>0, <1>8, <2>1 DEF Open, Scans, Inspected, NoScan
    <3>3. ASSUME NEW f \in Files, f \in FilesOf(scan.lib) PROVE FileOK(f)'
      <4>1. FileOK(f) /\ (lately[f] = "steady" => OnDisk(f) = disk[f])
        BY <1>1, <3>1, <3>3 DEF InLibrary
      <4>2. lately[f] = "steady" /\ Settled(f)' => disk[f] \in Unsafe \/ pub[f] = disk[f]
        BY <3>1, <3>2, <4>1 DEF FileOK, SteadyOK, Settled
      <4> QED BY <3>1, <3>2, <4>1, <4>2 DEF FileOK, SteadyOK, AbsentOK
    <3> QED BY <1>2, <3>1, <3>2, <3>3 DEF InLibrary
  <2> QED BY <2>0, <2>1
<1>9. CASE Upsert
  <2>1. CASE scan'.pc = "idle"
    BY <2>1, NoLibrary
  <2>2. CASE scan'.pc # "idle"
    <3> DEFINE kept == Unchanged(scan.file, scan.before)
    <3>1. /\ scan.pc = "inspect" /\ scan.before # None /\ UNCHANGED <<disk, plugged, locked, lately>>
          /\ scan' = [scan EXCEPT !.pc = "files", !.file = None, !.before = None]
          /\ kept => pub' = [pub EXCEPT ![scan.file] = scan.before]
          /\ ~kept => pub' = pub
      BY <1>9, <2>2 DEF Upsert, ScanStep, world, NoScan
    <3>2. /\ scan'.pc = "files" /\ scan'.lib = scan.lib /\ scan'.root = scan.root
          /\ scan'.todo = scan.todo /\ scan'.seen = scan.seen /\ scan'.queue = scan.queue
      BY <1>0, <3>1 DEF Scans
    <3>3. ASSUME NEW f \in Files, f \in FilesOf(scan.lib) PROVE FileOK(f)'
      <4>1. FileOK(f) /\ (lately[f] = "steady" => OnDisk(f) = disk[f])
        BY <1>1, <3>1, <3>3 DEF InLibrary
      <4>2. CASE f = scan.file
        <5>1. lately[f] = "steady" => pub'[f] = disk[f]
          BY <1>0, <3>1, <4>1, <4>2 DEF FileOK, SteadyOK, Unchanged
        <5> QED BY <3>1, <3>2, <4>1, <5>1 DEF FileOK, SteadyOK, AbsentOK, Settled
      <4>3. CASE f # scan.file
        <5>1. pub'[f] = pub[f]
          BY <1>0, <3>1, <4>3
        <5> QED BY <3>1, <3>2, <4>1, <4>3, <5>1 DEF FileOK, SteadyOK, AbsentOK, Settled
      <4> QED BY <4>2, <4>3
    <3> QED BY <1>2, <3>1, <3>2, <3>3 DEF InLibrary
  <2> QED BY <2>1, <2>2
<1> QED BY <1>3, <1>4, <1>5, <1>6, <1>7, <1>8, <1>9, <1>10 DEF ScanNext

LEMMA StartedWatch ==
    ASSUME IInv, NEW scope, scan' = Started(scope), UNCHANGED <<pub, disk, plugged, locked, lately>>
    PROVE  WatchOK'
<1>1. CASE ScanActive
  BY <1>1, BesideScan DEF Started
<1>2. CASE ~ScanActive
  <2>1. scan'.pc = "start"
    BY <1>2 DEF Started, Begun, NoScan
  <2> QED BY <2>1, NoLibrary
<1> QED BY <1>1, <1>2

LEMMA EditWatch == ASSUME IInv, EditNext PROVE WatchOK'
<1>0. None \notin Libraries /\ pub \in [Files -> Versions \cup {None}]
  BY CatalogAssumption DEF IInv, TypeOK
<1>1. ASSUME NEW ls, Dropped(ls) PROVE WatchOK'
  <2>1. CASE InLibrary
    <3>1. ASSUME NEW f \in Files, f \in FilesOf(scan.lib) PROVE FileOK(f)'
      <4>1. lately'[f] = "steady" => LibraryOf[SeriesOf[f]] \notin ls /\ lately[f] = "steady"
        BY <1>1 DEF Dropped, Disturbed
      <4>2. lately[f] = "steady" => scan.root \in plugged /\ SeriesOf[f] \notin locked
        BY <2>1, <3>1 DEF IInv, WatchOK, SteadyOK
      <4>3. LibraryOf[SeriesOf[f]] \notin ls => pub'[f] = pub[f]
        BY <1>1 DEF Dropped, Without
      <4>4. lately'[f] = "absent" => lately[f] = "absent"
        BY <1>1 DEF Dropped, Disturbed
      <4> QED BY <1>1, <2>1, <3>1, <4>1, <4>2, <4>3, <4>4, Undisturbed DEF Dropped
    <3> QED BY <1>1, <2>1, <3>1 DEF Dropped, WatchOK, FileOK, FilesOf
  <2>2. CASE ~InLibrary
    BY <1>1, <2>2 DEF Dropped, WatchOK, InLibrary
  <2> QED BY <2>1, <2>2
<1>2. ASSUME NEW e \in Editors, Write(e) PROVE WatchOK'
  <2> DEFINE r == edit[e]
  <2>1. scan' = scan /\ UNCHANGED <<disk, plugged, locked>>
    BY <1>2 DEF Write, EditStep, world
  <2>2. CASE UNCHANGED <<rows, lately>> \/ AddMount(r) \/ UpdateMount(r) \/ EnableMount(r) \/ WriteLibrary(r)
    <3>1. UNCHANGED <<pub, lately>>
      BY <2>2 DEF rows, AddMount, UpdateMount, EnableMount, WriteLibrary, WriteMount
    <3> QED BY <2>1, <3>1, BesideScan
  <2>3. CASE ForgetMount(r)
    <3> DEFINE ls == {l \in Libraries : MountOf[l] = r.mount}
    <3>1. UNION {FilesOf(l) : l \in ls} = {f \in Files : LibraryOf[SeriesOf[f]] \in ls}
      BY DEF FilesOf
    <3>2. Dropped(ls)
      BY <2>1, <2>3, <3>1 DEF ForgetMount, Dropped
    <3> QED BY <1>1, <3>2
  <2>4. CASE RemoveLibrary(r)
    <3>1. FilesOf(r.lib) = {f \in Files : LibraryOf[SeriesOf[f]] \in {r.lib}}
      BY DEF FilesOf
    <3>2. Dropped({r.lib})
      BY <2>1, <2>4, <3>1 DEF RemoveLibrary, Dropped
    <3> QED BY <1>1, <3>2
  <2> QED BY <1>2, <2>2, <2>3, <2>4 DEF Write
<1>3. ASSUME NEW e \in Editors,
             \/ \E m \in Mounts :
                   \/ \E p \in Paths, b \in BOOLEAN : AskAdd(e, m, p, b) \/ AskUpdate(e, m, p, b)
                   \/ AskDisconnect(e, m) \/ AskReconnect(e, m) \/ AskForget(e, m)
             \/ \E l \in Libraries : AskAddLibrary(e, l) \/ AskRemoveLibrary(e, l)
      PROVE  WatchOK'
  <2>1. scan' = scan /\ UNCHANGED <<pub, disk, plugged, locked, lately>>
    BY <1>3 DEF AskAdd, AskUpdate, AskDisconnect, AskReconnect, AskForget, AskAddLibrary,
                AskRemoveLibrary, Ask, EditStep, world, rows
  <2> QED BY <2>1, BesideScan
<1>4. ASSUME NEW e \in Editors, AnswerReconnect(e) \/ AnswerAddLibrary(e) PROVE WatchOK'
  BY <1>4, StartedWatch DEF AnswerReconnect, AnswerAddLibrary, Answer, EditStep, world, rows
<1>5. CASE \/ AskScan("all")
           \/ \E l \in Libraries : AskScanLibrary(l)
           \/ \E m \in Mounts : AskScanMount(m)
  BY <1>5, StartedWatch DEF AskScanLibrary, AskScanMount, AskScan, world, rows
<1> QED BY <1>2, <1>3, <1>4, <1>5 DEF EditNext

LEMMA WorldWatch == ASSUME IInv, WorldNext PROVE WatchOK'
<1>0. /\ None \notin Libraries /\ disk \in [Files -> Versions \cup {None}] /\ ScanOK
      /\ lately \in [Files -> {"steady", "present", "absent", "mixed"}]
  BY CatalogAssumption DEF IInv, TypeOK
<1>1. CASE Restart
  <2>1. scan'.pc \in {"idle", "start"}
    BY <1>1 DEF Restart, Begun, NoScan
  <2> QED BY <2>1, NoLibrary
<1>2. CASE ~InLibrary /\ ~Restart
  <2>1. scan' = scan
    BY <1>2 DEF WorldNext, DeleteFile, WriteFile, Unplug, Lock, Mend
  <2> QED BY <1>2, <2>1 DEF WatchOK, InLibrary
<1>3. CASE InLibrary /\ ~Restart
  <2>1. scan' = scan /\ pub' = pub /\ scan.lib # None /\ scan.root \in Paths
    BY <1>0, <1>3 DEF WorldNext, DeleteFile, WriteFile, Unplug, Lock, Mend, Change, rows, ScanOK
  <2>2. ASSUME NEW f \in Files, f \in FilesOf(scan.lib) PROVE FileOK(f)'
    <3>0. lately[f] = "steady" => scan.root \in plugged /\ SeriesOf[f] \notin locked
      BY <1>3, <2>2 DEF IInv, WatchOK, SteadyOK
    <3> DEFINE Good ==
                 /\ lately'[f] = "steady" =>
                       /\ lately[f] = "steady" /\ disk'[f] = disk[f]
                       /\ scan.root \in plugged' /\ SeriesOf[f] \notin locked'
                 /\ lately'[f] = "absent" => lately[f] = "absent" /\ disk'[f] = disk[f]
    <3>1. ASSUME NEW g \in Files, DeleteFile(g) PROVE Good
      BY <1>0, <2>1, <3>0, <3>1 DEF DeleteFile, Became
    <3>2. ASSUME NEW g \in Files, NEW v \in Versions, WriteFile(g, v) PROVE Good
      BY <1>0, <2>1, <3>0, <3>2 DEF WriteFile, Became
    <3>3. ASSUME NEW p \in Paths, Unplug(p) PROVE Good
      BY <1>0, <3>0, <3>3 DEF Unplug, Disturbed
    <3>4. ASSUME NEW s \in Series, Lock(s) PROVE Good
      BY <1>0, <3>0, <3>4 DEF Lock, Disturbed
    <3>5. ASSUME Mend PROVE Good
      BY <2>1, <3>5 DEF Mend
    <3>6. Good
      BY <1>3, <3>1, <3>2, <3>3, <3>4, <3>5 DEF WorldNext
    <3> QED BY <1>3, <2>1, <2>2, <3>6, Undisturbed
  <2> QED BY <1>3, <2>1, <2>2 DEF WatchOK, FileOK, FilesOf
<1> QED BY <1>1, <1>2, <1>3

LEMMA WatchStep == ASSUME IInv, Next PROVE WatchOK'
<1>1. CASE Tick
  BY <1>1, StartedWatch DEF Tick, rows, world
<1> QED BY <1>1, ScanWatch, EditWatch, WorldWatch DEF Next
-----------------------------------------------------------------------------
(***************************************************************************)
(* The disks, the bounds and the history.                                  *)
(***************************************************************************)
Rest ==
    /\ disk \in [Files -> Versions \cup {None}]
    /\ plugged \subseteq Paths /\ locked \subseteq Series
    /\ up \in BOOLEAN
    /\ changes \in 0..MaxChanges /\ edits \in 0..MaxEdits
    /\ lately \in [Files -> {"steady", "present", "absent", "mixed"}]
    /\ adopted \in BOOLEAN

\* Only a write and a restart give a mount a directory.
ChecksGood == missed \in [Editors -> SUBSET Mounts] /\ unheld \subseteq SUBSET Mounts

LEMMA RestType == ASSUME TypeOK, Next PROVE Rest'
<1>0. Rest /\ MaxChanges \in Nat /\ MaxEdits \in Nat
  BY CatalogAssumption DEF TypeOK, Rest
<1>1. /\ Unwatched \in [Files -> {"steady", "present", "absent", "mixed"}]
      /\ \A fs : Disturbed(fs) \in [Files -> {"steady", "present", "absent", "mixed"}]
      /\ \A p : [f \in Files |-> AtFirst(f, p)] \in [Files -> {"steady", "present", "absent", "mixed"}]
  BY <1>0 DEF Unwatched, Disturbed, AtFirst, Rest
<1>2. CASE ScanNext \/ Tick
  <2>1. UNCHANGED <<disk, plugged, locked, up, changes, edits>>
    BY <1>2 DEF ScanNext, ListDirectories, AdoptLibraries, ChooseLibraries, Resolve, Open, Upsert, Prune, FinishScan, CheckRoot,
                SkipLibrary, ListSeries, Look, ScanStep, Tick, world
  <2>2. lately' = lately \/ lately' = Unwatched \/ \E p : lately' = [f \in Files |-> AtFirst(f, p)]
    BY <1>2 DEF ScanNext, ListDirectories, AdoptLibraries, ChooseLibraries, Resolve, Open, Upsert, Prune, FinishScan, CheckRoot,
                SkipLibrary, ListSeries, Look, Tick
  <2>3. adopted' = adopted \/ adopted' = TRUE
    BY <1>2 DEF ScanNext, ListDirectories, AdoptLibraries, ChooseLibraries, Resolve, Open, Upsert, Prune,
                FinishScan, CheckRoot, SkipLibrary, ListSeries, Look, ScanStep, Tick, rows
  <2> QED BY <1>0, <1>1, <2>1, <2>2, <2>3 DEF Rest
<1>3. CASE EditNext
  <2>1. UNCHANGED <<disk, plugged, locked, up, changes>> /\ (edits' = edits \/ (edits < MaxEdits /\ edits' = edits + 1))
    BY <1>3 DEF EditNext, AskAdd, AskUpdate, AskDisconnect, AskReconnect, AskForget, AskAddLibrary,
                AskRemoveLibrary, Ask, AnswerReconnect, AnswerAddLibrary, Answer, Write, EditStep,
                AskScanLibrary, AskScanMount, AskScan, world
  <2>2. adopted' = adopted /\ (lately' = lately \/ \E fs : lately' = Disturbed(fs))
    <3>1. ASSUME NEW e \in Editors, Write(e)
          PROVE  adopted' = adopted /\ (lately' = lately \/ \E fs : lately' = Disturbed(fs))
      <4> DEFINE r == edit[e]
      <4>1. CASE UNCHANGED <<rows, lately>> \/ AddMount(r) \/ UpdateMount(r) \/ EnableMount(r) \/ WriteLibrary(r)
        BY <4>1 DEF rows, AddMount, UpdateMount, EnableMount, WriteLibrary, WriteMount
      <4>2. CASE ForgetMount(r) \/ RemoveLibrary(r)
        BY <4>2 DEF ForgetMount, RemoveLibrary
      <4> QED BY <3>1, <4>1, <4>2 DEF Write
    <3>2. CASE \A e \in Editors : ~Write(e)
      BY <1>3, <3>2 DEF EditNext, AskAdd, AskUpdate, AskDisconnect, AskReconnect, AskForget,
                        AskAddLibrary, AskRemoveLibrary, Ask, AnswerReconnect, AnswerAddLibrary,
                        Answer, AskScanLibrary, AskScanMount, AskScan, rows
    <3> QED BY <3>1, <3>2
  <2> QED BY <1>0, <1>1, <2>1, <2>2 DEF Rest
<1>4. CASE WorldNext
  <2>0. adopted' = adopted
    BY <1>4 DEF WorldNext, DeleteFile, WriteFile, Unplug, Lock, Mend, Restart, Change, rows
  <2>1. ASSUME NEW f \in Files, DeleteFile(f) PROVE Rest'
    BY <1>0, <2>0, <2>1 DEF DeleteFile, Became, Change, Rest
  <2>2. ASSUME NEW f \in Files, NEW v \in Versions, WriteFile(f, v) PROVE Rest'
    BY <1>0, <2>0, <2>2 DEF WriteFile, Became, Change, Rest
  <2>3. ASSUME NEW p \in Paths, Unplug(p) PROVE Rest'
    BY <1>0, <1>1, <2>0, <2>3 DEF Unplug, Change, Rest
  <2>4. ASSUME NEW s \in Series, Lock(s) PROVE Rest'
    BY <1>0, <1>1, <2>0, <2>4 DEF Lock, Change, Rest
  <2>5. CASE Mend
    BY <1>0, <2>0, <2>5 DEF Mend, Rest
  <2>6. CASE Restart
    <3>1. up' \in BOOLEAN
      BY <2>6 DEF Restart
    <3>2. UNCHANGED <<disk, plugged, locked, edits>> /\ lately' = Unwatched
      BY <2>6 DEF Restart, world
    <3>3. changes' = changes \/ (changes < MaxChanges /\ changes' = changes + 1)
      BY <2>6 DEF Restart
    <3> QED BY <1>0, <1>1, <2>0, <3>1, <3>2, <3>3 DEF Rest
  <2> QED BY <1>4, <2>1, <2>2, <2>3, <2>4, <2>5, <2>6 DEF WorldNext
<1> QED BY <1>2, <1>3, <1>4 DEF Next

LEMMA Unmoved ==
    ASSUME Next, ~Restart, \A e \in Editors : ~Write(e)
    PROVE  /\ mount' = mount /\ unheld' = unheld
           /\ missed' = missed \/ \E e \in Editors : missed' = [missed EXCEPT ![e] = {}]
<1>1. CASE ScanNext \/ Tick
  BY <1>1 DEF ScanNext, ListDirectories, AdoptLibraries, ChooseLibraries, Resolve, Open, Upsert, Prune,
              FinishScan, CheckRoot, SkipLibrary, ListSeries, Look, ScanStep, Tick, rows, checks
<1>2. CASE EditNext
  BY <1>2 DEF EditNext, AskAdd, AskUpdate, AskDisconnect, AskReconnect, AskForget, AskAddLibrary,
              AskRemoveLibrary, Ask, AnswerReconnect, AnswerAddLibrary, Answer,
              AskScanLibrary, AskScanMount, AskScan, rows, checks
<1>3. CASE WorldNext
  BY <1>3 DEF WorldNext, DeleteFile, WriteFile, Unplug, Lock, Mend, Change, rows, checks
<1> QED BY <1>1, <1>2, <1>3 DEF Next

LEMMA ChecksType == ASSUME IInv, Next PROVE ChecksGood'
<1>0. missed \in [Editors -> SUBSET Mounts] /\ unheld \subseteq SUBSET Mounts /\ Default \in Mounts
  BY CatalogAssumption DEF IInv, TypeOK
<1>1. \A m \in Mounts, ns \in SUBSET Mounts : NotHeld(m, ns) \subseteq SUBSET Mounts
  BY <1>0 DEF NotHeld
<1>2. ASSUME NEW e \in Editors, Write(e) PROVE ChecksGood'
  <2>1. edit[e].mount \in Mounts /\ missed[e] \in SUBSET Mounts
    BY <1>0, <1>2 DEF Write, IInv, EditsOK, EditOK
  <2>2. unheld' = unheld \/ unheld' = NotHeld(edit[e].mount, missed[e])
    BY <1>2 DEF Write
  <2>3. missed' \in [Editors -> SUBSET Mounts]
    BY <1>0, <1>2, <2>1 DEF Write
  <2> QED BY <1>0, <1>1, <2>1, <2>2, <2>3 DEF ChecksGood
<1>3. CASE Restart
  <2>1. unheld' = unheld \/ unheld' = NotHeld(Default, Mounts)
    BY <1>3 DEF Restart
  <2>2. missed' \in [Editors -> SUBSET Mounts]
    BY <1>3 DEF Restart
  <2> QED BY <1>0, <1>1, <2>1, <2>2 DEF ChecksGood
<1>4. CASE ~Restart /\ \A e \in Editors : ~Write(e)
  BY <1>0, <1>4, Unmoved DEF ChecksGood
<1> QED BY <1>2, <1>3, <1>4
-----------------------------------------------------------------------------
(***************************************************************************)
(* The invariant, and what follows.                                        *)
(***************************************************************************)
LEMMA InitIInv == Init => IInv
<1> SUFFICES ASSUME Init PROVE IInv
  OBVIOUS
<1>0. scan = [pc |-> "start", scope |-> "all", libs |-> {}, lib |-> None, root |-> None,
              todo |-> {}, seen |-> {}, queue |-> {}, file |-> None, before |-> None]
  BY DEF Init, Begun, NoScan
<1>1. scan \in Scans /\ ScanOK
  BY <1>0 DEF Scans, ScanStates, ScanOK, InLibrary
<1>2. edit \in [Editors -> Edits] /\ EditsOK
  BY DEF Init, NoEdit, Edits, EditsOK, EditOK
<1>3. DefaultOK
  BY CatalogAssumption DEF Init, DefaultOK, MountRow
<1>4. mount \in [Mounts -> MountRow \cup {None}]
  <2>1. mount \in [Mounts -> {row \in MountRow : row.scans} \cup {None}]
    BY DEF Init
  <2> QED BY <2>1
<1>5. TypeOK
  BY <1>1, <1>2, <1>4, CatalogAssumption DEF Init, TypeOK, Unwatched
<1>6. WatchOK
  BY <1>0 DEF WatchOK, InLibrary
<1>7. IndexExact
  BY CatalogAssumption DEF Init, IndexExact, Rows
<1> QED BY <1>1, <1>2, <1>3, <1>5, <1>6, <1>7 DEF IInv

LEMMA Inductive == IInv /\ [Next]_vars => IInv'
<1> SUFFICES ASSUME IInv, [Next]_vars PROVE IInv'
  OBVIOUS
<1>1. CASE Next
  <2>1. TypeOK'
    BY <1>1, EditsStep, ScanStepGood, EveryRowsChange, RowsType, MountsType, RestType, ChecksType
       DEF IInv, TypeOK, ScanGood, Rest, ChecksGood
  <2> QED BY <1>1, <2>1, EditsStep, ScanStepGood, EveryRowsChange, IndexStep, MountsType, WatchStep
          DEF IInv, ScanGood
<1>2. CASE UNCHANGED vars
  BY <1>2 DEF vars, IInv, TypeOK, EditsOK, EditOK, DefaultOK, ScanOK, InLibrary, WatchOK, SteadyOK,
              AbsentOK, Settled, FilesOf, IndexExact, Rows
<1> QED BY <1>1, <1>2

\* What the properties below rest on: exact rows, and what a scan has seen of its library so far.
THEOREM Invariant == Spec => []IInv
<1>1. Init => IInv
  BY InitIInv
<1>2. IInv /\ [Next]_vars => IInv'
  BY Inductive
<1> QED BY <1>1, <1>2, PTL DEF Spec

\* Every variable keeps its type, whatever the disks and the administrators do.
THEOREM TypeCorrect == Spec => []TypeOK
<1>1. IInv => TypeOK
  BY DEF IInv
<1> QED BY <1>1, Invariant, PTL

\* The search row of a series lists exactly its volumes while it has any, across scans,
\* removals and forgotten mounts (_reindex_series, remove_publications_except).
THEOREM IndexAlwaysExact == Spec => []IndexExact
<1>1. IInv => IndexExact
  BY DEF IInv
<1> QED BY <1>1, Invariant, PTL

\* Only the prune ends a library, and its queue is empty then: every file is settled.
LEMMA PruneSound ==
    ASSUME IInv, Next, Pruning, NEW f \in FilesOf(scan.lib)
    PROVE  /\ lately[f] = "steady" => IF disk[f] \in Unsafe THEN pub'[f] = pub[f] ELSE pub'[f] = disk[f]
           /\ lately[f] = "absent" => pub'[f] = None
<1>0. /\ f \in Files /\ scan.pc = "files" /\ scan.queue = {} /\ scan'.pc = "pick"
      /\ scan \in Scans /\ scan.todo = {} /\ pub \in [Files -> Versions \cup {None}]
  BY DEF Pruning, FilesOf, IInv, TypeOK, ScanOK
<1>1. pub' = [g \in Files |-> IF g \in Unseen THEN None ELSE pub[g]]
  <2>1. CASE UNCHANGED <<pub, index>>
    <3>1. ~ListDirectories /\ ~AdoptLibraries /\ ~ChooseLibraries /\ ~Resolve /\ ~Open /\ ~Upsert /\ ~FinishScan
          /\ (\A l \in Libraries : ~CheckRoot(l) /\ ~SkipLibrary(l))
          /\ (\A s \in Series : ~ListSeries(s))
      BY <1>0 DEF ListDirectories, AdoptLibraries, ChooseLibraries, Resolve, Open, Upsert, FinishScan,
                  CheckRoot, SkipLibrary, ListSeries, NoScan, Scans
    <3>2. \A g \in Files : ~Look(g)
      BY <1>0 DEF Look
    <3>3. scan' # scan /\ scan' # NoScan /\ \A scope : scan' # Started(scope)
      BY <1>0 DEF NoScan, Started, ScanActive
    <3>4. ~Tick
      BY <3>3 DEF Tick
    <3>5. ~EditNext
      BY <3>3 DEF EditNext, AskAdd, AskUpdate, AskDisconnect, AskReconnect, AskForget, AskAddLibrary,
                  AskRemoveLibrary, Ask, AnswerReconnect, AnswerAddLibrary, Answer, Write,
                  AskScanLibrary, AskScanMount, AskScan
    <3>6. ~WorldNext
      <4>1. scan' # Begun("all")
        BY <1>0 DEF Begun, NoScan
      <4> QED BY <3>3, <4>1 DEF WorldNext, DeleteFile, WriteFile, Unplug, Lock, Mend, Restart
    <3>7. Prune
      BY <3>1, <3>2, <3>4, <3>5, <3>6 DEF Next, ScanNext
    <3> QED BY <3>7 DEF Prune
  <2>2. ASSUME NEW g \in Files, NEW v \in Versions, Indexed(g, v) PROVE FALSE
    BY <1>0, <2>2 DEF Indexed
  <2>3. ASSUME NEW ls, Dropped(ls) PROVE FALSE
    BY <1>0, <2>3 DEF Dropped
  <2> QED BY <2>1, <2>2, <2>3, EveryRowsChange DEF RowsChange, Pruned
<1>2. SteadyOK(f) /\ AbsentOK(f) /\ Settled(f)
  BY <1>0 DEF IInv, WatchOK, InLibrary, Settled
<1>3. CASE lately[f] = "steady"
  <2>1. f \in scan.seen /\ (disk[f] \in Unsafe \/ pub[f] = disk[f])
    BY <1>0, <1>2, <1>3 DEF SteadyOK
  <2>2. pub'[f] = pub[f]
    BY <1>0, <1>1, <2>1 DEF Unseen
  <2> QED BY <1>3, <2>1, <2>2
<1>4. CASE lately[f] = "absent"
  BY <1>0, <1>1, <1>2, <1>4 DEF AbsentOK, Unseen
<1> QED BY <1>3, <1>4

\* When a scan leaves a library, every archive that lay there readable and unmodified all
\* along is indexed as it is, and what was not there at any time is gone (_scan_library),
\* whatever the administrators and the disks did meanwhile.
THEOREM ScanAlwaysSound == Spec => ScanSound
<1> DEFINE Sound == Pruning => \A f \in FilesOf(scan.lib) :
          /\ lately[f] = "steady" =>
                IF disk[f] \in Unsafe THEN pub'[f] = pub[f]
                ELSE pub'[f] = disk[f]
          /\ lately[f] = "absent" => pub'[f] = None
<1>1. IInv /\ [Next]_vars => [Sound]_vars
  <2> SUFFICES ASSUME IInv, Next PROVE Sound
    OBVIOUS
  <2> QED BY PruneSound
<1> QED BY <1>1, Invariant, PTL DEF Spec, ScanSound
-----------------------------------------------------------------------------
(***************************************************************************)
(* The mounts' directories.                                                *)
(***************************************************************************)
\* No mount but those the request has missed overlaps the directory.
Alone(p, m, ns) == \A n \in Registered : n # m /\ n \notin ns => ~Overlap(p, mount[n].path)

\* A request was held against every mount whose directory was not written since.
AskedApart == \A e \in Editors : Validated(e) => Alone(edit[e].path, edit[e].mount, missed[e])

MountsInv == MountsApart /\ AskedApart

LEMMA OverlapBoth == \A p, q : Overlap(p, q) <=> Overlap(q, p)
<1>1. \A p, q : {p, q} = {q, p}
  OBVIOUS
<1> QED BY <1>1 DEF Overlap

\* A mount that is given a directory: what it overlaps it was not held against.
LEMMA MovedApart ==
    ASSUME IInv, MountsApart, NEW m \in Mounts, NEW row \in MountRow, NEW ns,
           Alone(row.path, m, ns), mount' = [mount EXCEPT ![m] = row], unheld' = NotHeld(m, ns)
    PROVE  MountsApart'
<1> SUFFICES ASSUME NEW a \in Registered', NEW b \in Registered', a # b,
                    Overlap(mount'[a].path, mount'[b].path)
             PROVE  {a, b} \in unheld'
  BY DEF MountsApart
<1>0. a \in Mounts /\ b \in Mounts /\ mount \in [Mounts -> MountRow \cup {None}]
  BY DEF Registered, IInv, TypeOK
<1>1. \A n \in {a, b} : n # m => n \in Registered /\ mount'[n] = mount[n]
  BY <1>0 DEF Registered
<1>2. CASE a = m
  <2>1. b \in ns
    BY <1>0, <1>1, <1>2 DEF Alone
  <2> QED BY <1>2, <2>1 DEF NotHeld
<1>3. CASE b = m
  <2>1. a \in ns
    BY <1>0, <1>1, <1>3, OverlapBoth DEF Alone
  <2>2. {a, b} = {m, a}
    BY <1>3
  <2> QED BY <1>3, <2>1, <2>2 DEF NotHeld
<1>4. CASE a # m /\ b # m
  <2>1. {a, b} \in unheld
    BY <1>1, <1>4 DEF MountsApart
  <2> QED BY <1>4, <2>1 DEF NotHeld
<1> QED BY <1>2, <1>3, <1>4

\* Mounts that keep their directories, or go.
LEMMA KeptApart ==
    ASSUME MountsApart, Registered' \subseteq Registered,
           \A n \in Registered' : mount'[n].path = mount[n].path, unheld' = unheld
    PROVE  MountsApart'
BY DEF MountsApart

\* A row that is written keeps every other, and what no request for a directory wrote
\* keeps the directories.
LEMMA Written ==
    ASSUME IInv, NEW e \in Editors, Write(e)
    PROVE  LET r == edit[e] IN
           \/ /\ ~Conflict(r) /\ r.op \in Moving
              /\ \E row \in MountRow : row.path = r.path /\ mount' = [mount EXCEPT ![r.mount] = row]
           \/ /\ Conflict(r) \/ r.op \notin Moving
              /\ Registered' \subseteq Registered
              /\ \A n \in Registered' : mount'[n].path = mount[n].path
<1> DEFINE r == edit[e]
           Left == /\ Registered' \subseteq Registered
                   /\ \A n \in Registered' : mount'[n].path = mount[n].path
<1>1. /\ r \in Edits /\ r.mount \in Mounts /\ r.pc = "valid"
      /\ r.op \in Moving => r.path \in Paths
      /\ mount \in [Mounts -> MountRow \cup {None}]
  BY DEF Write, IInv, TypeOK, EditsOK, EditOK, Moving
<1>2. ASSUME UNCHANGED <<rows, lately>> \/ WriteLibrary(r) \/ RemoveLibrary(r) PROVE Left
  BY <1>2 DEF rows, WriteLibrary, RemoveLibrary, Registered
<1>3. ASSUME AddMount(r)
      PROVE  r.op \in Moving /\ \E row \in MountRow : row.path = r.path /\ mount' = [mount EXCEPT ![r.mount] = row]
  <2> DEFINE row == [path |-> r.path, enabled |-> TRUE, scans |-> r.scans]
  <2>1. row \in MountRow /\ row.path = r.path
    BY <1>1, <1>3 DEF AddMount, MountRow, Edits, Moving
  <2>2. r.op \in Moving /\ mount' = [mount EXCEPT ![r.mount] = row]
    BY <1>3 DEF AddMount, WriteMount, Moving
  <2> QED BY <2>1, <2>2
<1>4. ASSUME ~Conflict(r), UpdateMount(r)
      PROVE  r.op \in Moving /\ \E row \in MountRow : row.path = r.path /\ mount' = [mount EXCEPT ![r.mount] = row]
  <2> DEFINE row == [mount[r.mount] EXCEPT !.path = r.path, !.scans = r.scans]
  <2>1. mount[r.mount] \in MountRow
    BY <1>1, <1>4 DEF UpdateMount, Conflict
  <2>2. row \in MountRow /\ row.path = r.path
    BY <1>1, <1>4, <2>1 DEF UpdateMount, MountRow, Edits, Moving
  <2>3. r.op \in Moving /\ mount' = [mount EXCEPT ![r.mount] = row]
    BY <1>4 DEF UpdateMount, WriteMount, Moving
  <2> QED BY <2>2, <2>3
<1>5. ASSUME ~Conflict(r), EnableMount(r) PROVE Left /\ r.op \notin Moving
  <2> DEFINE row == [mount[r.mount] EXCEPT !.enabled = (r.op = "reconnect")]
  <2>1. mount[r.mount] \in MountRow /\ r.mount \in Registered
    BY <1>1, <1>5, CatalogAssumption DEF EnableMount, Conflict, Registered
  <2>2. row \in MountRow /\ row.path = mount[r.mount].path
    BY <2>1 DEF MountRow
  <2>3. mount' = [mount EXCEPT ![r.mount] = row]
    BY <1>5 DEF EnableMount, WriteMount
  <2>4. \A n \in Mounts : n # r.mount => mount'[n] = mount[n]
    BY <1>1, <2>3
  <2>5. mount'[r.mount].path = mount[r.mount].path
    BY <1>1, <2>2, <2>3
  <2> QED BY <1>5, <2>1, <2>4, <2>5 DEF Registered, EnableMount, Moving
<1>6. ASSUME ForgetMount(r) PROVE Left /\ r.op \notin Moving
  <2>1. mount' = [mount EXCEPT ![r.mount] = None] /\ r.op \notin Moving
    BY <1>6 DEF ForgetMount, Moving
  <2> QED BY <1>1, <2>1 DEF Registered
<1>7. WriteLibrary(r) \/ RemoveLibrary(r) => r.op \notin Moving
  BY DEF WriteLibrary, RemoveLibrary, Moving
<1>8. CASE Conflict(r)
  BY <1>2, <1>8 DEF Write
<1>9. CASE ~Conflict(r)
  BY <1>2, <1>3, <1>4, <1>5, <1>6, <1>7, <1>9 DEF Write
<1> QED BY <1>8, <1>9

LEMMA WriteApart == ASSUME IInv, MountsInv, NEW e \in Editors, Write(e) PROVE MountsInv'
<1> DEFINE r == edit[e]
<1>1. /\ r \in Edits /\ r.mount \in Mounts /\ r.pc = "valid"
      /\ edit \in [Editors -> Edits] /\ missed \in [Editors -> SUBSET Mounts]
      /\ mount \in [Mounts -> MountRow \cup {None}]
      /\ MountsApart /\ AskedApart
  BY DEF Write, IInv, TypeOK, EditsOK, EditOK, MountsInv
<1>2. edit'[e].pc # "valid" /\ \A x \in Editors : x # e => edit'[x] = edit[x]
  <2>1. \/ edit' = [edit EXCEPT ![e] = NoEdit]
        \/ edit' = [edit EXCEPT ![e] = [edit[e] EXCEPT !.pc = "written"]]
    BY DEF Write
  <2> QED BY <1>1, <2>1 DEF NoEdit, Edits
<1>3. CASE ~Conflict(r) /\ r.op \in Moving
  <2>1. PICK row \in MountRow : row.path = r.path /\ mount' = [mount EXCEPT ![r.mount] = row]
    BY <1>3, Written
  <2>2. unheld' = NotHeld(r.mount, missed[e])
    BY <1>3 DEF Write
  <2>3. Alone(row.path, r.mount, missed[e])
    BY <1>1, <1>3, <2>1 DEF AskedApart, Validated
  <2>4. MountsApart'
    BY <1>1, <2>1, <2>2, <2>3, MovedApart
  <2>5. ASSUME NEW x \in Editors, Validated(x)' PROVE Alone(edit[x].path, edit[x].mount, missed[x])'
    <3>1. x # e /\ edit'[x] = edit[x] /\ Validated(x)
      BY <1>2, <2>5 DEF Validated
    <3>2. missed'[x] = missed[x] \cup {r.mount}
      BY <1>1, <1>3, <3>1 DEF Write
    <3>3. Alone(edit[x].path, edit[x].mount, missed[x])
      BY <1>1, <3>1 DEF AskedApart
    <3>4. \A n \in Registered' : n # r.mount => n \in Registered /\ mount'[n] = mount[n]
      BY <1>1, <2>1 DEF Registered
    <3> QED BY <3>1, <3>2, <3>3, <3>4 DEF Alone
  <2>6. AskedApart'
    BY <2>5 DEF AskedApart
  <2> QED BY <2>4, <2>6 DEF MountsInv
<1>4. CASE Conflict(r) \/ r.op \notin Moving
  <2>1. /\ Registered' \subseteq Registered
        /\ \A n \in Registered' : mount'[n].path = mount[n].path
    BY <1>4, Written
  <2>2. unheld' = unheld /\ missed' = [missed EXCEPT ![e] = {}]
    BY <1>4 DEF Write
  <2>3. MountsApart'
    BY <1>1, <2>1, <2>2, KeptApart
  <2>4. ASSUME NEW x \in Editors, Validated(x)' PROVE Alone(edit[x].path, edit[x].mount, missed[x])'
    <3>1. x # e /\ edit'[x] = edit[x] /\ Validated(x) /\ missed'[x] = missed[x]
      BY <1>1, <1>2, <2>2, <2>4 DEF Validated
    <3> QED BY <1>1, <2>1, <3>1 DEF AskedApart, Alone
  <2>5. AskedApart'
    BY <2>4 DEF AskedApart
  <2> QED BY <2>3, <2>5 DEF MountsInv
<1> QED BY <1>3, <1>4

LEMMA RestartApart == ASSUME IInv, MountsInv, Restart PROVE MountsInv'
<1>0. Default \in Mounts /\ Home \in Paths /\ MountsApart
      /\ mount \in [Mounts -> MountRow \cup {None}] /\ mount[Default] \in MountRow
  BY CatalogAssumption DEF IInv, TypeOK, DefaultOK, MountsInv
<1>1. AskedApart'
  BY DEF Restart, AskedApart, Validated, NoEdit
<1>2. CASE mount' = mount
  <2>1. unheld' = unheld
    BY <1>2 DEF Restart
  <2> QED BY <1>0, <1>1, <1>2, <2>1, KeptApart DEF Registered, MountsInv
<1>3. CASE mount' # mount
  <2> DEFINE row == [mount[Default] EXCEPT !.path = Home]
  <2>1. row \in MountRow
    BY <1>0 DEF MountRow
  <2>2. mount' = [mount EXCEPT ![Default] = row] /\ unheld' = NotHeld(Default, Mounts)
    BY <1>0, <1>3 DEF Restart
  <2>3. Alone(row.path, Default, Mounts)
    BY DEF Alone, Registered
  <2> HIDE DEF row
  <2>4. MountsApart'
    BY <1>0, <2>1, <2>2, <2>3, MovedApart
  <2> QED BY <1>1, <2>4 DEF MountsInv
<1> QED BY <1>2, <1>3

\* What a step does to a request, mounts left alone: it was just found valid, or it
\* is as it was, or it is not waiting to be written.
LEMMA AskedStep ==
    ASSUME IInv, AskedApart, Next, ~Restart, \A f \in Editors : ~Write(f), NEW e \in Editors, Validated(e)'
    PROVE  Alone(edit'[e].path, edit'[e].mount, missed'[e])
<1>0. edit \in [Editors -> Edits] /\ missed \in [Editors -> SUBSET Mounts]
  BY DEF IInv, TypeOK
<1>1. CASE edit'[e] = edit[e] /\ missed'[e] = missed[e]
  BY <1>1 DEF AskedApart, Validated
<1>2. ASSUME NEW f \in Editors, NEW r, edit' = [edit EXCEPT ![f] = r],
             missed' = missed \/ missed' = [missed EXCEPT ![f] = {}],
             r.pc = "valid" /\ r.op \in Moving => Alone(r.path, r.mount, {}) /\ missed'[f] = {}
      PROVE  Alone(edit'[e].path, edit'[e].mount, missed'[e])
  <2>1. CASE e = f
    BY <1>0, <1>2, <2>1 DEF Validated
  <2>2. CASE e # f
    BY <1>0, <1>1, <1>2, <2>2
  <2> QED BY <2>1, <2>2
<1>3. ASSUME NEW f \in Editors, NEW m \in Mounts, NEW p \in Paths, NEW b \in BOOLEAN,
             AskAdd(f, m, p, b) \/ AskUpdate(f, m, p, b)
      PROVE  Alone(edit'[e].path, edit'[e].mount, missed'[e])
  <2>1. PICK op \in Ops : /\ edit' = [edit EXCEPT ![f] = Request(op, m, None, p, b)]
                          /\ ValidPath(p, m) /\ missed' = [missed EXCEPT ![f] = {}]
    BY <1>3 DEF AskAdd, AskUpdate, MayAdd, MayUpdate, Ask, Ops
  <2>2. Alone(p, m, {})
    BY <2>1 DEF ValidPath, RejectOverlap, Alone
  <2> QED BY <1>0, <1>2, <2>1, <2>2 DEF Request
<1>4. ASSUME NEW f \in Editors, NEW op \in Ops, NEW m \in Mounts, NEW l \in Libraries \cup {None},
             op \notin Moving, Ask(f, Request(op, m, l, None, FALSE))
      PROVE  Alone(edit'[e].path, edit'[e].mount, missed'[e])
  BY <1>2, <1>4 DEF Ask, Request
<1>5. CASE EditNext
  <2>1. ASSUME NEW f \in Editors, NEW m \in Mounts,
               AskDisconnect(f, m) \/ AskReconnect(f, m) \/ AskForget(f, m)
        PROVE  Alone(edit'[e].path, edit'[e].mount, missed'[e])
    <3>1. CASE Ask(f, Request("disconnect", m, None, None, FALSE))
      BY <1>4, <3>1 DEF Ops, Moving
    <3>2. CASE Ask(f, Request("reconnect", m, None, None, FALSE))
      BY <1>4, <3>2 DEF Ops, Moving
    <3>3. CASE Ask(f, Request("forget", m, None, None, FALSE))
      BY <1>4, <3>3 DEF Ops, Moving
    <3> QED BY <2>1, <3>1, <3>2, <3>3 DEF AskDisconnect, AskReconnect, AskForget
  <2>2. ASSUME NEW f \in Editors, NEW l \in Libraries, AskAddLibrary(f, l) \/ AskRemoveLibrary(f, l)
        PROVE  Alone(edit'[e].path, edit'[e].mount, missed'[e])
    <3>0. MountOf[l] \in Mounts
      BY CatalogAssumption
    <3>1. CASE Ask(f, Request("addLibrary", MountOf[l], l, None, FALSE))
      BY <1>4, <3>0, <3>1 DEF Ops, Moving
    <3>2. CASE Ask(f, Request("removeLibrary", MountOf[l], l, None, FALSE))
      BY <1>4, <3>0, <3>2 DEF Ops, Moving
    <3> QED BY <2>2, <3>1, <3>2 DEF AskAddLibrary, AskRemoveLibrary
  <2>3. ASSUME NEW f \in Editors, AnswerReconnect(f) \/ AnswerAddLibrary(f)
        PROVE  Alone(edit'[e].path, edit'[e].mount, missed'[e])
    <3>1. edit' = [edit EXCEPT ![f] = NoEdit] /\ NoEdit.pc = "idle" /\ missed' = missed
      BY <2>3 DEF AnswerReconnect, AnswerAddLibrary, Answer, NoEdit, checks
    <3> QED BY <1>2, <3>1
  <2>4. CASE \/ AskScan("all")
             \/ \E l \in Libraries : AskScanLibrary(l)
             \/ \E m \in Mounts : AskScanMount(m)
    BY <1>1, <2>4 DEF AskScanLibrary, AskScanMount, AskScan, checks
  <2> QED BY <1>3, <1>5, <2>1, <2>2, <2>3, <2>4 DEF EditNext
<1>6. CASE ScanNext \/ Tick
  <2>1. edit' = edit /\ missed' = missed
    BY <1>6 DEF ScanNext, ListDirectories, AdoptLibraries, ChooseLibraries, Resolve, Open, Upsert, Prune,
                FinishScan, CheckRoot, SkipLibrary, ListSeries, Look, ScanStep, Tick, checks
  <2> QED BY <1>1, <2>1
<1>7. CASE WorldNext
  <2>1. edit' = edit /\ missed' = missed
    BY <1>7 DEF WorldNext, DeleteFile, WriteFile, Unplug, Lock, Mend, Change, checks
  <2> QED BY <1>1, <2>1
<1> QED BY <1>5, <1>6, <1>7 DEF Next

LEMMA MountsInductive == ASSUME IInv, MountsInv, Next PROVE MountsInv'
<1>1. CASE \E e \in Editors : Write(e)
  BY <1>1, WriteApart
<1>2. CASE Restart
  BY <1>2, RestartApart
<1>3. CASE ~Restart /\ \A e \in Editors : ~Write(e)
  <2>1. mount' = mount /\ unheld' = unheld
    BY <1>3, Unmoved
  <2>2. MountsApart'
    BY <2>1 DEF MountsInv, MountsApart, Registered
  <2>3. AskedApart'
    BY <1>3, <2>1, AskedStep DEF MountsInv, AskedApart, Alone, Registered
  <2> QED BY <2>2, <2>3 DEF MountsInv
<1> QED BY <1>1, <1>2, <1>3

\* Two mounts overlap only if they were never held against each other: one was given its
\* directory while a validated request for the other waited to be written, or a restart put the
\* original one back (_reject_overlap, ensure_default_mount).  For any directories and
\* mounts, however many requests run together.
THEOREM MountsStayApart == Spec => []MountsApart
<1>1. Init => MountsInv
  BY DEF Init, MountsInv, MountsApart, NoOverlap, AskedApart, Validated, NoEdit
<1>2. IInv /\ MountsInv /\ [Next]_vars => MountsInv'
  <2>1. CASE UNCHANGED vars
    BY <2>1 DEF vars, MountsInv, MountsApart, AskedApart, Validated, Alone, Registered
  <2> QED BY <2>1, MountsInductive
<1>3. MountsInv => MountsApart
  BY DEF MountsInv
<1> QED BY <1>1, <1>2, <1>3, Invariant, PTL DEF Spec
=============================================================================
