------------------------------- MODULE Ingest -------------------------------
(***************************************************************************)
(* Placing staged volumes in the media directory (librarian.py,            *)
(* IngestService: stage, commit, discard, _place, _sweep_expired).         *)
(*                                                                         *)
(* Nothing here takes a lock: calls run on worker threads, and what they   *)
(* share is two directories.  Every system call is a step.  The process    *)
(* may die between any two of them.  With power loss a file that was never *)
(* synced may come back torn, and what was done to a directory and never   *)
(* synced may not have happened: a name may be missing, and a name that    *)
(* was removed may be back.  A directory that mkdir made has an entry of   *)
(* its own in its parent, which nothing syncs.                             *)
(*                                                                         *)
(* A staged upload is a pair: the archive `<id>.cbz` and its record, the   *)
(* sidecar `<id>.json`.                                                    *)
(***************************************************************************)
EXTENDS Naturals

CONSTANTS
    Ids,        \* ingest ids
    Names,      \* file names in one series' directory
    Jobs,       \* calls of commit that may run together
    Withdraws,  \* calls of discard, and sweeps, that may run together
    PowerLosses, \* how often the machine may lose power, at most: bounds the run
    None

\* A file made of an upload: how much of it there is ("torn": it is a whole copy
\* of a staged archive that a power loss had torn), and whether it was synced.
Contents == [id : Ids, bytes : {"part", "whole", "torn"}, safe : BOOLEAN]

\* What was in the directory before.
Foreign == [id |-> None, bytes |-> "whole", safe |-> TRUE]

ASSUME IngestAssumption ==
    /\ PowerLosses \in Nat
    /\ None \notin Ids \cup Names \cup Contents \cup {Foreign}

VARIABLES
    staging,   \* calls of stage that have stored an archive and not its record
    archive,   \* the staged archives
    sidecar,   \* the records: which exist
    erased,    \* the records that were removed, which may come back
    dir,       \* the series' directory: "new" if its own entry is not on disk
    file,      \* the files in the series' directory, by name
    synced,    \* the names whose entry in the directory is on disk
    job,       \* the calls of commit
    withdraw,  \* the calls of discard, and the sweeps
    owed,      \* staged uploads the agent was told of and nobody withdrew
    placed,    \* uploads whose commit was answered "placed"
    exposed,   \* history: those answered while their directory was "new"
    struck,    \* history: those owed that a power loss took
    losses     \* losses of power so far

vars == <<staging, archive, sidecar, erased, dir, file, synced, job, withdraw,
          owed, placed, exposed, struck, losses>>

history == <<owed, placed, exposed, struck, losses>>

NoJob == [pc |-> "idle", id |-> None, name |-> None, source |-> "absent", copy |-> None]

NoWithdrawal == [pc |-> "idle", id |-> None]

JobStates ==
    {"idle", "loaded", "checked", "made", "opened", "copied", "linked", "entered", "cleaned", "removed"}

JobRecords ==
    [pc : JobStates, id : Ids \cup {None}, name : Names \cup {None},
     source : {"absent", "whole", "torn"}, copy : Contents \cup {None}]

TypeOK ==
    /\ staging \subseteq Ids
    /\ archive \in [Ids -> {"absent", "whole", "torn", "unlinked"}]
    /\ sidecar \subseteq Ids
    /\ erased \subseteq Ids
    /\ dir \in {"absent", "new", "kept"}
    /\ file \in [Names -> Contents \cup {Foreign, None}]
    /\ synced \subseteq Names
    /\ job \in [Jobs -> JobRecords]
    /\ withdraw \in [Withdraws ->
          [pc : {"idle", "seen", "emptied"}, id : Ids \cup {None}]]
    /\ owed \subseteq Ids
    /\ placed \subseteq Ids
    /\ exposed \subseteq Ids
    /\ struck \subseteq Ids
    /\ losses \in 0 .. PowerLosses

Init ==
    /\ staging = {}
    /\ archive = [i \in Ids |-> "absent"]
    /\ sidecar = {}
    /\ erased = {}
    /\ dir \in {"absent", "kept"}
    /\ file \in [Names -> IF dir = "kept" THEN {Foreign, None} ELSE {None}]
    /\ synced = {n \in Names : file[n] # None}
    /\ job = [j \in Jobs |-> NoJob]
    /\ withdraw = [w \in Withdraws |-> NoWithdrawal]
    /\ owed = {}
    /\ placed = {}
    /\ exposed = {}
    /\ struck = {}
    /\ losses = 0

-----------------------------------------------------------------------------
(***************************************************************************)
(* Staging.  The quota's part is in StagingQuota.                          *)
(***************************************************************************)
Staged(i) == archive[i] \in {"whole", "torn"}

Holds(n, i) == file[n] # None /\ file[n].id = i

\* Ids are drawn at random: a new one is not in use anywhere.
Fresh(i) ==
    /\ archive[i] = "absent"
    /\ i \notin sidecar \cup erased \cup owed \cup placed
    /\ \A n \in Names : ~Holds(n, i)
    /\ \A j \in Jobs : job[j].id # i
    /\ \A w \in Withdraws : withdraw[w].id # i

\* _store and the inspection succeed.
Store(i) ==
    /\ Fresh(i)
    /\ archive' = [archive EXCEPT ![i] = "whole"]
    /\ staging' = staging \cup {i}
    /\ UNCHANGED <<sidecar, erased, dir, file, synced, job, withdraw, history>>

\* _write_sidecar, and the answer to the agent.
WriteSidecar(i) ==
    /\ i \in staging
    /\ staging' = staging \ {i}
    /\ sidecar' = sidecar \cup {i}
    /\ owed' = owed \cup {i}
    /\ UNCHANGED <<archive, erased, dir, file, synced, job, withdraw, placed, exposed, struck, losses>>

-----------------------------------------------------------------------------
(***************************************************************************)
(* commit.                                                                 *)
(***************************************************************************)
Goto(j, pc) == job' = [job EXCEPT ![j].pc = pc]

Done(j) == job' = [job EXCEPT ![j] = NoJob]

\* The staging directory is never synced: what is removed from it may come back.
Unlink(i) == archive' = [archive EXCEPT ![i] = IF Staged(i) THEN "unlinked" ELSE @]

Erase(i) ==
    /\ sidecar' = sidecar \ {i}
    /\ erased' = erased \cup (sidecar \cap {i})

\* _load finds the record; the name is the suggested one or the caller's.
Load(j, i, n) ==
    /\ job[j].pc = "idle"
    /\ i \in sidecar
    /\ job' = [job EXCEPT ![j] =
          [pc |-> "loaded", id |-> i, name |-> n, source |-> "absent", copy |-> None]]
    /\ UNCHANGED <<staging, archive, sidecar, erased, dir, file, synced, withdraw, history>>

\* staged_file.is_file() and the cheap look at the target.
Check(j) ==
    /\ job[j].pc = "loaded"
    /\ \/ /\ ~Staged(job[j].id) \/ file[job[j].name] # None
          /\ Done(j)
       \/ /\ Staged(job[j].id)
          /\ file[job[j].name] = None
          /\ Goto(j, "checked")
    /\ UNCHANGED <<staging, archive, sidecar, erased, dir, file, synced, withdraw, history>>

\* mkdir(parents=True, exist_ok=True): the series is in the catalog, but its
\* directory may have gone since.  Its entry in the parent is never synced.
MakeDirectory(j) ==
    /\ job[j].pc = "checked"
    /\ dir' = IF dir = "absent" THEN "new" ELSE dir
    /\ Goto(j, "made")
    /\ UNCHANGED <<staging, archive, sidecar, erased, file, synced, withdraw, history>>

\* mkstemp, then opening the archive, which may have gone: an OSError.
Open(j) ==
    /\ job[j].pc = "made"
    /\ \/ /\ ~Staged(job[j].id)
          /\ Done(j)
       \/ /\ Staged(job[j].id)
          /\ job' = [job EXCEPT ![j].pc = "opened",
                ![j].source = archive[job[j].id],
                ![j].copy = [id |-> job[j].id, bytes |-> "part", safe |-> FALSE]]
    /\ UNCHANGED <<staging, archive, sidecar, erased, dir, file, synced, withdraw, history>>

\* Mutant of Copy: the copy is not synced.
CopyUnsynced(j) ==
    /\ job[j].pc = "opened"
    /\ \/ Done(j)
       \/ job' = [job EXCEPT ![j].pc = "copied", ![j].copy.bytes = job[j].source]
    /\ UNCHANGED <<staging, archive, sidecar, erased, dir, file, synced, withdraw, history>>

\* The bytes are copied into the temporary file and synced.  The open handle
\* keeps them readable whoever unlinks the archive.  A failed write removes the
\* temporary file and the call ends.
Copy(j) ==
    /\ job[j].pc = "opened"
    /\ \/ Done(j)
       \/ job' = [job EXCEPT ![j].pc = "copied",
             ![j].copy = [@ EXCEPT !.bytes = job[j].source, !.safe = TRUE]]
    /\ UNCHANGED <<staging, archive, sidecar, erased, dir, file, synced, withdraw, history>>

\* Mutant of Link: the staged archive goes although the name is taken.
LinkConsumes(j) ==
    /\ job[j].pc = "copied"
    /\ \/ /\ file[job[j].name] # None
          /\ Done(j)
          /\ Unlink(job[j].id)
          /\ UNCHANGED file
       \/ /\ file[job[j].name] = None
          /\ file' = [file EXCEPT ![job[j].name] = job[j].copy]
          /\ Goto(j, "linked")
          /\ UNCHANGED archive
    /\ UNCHANGED <<staging, sidecar, erased, dir, synced, withdraw, history>>

\* os.link, which fails when the name is taken.
Link(j) ==
    /\ job[j].pc = "copied"
    /\ \/ /\ file[job[j].name] # None
          /\ Done(j)
          /\ UNCHANGED file
       \/ /\ file[job[j].name] = None
          /\ file' = [file EXCEPT ![job[j].name] = job[j].copy]
          /\ Goto(j, "linked")
    /\ UNCHANGED <<staging, archive, sidecar, erased, dir, synced, withdraw, history>>

\* _sync_directory: the names that are in the directory are on disk, once the
\* directory is.  When it fails the call is refused, and the name stays.
SyncDirectory(j) ==
    /\ job[j].pc = "linked"
    /\ \/ /\ Done(j)
          /\ UNCHANGED synced
       \/ /\ synced' = synced \cup {n \in Names : file[n] # None}
          /\ Goto(j, "entered")
    /\ UNCHANGED <<staging, archive, sidecar, erased, dir, file, withdraw, history>>

\* The `finally` of _place: the temporary name is removed.
Cleanup(j) ==
    /\ job[j].pc = "entered"
    /\ Goto(j, "cleaned")
    /\ UNCHANGED <<staging, archive, sidecar, erased, dir, file, synced, withdraw, history>>

\* source.unlink
UnlinkArchive(j) ==
    /\ job[j].pc = "cleaned"
    /\ Unlink(job[j].id)
    /\ Goto(j, "removed")
    /\ UNCHANGED <<staging, sidecar, erased, dir, file, synced, withdraw, history>>

\* The record goes last, and the agent is answered.
Answer(j) ==
    /\ job[j].pc = "removed"
    /\ Erase(job[j].id)
    /\ placed' = placed \cup {job[j].id}
    /\ exposed' = exposed \cup (IF dir = "new" THEN {job[j].id} ELSE {})
    /\ Done(j)
    /\ UNCHANGED <<staging, archive, dir, file, synced, withdraw, owed, struck, losses>>

-----------------------------------------------------------------------------
(***************************************************************************)
(* discard, and the sweep of pairs older than a day: each looks at the     *)
(* record, removes the archive, then the record.                           *)
(***************************************************************************)
WithdrawBegin(w, i) ==
    /\ withdraw[w].pc = "idle"
    /\ i \in sidecar
    /\ withdraw' = [withdraw EXCEPT ![w] = [pc |-> "seen", id |-> i]]
    /\ UNCHANGED <<staging, archive, sidecar, erased, dir, file, synced, job, history>>

WithdrawArchive(w) ==
    /\ withdraw[w].pc = "seen"
    /\ Unlink(withdraw[w].id)
    /\ owed' = owed \ {withdraw[w].id}
    /\ withdraw' = [withdraw EXCEPT ![w].pc = "emptied"]
    /\ UNCHANGED <<staging, sidecar, erased, dir, file, synced, job, placed, exposed, struck, losses>>

WithdrawSidecar(w) ==
    /\ withdraw[w].pc = "emptied"
    /\ Erase(withdraw[w].id)
    /\ withdraw' = [withdraw EXCEPT ![w] = NoWithdrawal]
    /\ UNCHANGED <<staging, archive, dir, file, synced, job, history>>

\* Mutant of SweepOrphan: an archive that is still being staged is swept too.
SweepYoung(i) ==
    /\ Staged(i)
    /\ i \notin sidecar
    /\ Unlink(i)
    /\ UNCHANGED <<staging, sidecar, erased, dir, file, synced, job, withdraw, history>>

\* The sweep of archives with no record, a day after they were stored.
SweepOrphan(i) ==
    /\ Staged(i)
    /\ i \notin sidecar \cup staging
    /\ Unlink(i)
    /\ UNCHANGED <<staging, sidecar, erased, dir, file, synced, job, withdraw, history>>

-----------------------------------------------------------------------------
Restarted ==
    /\ staging' = {}
    /\ job' = [j \in Jobs |-> NoJob]
    /\ withdraw' = [w \in Withdraws |-> NoWithdrawal]

\* The process dies; the kernel keeps every file as it is.
Crash ==
    /\ Restarted
    /\ UNCHANGED <<archive, sidecar, erased, dir, file, synced, history>>

\* What a power loss may leave of a staged archive, which was never synced.
Left(a) ==
    CASE a = "absent" -> {"absent"}
      [] a = "torn" -> {"absent", "torn"}
      [] OTHER -> {"absent", "whole", "torn"}

Taken == {n \in Names : file[n] # None}

\* The machine dies; whether the kernel had written a new directory's entry to disk in
\* its own time shows now.  Of the staged archives and records, and of those removed
\* since, any may be there afterwards; a record that comes back torn does not
\* load, which is as good as gone.  The names in the directory that were synced
\* stay, if the directory does; bytes that were not synced may be gone.
LosePower(after, records, d, names) ==
    /\ losses < PowerLosses
    /\ losses' = losses + 1
    /\ Restarted
    /\ \A i \in Ids : after[i] \in Left(archive[i])
    /\ records \subseteq sidecar \cup erased
    /\ dir = "new" \/ d = dir
    /\ names \subseteq Taken /\ (IF d = "absent" THEN names = {} ELSE synced \subseteq names)
    /\ archive' = after
    /\ sidecar' = records
    /\ erased' = {}
    /\ dir' = d
    /\ file' = [n \in Names |->
          IF n \notin names THEN None
          ELSE IF file[n].safe THEN file[n] ELSE [file[n] EXCEPT !.bytes = "part"]]
    /\ synced' = names
    /\ struck' = struck \cup {i \in owed :
          /\ after[i] = "absent" \/ i \notin records
          /\ ~\E n \in names : Holds(n, i)}
    /\ UNCHANGED <<owed, placed, exposed>>

Commit(j) ==
    \/ \E i \in Ids, n \in Names : Load(j, i, n)
    \/ Check(j) \/ MakeDirectory(j) \/ Open(j) \/ Copy(j) \/ Link(j) \/ SyncDirectory(j)
    \/ Cleanup(j) \/ UnlinkArchive(j) \/ Answer(j)

Next ==
    \/ \E i \in Ids : Store(i) \/ WriteSidecar(i) \/ SweepOrphan(i)
    \/ \E j \in Jobs : Commit(j)
    \/ \E w \in Withdraws :
          \/ \E i \in Ids : WithdrawBegin(w, i)
          \/ WithdrawArchive(w)
          \/ WithdrawSidecar(w)
    \/ Crash
    \/ \E after \in [Ids -> {"absent", "whole", "torn"}], records \in SUBSET Ids,
          d \in {"absent", "kept"}, names \in SUBSET Names :
          LosePower(after, records, d, names)

Spec == Init /\ [][Next]_vars

-----------------------------------------------------------------------------
(***************************************************************************)
(* Properties.                                                             *)
(***************************************************************************)

\* "placement never overwrites": whatever commits, crashes and restarts do, a
\* file that has a name keeps it and its bytes; only a power loss takes a name
\* back, when it was not synced or its directory was new.
NoOverwrite ==
    [][\A n \in Names : file[n] # None =>
          \/ file'[n] = file[n]
          \/ (n \notin synced \/ dir = "new") /\ file'[n] = None]_vars

\* "the name never names a partial file" (_place): what a scan finds under a
\* real name is a complete copy of what was staged, crash or no crash.  What was
\* staged may itself have been torn by a loss of power before: it is never
\* synced, and nothing compares it with its digest when it is placed.
NamesAreComplete == \A n \in Names : file[n] # None => file[n].bytes # "part" /\ file[n].safe

OnDisk(i) == \E n \in synced : Holds(n, i)

\* An upload whose commit was answered is in the library for good, unless the
\* commit made the directory and nobody had written that to disk.
PlacedIsDurable == \A i \in placed : OnDisk(i) \/ i \in exposed

\* An upload the agent was told of is staged, with its record, or on disk until
\* somebody withdraws it: a refused, failed or interrupted commit, or a second
\* one racing it, loses nothing.  A loss of power takes it only while it is
\* staged, or if it was placed in a directory that was new.
NothingLost ==
    /\ \A i \in owed : (Staged(i) /\ i \in sidecar) \/ OnDisk(i) \/ i \in struck
    /\ PlacedIsDurable

\* What the commits that have opened an archive read from it.
Copying ==
    {[id |-> job[j].id, bytes |-> job[j].source, safe |-> TRUE] :
        j \in {k \in Jobs : job[k].pc \in {"opened", "copied"}}}

Promise == INSTANCE Placement WITH
    PowerLoss <- PowerLosses > 0, staged <- archive, copying <- Copying,
    firm <- dir = "kept", shelf <- file, kept <- synced

\* Seen from outside, commits, withdrawals, sweeps, crashes and losses of power are
\* steps of Placement.  In particular a commit places, at one stroke, what was staged
\* when it opened the archive, a staged upload goes only when it is on disk or
\* withdrawn, and nothing that was placed is torn or overwritten after that.
PlacementAsPromised == Promise!Spec
=============================================================================
