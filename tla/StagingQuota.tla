---------------------------- MODULE StagingQuota ----------------------------
(***************************************************************************)
(* The staging allowance of one librarian token (librarian.py,             *)
(* StagingQuota and the upload half of IngestService.stage).               *)
(*                                                                         *)
(* Uploads run on worker threads.  Only the quota's own list is under a    *)
(* lock: what the token already has staged is read before, and an upload   *)
(* leaves the list before its record is written.  Bytes are counted in     *)
(* chunks.                                                                 *)
(***************************************************************************)
EXTENDS Naturals, Sequences, FiniteSets, FiniteSetsExt

CONSTANTS
    Uploads,    \* ingest ids
    Workers,    \* threads, so calls of stage that run together
    MaxFiles,   \* staging_max_per_token
    MaxBytes,   \* staging_max_bytes_per_token
    MaxUpload,  \* max_upload_bytes
    Disk,       \* chunks the state volume can hold
    Reserve     \* disk_free_reserve

ASSUME QuotaAssumption ==
    /\ IsFiniteSet(Uploads)
    /\ MaxFiles \in Nat \ {0}
    /\ Workers \in Nat \ {0}
    /\ {MaxBytes, MaxUpload, Disk, Reserve} \subseteq Nat

VARIABLES
    phase,   \* where each upload is
    active,  \* _active[token]: the _Upload objects of the list, oldest first
    written, \* _Upload.written of each upload
    held,    \* what each upload was told is staged: files and bytes
    size,    \* bytes of each upload's file in the staging directory
    missed,  \* history: files that a call was not told of, though staged
    astray,  \* history: files whose entry another call took off the list
    failed   \* history: how many calls found no entry to take off the list

quotaVars == <<phase, active, written, held, size, missed, astray, failed>>

Phases ==
    {"new",      \* no call, or one that ended and left no file
     "asked",    \* has read what is staged, not yet admitted
     "inside",   \* admitted, about to read a chunk
     "writing",  \* the chunk was accepted, not yet written
     "stored",   \* out of `admit`, being inspected
     "staged",   \* its record is written
     "orphan"}   \* the call failed and left the file

QuotaTypeOK ==
    /\ phase \in [Uploads -> Phases]
    /\ active \in Seq(Uploads)
    /\ written \in [Uploads -> Nat]
    /\ held \in [Uploads -> [files : Nat, bytes : Nat]]
    /\ size \in [Uploads -> Nat]
    /\ missed \subseteq Uploads
    /\ astray \subseteq Uploads
    /\ failed \in Nat

Nothing == [files |-> 0, bytes |-> 0]

QuotaInit ==
    /\ phase = [u \in Uploads |-> "new"]
    /\ active = <<>>
    /\ written = [u \in Uploads |-> 0]
    /\ held = [u \in Uploads |-> Nothing]
    /\ size = [u \in Uploads |-> 0]
    /\ missed = {}
    /\ astray = {}
    /\ failed = 0

-----------------------------------------------------------------------------
\* The chunks of these uploads, each with its place in its file, and how many.
Chunks(f, S) == UNION {{u} \X (1..f[u]) : u \in S}

Total(f, S) == Cardinality(Chunks(f, S))

In(S) == {u \in Uploads : phase[u] \in S}

Inside == In({"inside", "writing"})

Calls == In({"asked", "inside", "writing", "stored"})

Listed == {active[i] : i \in 1..Len(active)}

\* _free_bytes
Free == Disk - Total(size, Uploads)

-----------------------------------------------------------------------------
\* pending(token) leaves out the records of a series that is gone from the catalog
\* or of a library the token does not reach (any more), and those that cannot be
\* read: `unseen`.
Told(gone, unseen) == In({"staged"}) \ (gone \cup unseen)

\* The start of stage: _sweep_expired drops the files past their day, `gone`,
\* then `pending` reads the records that are left.  An ingest id is fresh: u
\* names no file that is left, and is not one the list still holds.
Ask(u, gone, unseen) ==
    /\ phase[u] = "new" \/ u \in gone
    /\ u \notin Listed
    /\ Cardinality(Calls) < Workers
    /\ gone \subseteq In({"staged", "orphan"})
    /\ unseen \subseteq In({"staged"}) \ gone
    /\ phase' = [v \in Uploads |->
          IF v = u THEN "asked" ELSE IF v \in gone THEN "new" ELSE phase[v]]
    /\ held' = [held EXCEPT ![u] =
          [files |-> Cardinality(Told(gone, unseen)),
           bytes |-> Total(size, Told(gone, unseen))]]
    /\ written' = [written EXCEPT ![u] = 0]
    /\ size' = [v \in Uploads |-> IF v \in gone THEN 0 ELSE size[v]]
    /\ missed' = (missed \ (gone \cup {u})) \cup unseen
    /\ astray' = astray \ (gone \cup {u})
    /\ UNCHANGED <<active, failed>>

\* Mutant of Admit: what is staged is not counted.
AdmitUploading(u) ==
    /\ phase[u] = "asked"
    /\ Len(active) < MaxFiles
    /\ active' = Append(active, u)
    /\ phase' = [phase EXCEPT ![u] = "inside"]
    /\ UNCHANGED <<written, held, size, missed, astray, failed>>

\* `admit` takes a slot.
Admit(u) ==
    /\ phase[u] = "asked"
    /\ held[u].files + Len(active) < MaxFiles
    /\ active' = Append(active, u)
    /\ phase' = [phase EXCEPT ![u] = "inside"]
    /\ UNCHANGED <<written, held, size, missed, astray, failed>>

\* `admit` raises: the token has all the files it may have.
Refuse(u) ==
    /\ phase[u] = "asked"
    /\ held[u].files + Len(active) >= MaxFiles
    /\ phase' = [phase EXCEPT ![u] = "new"]
    /\ held' = [held EXCEPT ![u] = Nothing]
    /\ UNCHANGED <<active, written, size, missed, astray, failed>>

\* The `finally` of admit: list.remove drops the first object that EQUALS this
\* one, and _Upload is a dataclass, so equal means the same number of bytes.
\* It may be the entry of another upload, whose bytes then count no more; when
\* there is none, it raises and an entry of this upload's making stays.
Equal(u, w) == {i \in 1..Len(active) : w[active[i]] = w[u]}

Leave(u, w) ==
    IF Equal(u, w) = {}
    THEN /\ failed' = failed + 1
         /\ UNCHANGED <<active, astray>>
    ELSE LET i == Min(Equal(u, w)) IN
         /\ active' = SubSeq(active, 1, i - 1) \o SubSeq(active, i + 1, Len(active))
         /\ astray' = astray \cup ({active[i]} \cap (Inside \ {u}))
         /\ UNCHANGED failed

\* Mutant of Within: what is staged is not added.
WithinUploading(u, w) ==
    /\ w[u] <= MaxUpload
    /\ Total(w, Listed) <= MaxBytes
    /\ Free >= Reserve

\* Mutant of Within: the free space is not looked at.
WithinAllowance(u, w) ==
    /\ w[u] <= MaxUpload
    /\ held[u].bytes + Total(w, Listed) <= MaxBytes

\* _store reads another chunk: `accept` records the new length, then compares
\* the bytes it knows of with the ceiling and the free space with the reserve.
Within(u, w) ==
    /\ w[u] <= MaxUpload
    /\ held[u].bytes + Total(w, Listed) <= MaxBytes
    /\ Free >= Reserve

Grown(u) == [written EXCEPT ![u] = size[u] + 1]

Accept(u) ==
    /\ phase[u] = "inside"
    /\ Within(u, Grown(u))
    /\ written' = Grown(u)
    /\ phase' = [phase EXCEPT ![u] = "writing"]
    /\ UNCHANGED <<active, held, size, missed, astray, failed>>

\* The chunk is too much: the file is removed and the upload leaves the list.
\* Past max_upload_bytes `accept` is not reached.
Reject(u) ==
    LET w == IF size[u] + 1 > MaxUpload THEN written ELSE Grown(u) IN
    /\ phase[u] = "inside"
    /\ ~Within(u, Grown(u))
    /\ written' = w
    /\ Leave(u, w)
    /\ phase' = [phase EXCEPT ![u] = "new"]
    /\ size' = [size EXCEPT ![u] = 0]
    /\ held' = [held EXCEPT ![u] = Nothing]
    /\ UNCHANGED missed

Write(u) ==
    /\ phase[u] = "writing"
    /\ Free > 0
    /\ size' = [size EXCEPT ![u] = @ + 1]
    /\ phase' = [phase EXCEPT ![u] = "inside"]
    /\ UNCHANGED <<active, written, held, missed, astray, failed>>

\* The write raises, of a full disk or for a reason of its own: an OSError is not a
\* LibrarianError, so the file stays.
WriteFails(u) ==
    /\ phase[u] = "writing"
    /\ Leave(u, written)
    /\ phase' = [phase EXCEPT ![u] = "orphan"]
    /\ held' = [held EXCEPT ![u] = Nothing]
    /\ UNCHANGED <<written, size, missed>>

\* The source is exhausted.  When list.remove finds nothing equal it raises, the
\* call fails, and the file stays without a record.
Stored(u) ==
    /\ phase[u] = "inside"
    /\ Leave(u, written)
    /\ phase' = [phase EXCEPT ![u] =
          IF Equal(u, written) = {} THEN "orphan" ELSE "stored"]
    /\ held' = [held EXCEPT ![u] = Nothing]
    /\ UNCHANGED <<written, size, missed>>

\* The archive is sound, so not empty: the record is written.
Record(u) ==
    /\ phase[u] = "stored"
    /\ size[u] > 0
    /\ phase' = [phase EXCEPT ![u] = "staged"]
    /\ UNCHANGED <<active, written, held, size, missed, astray, failed>>

\* The inspection fails in a way that is not caught, or the record cannot be
\* written: the call ends and the file stays.
InspectFails(u) ==
    /\ phase[u] = "stored"
    /\ phase' = [phase EXCEPT ![u] = "orphan"]
    /\ UNCHANGED <<active, written, held, size, missed, astray, failed>>

\* The archive is refused, or a staged one is committed or discarded.
Remove(u) ==
    /\ phase[u] \in {"stored", "staged"}
    /\ phase' = [phase EXCEPT ![u] = "new"]
    /\ size' = [size EXCEPT ![u] = 0]
    /\ missed' = missed \ {u}
    /\ astray' = astray \ {u}
    /\ UNCHANGED <<active, written, held, failed>>

\* The process ends; what it had written stays, and the list is gone.
Restart ==
    /\ Calls # {}
    /\ phase' = [u \in Uploads |->
          CASE phase[u] = "asked" -> "new"
            [] phase[u] \in {"inside", "writing", "stored"} -> "orphan"
            [] OTHER -> phase[u]]
    /\ active' = <<>>
    /\ failed' = 0
    /\ written' = [u \in Uploads |-> 0]
    /\ held' = [u \in Uploads |-> Nothing]
    /\ UNCHANGED <<size, missed, astray>>

QuotaNext ==
    \/ Restart
    \/ \E u \in Uploads :
          \/ \E gone, unseen \in SUBSET Uploads : Ask(u, gone, unseen)
          \/ Admit(u) \/ Refuse(u)
          \/ Accept(u) \/ Reject(u)
          \/ Write(u) \/ WriteFails(u)
          \/ Stored(u)
          \/ Record(u) \/ InspectFails(u) \/ Remove(u)

QuotaSpec == QuotaInit /\ [][QuotaNext]_quotaVars

-----------------------------------------------------------------------------
(***************************************************************************)
(* Properties.                                                             *)
(***************************************************************************)

\* The free-space reserve is checked before a chunk is written and by several
\* threads at once: it is overrun by at most one chunk per file the token may
\* upload, the chunks already accepted included.  A volume that is short of the
\* reserve to begin with takes nothing.
ReserveKept ==
    /\ Reserve <= Disk => Free + MaxFiles >= Reserve + Cardinality(In({"writing"}))
    /\ Reserve > Disk => Free = Disk /\ In({"writing"}) = {}

\* Files that count towards the token's ceiling: staged, or on their way.
Counted == In({"inside", "writing", "stored", "staged"})

\* "Counts what a token already has staged plus what it is uploading right now"
\* (StagingQuota): the files a token has, staged or uploading, pass its ceiling by
\* fewer than the calls that run together, those apart that `pending` did not
\* list for some call.  What a call was told may be out of date when it is
\* admitted, and an upload that is being inspected is counted nowhere.  Those in
\* progress never pass the ceiling, and no place in the list is lost but one for
\* each removal that found no entry equal to its own: such a place is gone until
\* the process ends.
OvershootBounded ==
    /\ Cardinality(Counted \ missed) < MaxFiles + Workers
    /\ Len(active) <= MaxFiles
    /\ Len(active) = Cardinality(Inside) + failed

\* The ceiling in bytes is passed by no more than one upload for each other call,
\* those files apart that some call was not told of, and those whose entry
\* another call's list.remove took: the bytes of these are no longer added up.
BytesBounded ==
    Total(size, Counted \ (missed \cup astray)) <= MaxBytes + (Workers - 1) * MaxUpload
=============================================================================
