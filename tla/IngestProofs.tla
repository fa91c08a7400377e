---------------------------- MODULE IngestProofs ----------------------------
(***************************************************************************)
(* What placing a staged volume promises, for any number of uploads,       *)
(* names, commits and withdrawals, with crashes and power losses; and what *)
(* the quota on staged uploads promises, for any limits and any number of  *)
(* calls together.                                                         *)
(***************************************************************************)
EXTENDS Ingest, StagingQuota, FiniteSetTheorems, SequenceTheorems, WellFoundedInduction, TLAPS

\* Where a commit is says what its file, its copy and its name hold, and that the
\* directory is there.
JobOK(j) ==
    /\ job[j].pc # "idle" => job[j].id \in Ids /\ job[j].name \in Names
    /\ job[j].pc \in {"opened", "copied"} =>
          /\ job[j].copy \in Contents
          /\ job[j].copy.id = job[j].id
          /\ job[j].source \in {"whole", "torn"}
    /\ job[j].pc = "copied" => job[j].copy.bytes = job[j].source /\ job[j].copy.safe
    /\ job[j].pc \in {"made", "opened", "copied"} => dir # "absent"
    /\ job[j].pc = "linked" => Holds(job[j].name, job[j].id)
    /\ job[j].pc \in {"entered", "cleaned", "removed"} => OnDisk(job[j].id)

JobsOK == \A j \in Jobs : JobOK(j)

\* A withdrawal knows its upload, and nobody counts on it once its archive went.
WithdrawsOK ==
    \A w \in Withdraws :
        /\ withdraw[w].pc # "idle" => withdraw[w].id \in Ids
        /\ withdraw[w].pc = "emptied" => withdraw[w].id \notin owed

\* An upload whose record is still to be written is known to nobody else.
StagingOK ==
    \A i \in staging :
        /\ Staged(i)
        /\ i \notin sidecar
        /\ \A j \in Jobs : job[j].id # i
        /\ \A w \in Withdraws : withdraw[w].id # i

\* A synced name names a file; a directory that is not there has none.
SyncedOK ==
    /\ \A n \in synced : file[n] # None
    /\ dir = "absent" => \A n \in Names : file[n] = None

\* An answer that was given while the directory was on disk was given for good.
FirmOK == \A i \in placed \ exposed : dir = "kept"

\* The inductive invariant.
IInv ==
    /\ TypeOK
    /\ JobsOK
    /\ WithdrawsOK
    /\ StagingOK
    /\ SyncedOK
    /\ FirmOK
    /\ NamesAreComplete
    /\ NothingLost

-----------------------------------------------------------------------------
\* Moving a commit on, or ending it, keeps its record well formed.
LEMMA GotoType ==
    ASSUME job \in [Jobs -> JobRecords], NEW j \in Jobs, NEW pc \in JobStates
    PROVE  [job EXCEPT ![j].pc = pc] \in [Jobs -> JobRecords]
  BY DEF JobRecords

LEMMA DoneType ==
    ASSUME job \in [Jobs -> JobRecords], NEW j \in Jobs
    PROVE  [job EXCEPT ![j] = NoJob] \in [Jobs -> JobRecords]
  BY DEF JobRecords, JobStates, NoJob

\* What a withdrawal may do.
Withdrawal(w) ==
    (\E i \in Ids : WithdrawBegin(w, i)) \/ WithdrawArchive(w) \/ WithdrawSidecar(w)

\* The outcomes of a power loss.
Outcome(after, records, d, names) ==
    /\ after \in [Ids -> {"absent", "whole", "torn"}]
    /\ records \in SUBSET Ids
    /\ d \in {"absent", "kept"}
    /\ names \in SUBSET Names

\* What a power loss leaves: the names that stay keep their files, since no name
\* is given to a file that is not safe.
LEMMA PowerFiles ==
    ASSUME IInv, NEW after, NEW records, NEW d, NEW names,
           Outcome(after, records, d, names), LosePower(after, records, d, names)
    PROVE  /\ file' = [n \in Names |-> IF n \in names THEN file[n] ELSE None]
           /\ names \subseteq {n \in Names : file[n] # None}
           /\ synced' = names
           /\ synced \subseteq names \/ (dir = "new" /\ dir' = "absent" /\ names = {})
           /\ dir' = "absent" => names = {}
           /\ dir = "kept" => dir' = "kept"
           /\ job' = [j \in Jobs |-> NoJob]
<1> USE DEF IInv, TypeOK
<1>1. \A n \in names : n \in Names /\ file[n] # None /\ file[n].safe
  BY DEF LosePower, Taken, NamesAreComplete
<1>2. file' = [n \in Names |-> IF n \in names THEN file[n] ELSE None]
  BY <1>1 DEF LosePower
<1>3. synced \subseteq names \/ (dir = "new" /\ dir' = "absent" /\ names = {})
  <2>1. CASE d # "absent"
    BY <2>1 DEF LosePower
  <2>2. CASE d = "absent" /\ dir = "new"
    BY <2>2 DEF LosePower
  <2>3. CASE d = "absent" /\ dir # "new"
    <3>1. dir = "absent"
      BY <2>3 DEF LosePower
    <3>2. synced = {}
      BY <3>1 DEF SyncedOK
    <3> QED BY <3>2
  <2> QED BY <2>1, <2>2, <2>3
<1>4. names \subseteq {n \in Names : file[n] # None}
  BY <1>1
<1>5. /\ synced' = names
      /\ dir' = "absent" => names = {}
      /\ dir = "kept" => dir' = "kept"
      /\ job' = [j \in Jobs |-> NoJob]
  BY DEF LosePower, Restarted
<1> QED BY <1>2, <1>3, <1>4, <1>5

\* The state's shape is preserved by every step.
LEMMA TypeStep == ASSUME IInv, Next PROVE TypeOK'
<1> USE DEF IInv, TypeOK
<1>1. ASSUME NEW i \in Ids, Store(i) PROVE TypeOK'
  BY <1>1 DEF Store, history
<1>2. ASSUME NEW i \in Ids, WriteSidecar(i) PROVE TypeOK'
  BY <1>2 DEF WriteSidecar
<1>3. ASSUME NEW i \in Ids, SweepOrphan(i) PROVE TypeOK'
  BY <1>3 DEF SweepOrphan, Unlink, history
<1>4. ASSUME NEW j \in Jobs, Commit(j) PROVE TypeOK'
  <2>d. ASSUME Done(j) PROVE job' \in [Jobs -> JobRecords]
    BY <2>d, DoneType DEF Done
  <2>g. ASSUME NEW pc \in JobStates, Goto(j, pc) PROVE job' \in [Jobs -> JobRecords]
    BY <2>g, GotoType DEF Goto
  <2>1. ASSUME NEW i \in Ids, NEW n \in Names, Load(j, i, n) PROVE TypeOK'
    <3>1. [pc |-> "loaded", id |-> i, name |-> n, source |-> "absent", copy |-> None]
              \in JobRecords
      BY DEF JobRecords, JobStates
    <3> QED BY <2>1, <3>1 DEF Load, history
  <2>2. CASE Check(j)
    BY <2>2, <2>d, <2>g DEF Check, JobStates, history
  <2>3. CASE MakeDirectory(j)
    BY <2>3, <2>g DEF MakeDirectory, JobStates, history
  <2>4. CASE Open(j)
    <3>1. job[j].id \in Ids /\ job[j] \in JobRecords
      BY <2>4 DEF Open, JobsOK, JobOK
    <3>2. [id |-> job[j].id, bytes |-> "part", safe |-> FALSE] \in Contents
      BY <3>1 DEF Contents
    <3>3. ASSUME ~Done(j) PROVE job' \in [Jobs -> JobRecords]
      <4>1. /\ archive[job[j].id] \in {"whole", "torn"}
            /\ job' = [job EXCEPT ![j] = [@ EXCEPT !.pc = "opened", !.source = archive[job[j].id],
                  !.copy = [id |-> job[j].id, bytes |-> "part", safe |-> FALSE]]]
        BY <2>4, <3>3 DEF Open, Staged
      <4> HIDE DEF TypeOK, IInv
      <4>2. [job[j] EXCEPT !.pc = "opened", !.source = archive[job[j].id],
                  !.copy = [id |-> job[j].id, bytes |-> "part", safe |-> FALSE]] \in JobRecords
        BY <3>1, <3>2, <4>1 DEF JobRecords, JobStates
      <4> QED BY <4>1, <4>2 DEF TypeOK, IInv
    <3> QED BY <2>4, <2>d, <3>3 DEF Open, history
  <2>5. CASE Copy(j)
    <3>1. /\ job[j].copy \in Contents /\ job[j] \in JobRecords
          /\ job[j].source \in {"whole", "torn"}
      BY <2>5 DEF Copy, JobsOK, JobOK
    <3>2. [job[j].copy EXCEPT !.bytes = job[j].source, !.safe = TRUE] \in Contents
      BY <3>1 DEF Contents
    <3>3. job' \in [Jobs -> JobRecords]
      BY <2>5, <2>d, <3>1, <3>2 DEF Copy, JobRecords, JobStates
    <3> QED BY <2>5, <3>3 DEF Copy, history
  <2>6. CASE Link(j)
    <3>1. job[j].name \in Names /\ job[j].copy \in Contents
      BY <2>6 DEF Link, JobsOK, JobOK
    <3>2. file' \in [Names -> Contents \cup {Foreign, None}]
      BY <2>6, <3>1 DEF Link
    <3> QED BY <2>6, <2>d, <2>g, <3>2 DEF Link, JobStates, history
  <2>7. CASE SyncDirectory(j)
    BY <2>7, <2>d, <2>g DEF SyncDirectory, JobStates, history
  <2>8. CASE Cleanup(j)
    BY <2>8, <2>g DEF Cleanup, JobStates, history
  <2>9. CASE UnlinkArchive(j)
    BY <2>9, <2>g DEF UnlinkArchive, Unlink, JobStates, history
  <2>10. CASE Answer(j)
    <3>1. job[j].id \in Ids
      BY <2>10 DEF Answer, JobsOK, JobOK
    <3> QED BY <2>10, <2>d, <3>1 DEF Answer, Erase
  <2> QED BY <1>4, <2>1, <2>2, <2>3, <2>4, <2>5, <2>6, <2>7, <2>8, <2>9, <2>10 DEF Commit
<1>5. ASSUME NEW w \in Withdraws, Withdrawal(w) PROVE TypeOK'
  <2>1. CASE \E i \in Ids : WithdrawBegin(w, i)
    BY <2>1 DEF WithdrawBegin, history
  <2>2. CASE WithdrawArchive(w)
    BY <2>2 DEF WithdrawArchive, Unlink
  <2>3. CASE WithdrawSidecar(w)
    BY <2>3 DEF WithdrawSidecar, Erase, NoWithdrawal, history
  <2> QED BY <1>5, <2>1, <2>2, <2>3 DEF Withdrawal
<1>6. CASE Crash
  <2>1. NoJob \in JobRecords
    BY DEF NoJob, JobRecords, JobStates
  <2> QED BY <1>6, <2>1 DEF Crash, Restarted, NoWithdrawal, history
<1>7. ASSUME NEW after, NEW records, NEW d, NEW names,
             Outcome(after, records, d, names), LosePower(after, records, d, names)
      PROVE TypeOK'
  <2>1. NoJob \in JobRecords
    BY DEF NoJob, JobRecords, JobStates
  <2>2. /\ job' \in [Jobs -> JobRecords] /\ synced' \subseteq Names
        /\ file' \in [Names -> Contents \cup {Foreign, None}]
    BY <1>7, <2>1, PowerFiles DEF Outcome
  <2>3. losses' \in 0 .. PowerLosses
    BY <1>7, IngestAssumption DEF LosePower
  <2> QED BY <1>7, <2>2, <2>3 DEF LosePower, Outcome, Restarted, NoWithdrawal
<1> QED BY <1>1, <1>2, <1>3, <1>4, <1>5, <1>6, <1>7 DEF Next, Withdrawal, Outcome

\* What a step that is not a power loss does to the directory: a name keeps its
\* file, and what is on disk stays there.
LEMMA FileStep ==
    ASSUME IInv, Next
    PROVE  \/ /\ \A n \in Names : file[n] # None => file'[n] = file[n]
              /\ synced \subseteq synced'
              /\ dir' # dir => dir = "absent" /\ dir' = "new"
              /\ UNCHANGED <<struck, losses>>
           \/ \E after, records, d, names :
                 Outcome(after, records, d, names) /\ LosePower(after, records, d, names)
<1> USE DEF IInv, TypeOK
<1>1. ASSUME NEW i \in Ids, Store(i) \/ WriteSidecar(i) \/ SweepOrphan(i)
      PROVE  UNCHANGED <<file, synced, dir, struck, losses>>
  BY <1>1 DEF Store, WriteSidecar, SweepOrphan, history
<1>2. ASSUME NEW j \in Jobs, Commit(j)
      PROVE  /\ \A n \in Names : file[n] # None => file'[n] = file[n]
             /\ synced \subseteq synced'
             /\ dir' # dir => dir = "absent" /\ dir' = "new"
             /\ UNCHANGED <<struck, losses>>
  <2>1. CASE (\E i \in Ids, n \in Names : Load(j, i, n)) \/ Check(j) \/ Open(j) \/ Copy(j)
             \/ Cleanup(j) \/ UnlinkArchive(j) \/ Answer(j)
    BY <2>1 DEF Load, Check, Open, Copy, Cleanup, UnlinkArchive, Answer, history
  <2>2. CASE MakeDirectory(j) \/ Link(j) \/ SyncDirectory(j)
    BY <2>2 DEF MakeDirectory, Link, SyncDirectory, history
  <2> QED BY <1>2, <2>1, <2>2 DEF Commit
<1>3. ASSUME NEW w \in Withdraws, Withdrawal(w)
      PROVE  UNCHANGED <<file, synced, dir, struck, losses>>
  BY <1>3 DEF Withdrawal, WithdrawBegin, WithdrawArchive, WithdrawSidecar, history
<1>4. CASE Crash
  BY <1>4 DEF Crash, history
<1> QED BY <1>1, <1>2, <1>3, <1>4 DEF Next, Withdrawal, Outcome

\* What is on disk stays there, unless power is lost while the directory is new.
LEMMA DiskKept ==
    ASSUME IInv, Next, NEW i \in Ids, OnDisk(i)
    PROVE  \/ OnDisk(i)'
           \/ dir = "new" /\ job' = [j \in Jobs |-> NoJob]
<1>1. PICK n \in synced : Holds(n, i)
  BY DEF OnDisk
<1>2. n \in Names /\ file[n] # None /\ file[n].id = i
  BY <1>1 DEF Holds, IInv, TypeOK
<1>3. CASE file'[n] = file[n] /\ n \in synced'
  BY <1>2, <1>3 DEF OnDisk, Holds
<1>4. ASSUME NEW after, NEW records, NEW d, NEW names,
             Outcome(after, records, d, names), LosePower(after, records, d, names)
      PROVE  (file'[n] = file[n] /\ n \in synced') \/ (dir = "new" /\ job' = [j \in Jobs |-> NoJob])
  BY <1>1, <1>2, <1>4, PowerFiles
<1> QED BY <1>1, <1>2, <1>3, <1>4, FileStep

\* A name is only ever given to a finished, synced copy.
LEMMA CompleteStep == ASSUME IInv, Next PROVE NamesAreComplete'
<1> SUFFICES ASSUME NEW n \in Names, file'[n] # None
             PROVE  file'[n].bytes # "part" /\ file'[n].safe
  BY DEF NamesAreComplete
<1>1. CASE file[n] = file'[n]
  BY <1>1 DEF IInv, NamesAreComplete
<1>2. CASE file[n] # file'[n]
  <2>1. ~\E after, records, d, names :
            Outcome(after, records, d, names) /\ LosePower(after, records, d, names)
    BY <1>2, PowerFiles
  <2>2. file[n] = None
    BY <1>2, <2>1, FileStep
  <2>3. PICK j \in Jobs : Link(j) /\ file'[n] = job[j].copy
    BY <1>2, <2>1, <2>2
       DEF Next, Commit, Store, WriteSidecar, SweepOrphan, Load, Check, MakeDirectory, Open, Copy,
           Link, SyncDirectory, Cleanup, UnlinkArchive, Answer, WithdrawBegin, WithdrawArchive,
           WithdrawSidecar, Crash, Outcome, IInv, TypeOK
  <2> QED BY <2>3 DEF Link, IInv, JobsOK, JobOK
<1> QED BY <1>1, <1>2

\* A step that leaves a commit's record alone leaves what it says true.
LEMMA JobKept ==
    ASSUME IInv, Next, NEW j \in Jobs, job'[j] = job[j], job[j].pc # "idle"
    PROVE  JobOK(j)'
<1>1. JobOK(j)
  BY DEF IInv, JobsOK
<1>2. job[j].id \in Ids /\ job[j].name \in Names
  BY <1>1 DEF JobOK
<1>3. job' # [x \in Jobs |-> NoJob]
  BY DEF NoJob
<1>4. ~\E after, records, d, names :
          Outcome(after, records, d, names) /\ LosePower(after, records, d, names)
  BY <1>3, PowerFiles
<1>5. Holds(job[j].name, job[j].id) => Holds(job[j].name, job[j].id)'
  BY <1>2, <1>4, FileStep DEF Holds
<1>6. OnDisk(job[j].id) => OnDisk(job[j].id)'
  BY <1>2, <1>3, DiskKept
<1>7. dir # "absent" => dir' # "absent"
  BY <1>4, FileStep
<1> QED BY <1>1, <1>5, <1>6, <1>7 DEF JobOK, Holds, OnDisk

\* Every step keeps what the commits know.
LEMMA JobsStep == ASSUME IInv, Next PROVE JobsOK'
<1> USE DEF IInv, TypeOK
<1> SUFFICES ASSUME NEW k \in Jobs PROVE JobOK(k)'
  BY DEF JobsOK
<1>0. JobOK(k)
  BY DEF JobsOK
<1>1. CASE job'[k] = job[k]
  <2>1. CASE job[k].pc = "idle"
    BY <1>1, <2>1 DEF JobOK
  <2> QED BY <1>1, <2>1, JobKept
<1>2. CASE job'[k] = NoJob
  BY <1>2 DEF JobOK, NoJob
<1>3. CASE job'[k] # job[k] /\ job'[k] # NoJob
  <2>0. ~\E after, records, d, names :
            Outcome(after, records, d, names) /\ LosePower(after, records, d, names)
    BY <1>3, PowerFiles
  <2>1. PICK j \in Jobs : Commit(j)
    BY <1>3, <2>0 DEF Next, Store, WriteSidecar, SweepOrphan, WithdrawBegin, WithdrawArchive,
                WithdrawSidecar, Crash, Restarted, Outcome
  <2>2. j = k
    BY <1>3, <2>1 DEF Commit, Load, Check, MakeDirectory, Open, Copy, Link, SyncDirectory,
                      Cleanup, UnlinkArchive, Answer, Goto, Done
  <2>3. ASSUME NEW i \in Ids, NEW n \in Names, Load(k, i, n) PROVE JobOK(k)'
    BY <2>3 DEF Load, JobOK
  <2>4. CASE Check(k)
    BY <1>0, <1>3, <2>4 DEF Check, JobOK, Goto, Done, JobRecords
  <2>5. CASE MakeDirectory(k)
    BY <1>0, <2>5 DEF MakeDirectory, JobOK, Goto, JobRecords
  <2>6. CASE Open(k)
    <3>1. /\ job'[k].pc = "opened" /\ job'[k].id = job[k].id /\ job'[k].name = job[k].name
          /\ job'[k].source = archive[job[k].id] /\ archive[job[k].id] \in {"whole", "torn"}
          /\ job'[k].copy = [id |-> job[k].id, bytes |-> "part", safe |-> FALSE]
      <4>1. job[k] \in JobRecords
        OBVIOUS
      <4>2. /\ archive[job[k].id] \in {"whole", "torn"}
            /\ job'[k] = [job[k] EXCEPT !.pc = "opened", !.source = archive[job[k].id],
                  !.copy = [id |-> job[k].id, bytes |-> "part", safe |-> FALSE]]
        BY <1>3, <2>6 DEF Open, Done, Staged
      <4> QED BY <4>1, <4>2 DEF JobRecords
    <3>2. job[k].id \in Ids /\ job[k].name \in Names /\ dir' # "absent"
      BY <1>0, <2>6 DEF Open, JobOK
    <3>3. job'[k].copy \in Contents
      BY <3>1, <3>2 DEF Contents
    <3> QED BY <3>1, <3>2, <3>3 DEF JobOK
  <2>7. CASE Copy(k)
    <3>1. /\ job[k].id \in Ids /\ job[k].name \in Names /\ job[k].copy \in Contents
          /\ job[k].copy.id = job[k].id /\ job[k].source \in {"whole", "torn"}
          /\ dir' # "absent"
      BY <1>0, <2>7 DEF Copy, JobOK
    <3>2. /\ job'[k].pc = "copied" /\ job'[k].id = job[k].id /\ job'[k].name = job[k].name
          /\ job'[k].source = job[k].source
          /\ job'[k].copy = [job[k].copy EXCEPT !.bytes = job[k].source, !.safe = TRUE]
      BY <1>3, <2>7 DEF Copy, Done, JobRecords
    <3>3. /\ job'[k].copy \in Contents /\ job'[k].copy.id = job[k].id
          /\ job'[k].copy.bytes = job[k].source /\ job'[k].copy.safe
      BY <3>1, <3>2 DEF Contents
    <3> QED BY <3>1, <3>2, <3>3 DEF JobOK
  <2>8. CASE Link(k)
    <3>1. /\ job[k].id \in Ids /\ job[k].name \in Names /\ job[k].copy \in Contents
          /\ job[k].copy.id = job[k].id
      BY <1>0, <2>8 DEF Link, JobOK
    <3>2. /\ job'[k].pc = "linked" /\ job'[k].id = job[k].id /\ job'[k].name = job[k].name
          /\ file'[job[k].name] = job[k].copy
      BY <1>3, <2>8, <3>1 DEF Link, Done, Goto, JobRecords
    <3>3. job[k].copy # None
      BY <3>1, IngestAssumption
    <3> QED BY <3>1, <3>2, <3>3 DEF JobOK, Holds
  <2>9. CASE SyncDirectory(k)
    <3>1. /\ job[k].id \in Ids /\ job[k].name \in Names /\ Holds(job[k].name, job[k].id)
      BY <1>0, <2>9 DEF SyncDirectory, JobOK
    <3>2. /\ job'[k].pc = "entered" /\ job'[k].id = job[k].id /\ job'[k].name = job[k].name
          /\ job[k].name \in synced' /\ file' = file
      BY <1>3, <2>9, <3>1 DEF SyncDirectory, Done, Goto, JobRecords, Holds
    <3>3. OnDisk(job[k].id)'
      BY <3>1, <3>2 DEF OnDisk, Holds
    <3> QED BY <3>1, <3>2, <3>3 DEF JobOK, OnDisk, Holds
  <2>10. CASE Cleanup(k) \/ UnlinkArchive(k)
    <3>1. /\ job[k].id \in Ids /\ job[k].name \in Names /\ OnDisk(job[k].id)
      BY <1>0, <2>10 DEF Cleanup, UnlinkArchive, JobOK
    <3>2. /\ job'[k].pc \in {"cleaned", "removed"}
          /\ job'[k].id = job[k].id /\ job'[k].name = job[k].name
      BY <2>10 DEF Cleanup, UnlinkArchive, Goto, JobRecords
    <3>3. PICK i \in Ids : i = job[k].id
      BY <3>1
    <3>4. job' # [x \in Jobs |-> NoJob]
      BY <1>3
    <3>5. OnDisk(i)'
      BY <3>1, <3>3, <3>4, DiskKept
    <3> QED BY <3>1, <3>2, <3>3, <3>5 DEF JobOK, OnDisk, Holds
  <2>11. CASE Answer(k)
    BY <1>3, <2>11 DEF Answer, Done
  <2> QED BY <2>1, <2>2, <2>3, <2>4, <2>5, <2>6, <2>7, <2>8, <2>9, <2>10, <2>11 DEF Commit
<1> QED BY <1>1, <1>2, <1>3

\* Every step keeps what the withdrawals and the calls of stage know.
LEMMA WithdrawsStep == ASSUME IInv, Next PROVE WithdrawsOK'
<1> USE DEF IInv, TypeOK, WithdrawsOK
<1>1. ASSUME NEW i \in Ids, WriteSidecar(i) PROVE WithdrawsOK'
  BY <1>1 DEF WriteSidecar, StagingOK
<1>2. CASE withdraw' = withdraw /\ owed' = owed
  BY <1>2
<1>3. ASSUME NEW w \in Withdraws, Withdrawal(w) PROVE WithdrawsOK'
  BY <1>3 DEF Withdrawal, WithdrawBegin, WithdrawArchive, WithdrawSidecar, NoWithdrawal, history
<1>4. CASE withdraw' = [w \in Withdraws |-> NoWithdrawal]
  BY <1>4 DEF NoWithdrawal
<1>5. ASSUME NEW j \in Jobs, Commit(j) PROVE withdraw' = withdraw /\ owed' = owed
  BY <1>5 DEF Commit, Load, Check, MakeDirectory, Open, Copy, Link, SyncDirectory, Cleanup,
              UnlinkArchive, Answer, history
<1>6. ASSUME NEW i \in Ids, Store(i) \/ SweepOrphan(i) PROVE withdraw' = withdraw /\ owed' = owed
  BY <1>6 DEF Store, SweepOrphan, history
<1> QED BY <1>1, <1>2, <1>3, <1>4, <1>5, <1>6 DEF Next, Crash, LosePower, Restarted, Withdrawal

LEMMA StagingStep == ASSUME IInv, Next PROVE StagingOK'
<1> USE DEF IInv, TypeOK, StagingOK, Staged
<1>1. ASSUME NEW i \in Ids, Store(i) PROVE StagingOK'
  BY <1>1 DEF Store, Fresh
<1>2. ASSUME NEW i \in Ids, WriteSidecar(i) PROVE StagingOK'
  BY <1>2 DEF WriteSidecar
<1>3. ASSUME NEW i \in Ids, SweepOrphan(i) PROVE StagingOK'
  BY <1>3 DEF SweepOrphan, Unlink
<1>4. ASSUME NEW j \in Jobs, Commit(j) PROVE StagingOK'
  <2>1. staging' = staging /\ withdraw' = withdraw /\ sidecar' \subseteq sidecar
    BY <1>4 DEF Commit, Load, Check, MakeDirectory, Open, Copy, Link, SyncDirectory, Cleanup,
                UnlinkArchive, Answer, Erase
  <2>2. ASSUME NEW i \in staging PROVE archive'[i] = archive[i]
    BY <1>4 DEF Commit, Load, Check, MakeDirectory, Open, Copy, Link, SyncDirectory, Cleanup,
                UnlinkArchive, Answer, Unlink
  <2>3. ASSUME NEW i \in staging, NEW k \in Jobs PROVE job'[k].id # i
    <3>1. job[k].id # i /\ i \notin sidecar /\ i # None /\ job[k] \in JobRecords
      BY IngestAssumption
    <3>2. CASE k # j
      BY <1>4, <3>1, <3>2 DEF Commit, Load, Check, MakeDirectory, Open, Copy, Link, SyncDirectory,
                              Cleanup, UnlinkArchive, Answer, Goto, Done
    <3>3. CASE k = j
      BY <1>4, <3>1, <3>3 DEF Commit, Load, Check, MakeDirectory, Open, Copy, Link, SyncDirectory,
                              Cleanup, UnlinkArchive, Answer, Goto, Done, NoJob, JobRecords
    <3> QED BY <3>2, <3>3
  <2> QED BY <2>1, <2>2, <2>3
<1>5. ASSUME NEW w \in Withdraws, Withdrawal(w) PROVE StagingOK'
  <2>1. CASE \E i \in Ids : WithdrawBegin(w, i)
    BY <2>1 DEF WithdrawBegin
  <2>2. CASE WithdrawArchive(w)
    BY <2>2 DEF WithdrawArchive, Unlink
  <2>3. CASE WithdrawSidecar(w)
    BY <2>3, IngestAssumption DEF WithdrawSidecar, NoWithdrawal, Erase
  <2> QED BY <1>5, <2>1, <2>2, <2>3 DEF Withdrawal
<1>6. CASE staging' = {}
  BY <1>6
<1> QED BY <1>1, <1>2, <1>3, <1>4, <1>5, <1>6 DEF Next, Crash, LosePower, Restarted, Withdrawal

\* A commit that gives a name has seen the directory.
LEMMA SyncedStep == ASSUME IInv, Next PROVE SyncedOK'
<1> USE DEF IInv, TypeOK, SyncedOK
<1>1. CASE UNCHANGED <<file, synced, dir>>
  BY <1>1
<1>2. ASSUME NEW j \in Jobs, Commit(j) PROVE SyncedOK'
  <2>1. CASE MakeDirectory(j)
    BY <2>1 DEF MakeDirectory
  <2>2. CASE Link(j)
    <3>1. job[j].name \in Names /\ dir # "absent" /\ dir' = dir /\ synced' = synced
      BY <2>2 DEF Link, JobsOK, JobOK
    <3>2. \A n \in synced : file'[n] = file[n]
      BY <2>2 DEF Link
    <3> QED BY <3>1, <3>2
  <2>3. CASE SyncDirectory(j)
    BY <2>3 DEF SyncDirectory
  <2>4. CASE (\E i \in Ids, n \in Names : Load(j, i, n)) \/ Check(j) \/ Open(j) \/ Copy(j)
             \/ Cleanup(j) \/ UnlinkArchive(j) \/ Answer(j)
    BY <1>1, <2>4 DEF Load, Check, Open, Copy, Cleanup, UnlinkArchive, Answer
  <2> QED BY <1>2, <2>1, <2>2, <2>3, <2>4 DEF Commit
<1>3. ASSUME NEW after, NEW records, NEW d, NEW names,
             Outcome(after, records, d, names), LosePower(after, records, d, names)
      PROVE  SyncedOK'
  BY <1>3, PowerFiles
<1> QED BY <1>1, <1>2, <1>3 DEF Next, Outcome, Store, WriteSidecar, SweepOrphan, WithdrawBegin,
                                WithdrawArchive, WithdrawSidecar, Crash

\* How the answers grow.
LEMMA Answered ==
    ASSUME IInv, Next
    PROVE  \/ UNCHANGED <<placed, exposed>>
           \/ \E j \in Jobs :
                 /\ Answer(j)
                 /\ job[j].id \in Ids /\ OnDisk(job[j].id)
                 /\ dir # "absent" /\ UNCHANGED <<file, synced, dir>>
<1> USE DEF IInv, TypeOK
<1>1. ASSUME NEW j \in Jobs, Answer(j)
      PROVE  /\ job[j].id \in Ids /\ OnDisk(job[j].id)
             /\ dir # "absent" /\ UNCHANGED <<file, synced, dir>>
  <2>1. job[j].id \in Ids /\ OnDisk(job[j].id)
    BY <1>1 DEF Answer, JobsOK, JobOK
  <2>2. dir # "absent"
    BY <2>1 DEF OnDisk, SyncedOK
  <2> QED BY <1>1, <2>1, <2>2 DEF Answer
<1>2. ASSUME NEW j \in Jobs, Commit(j), ~Answer(j) PROVE UNCHANGED <<placed, exposed>>
  BY <1>2 DEF Commit, Load, Check, MakeDirectory, Open, Copy, Link, SyncDirectory, Cleanup,
              UnlinkArchive, history
<1>3. ASSUME NEW i \in Ids, Store(i) \/ WriteSidecar(i) \/ SweepOrphan(i)
      PROVE  UNCHANGED <<placed, exposed>>
  BY <1>3 DEF Store, WriteSidecar, SweepOrphan, history
<1>4. ASSUME NEW w \in Withdraws, Withdrawal(w) PROVE UNCHANGED <<placed, exposed>>
  BY <1>4 DEF Withdrawal, WithdrawBegin, WithdrawArchive, WithdrawSidecar, history
<1> QED BY <1>1, <1>2, <1>3, <1>4 DEF Next, Withdrawal, Crash, history, LosePower

\* A directory that is on disk stays there, and so does what was answered then.
LEMMA FirmStep == ASSUME IInv, Next PROVE FirmOK'
<1> USE DEF IInv, TypeOK, FirmOK
<1>1. dir = "kept" => dir' = "kept"
  BY FileStep, PowerFiles
<1>2. CASE UNCHANGED <<placed, exposed>>
  BY <1>1, <1>2
<1>3. ASSUME NEW j \in Jobs, Answer(j), dir # "absent", UNCHANGED dir PROVE FirmOK'
  BY <1>3 DEF Answer
<1> QED BY <1>2, <1>3, Answered

\* An answer is given only when the name is on disk, and it stays there.
LEMMA PlacedStep == ASSUME IInv, Next PROVE PlacedIsDurable'
<1> USE DEF IInv, TypeOK
<1> SUFFICES ASSUME NEW i \in placed', i \notin exposed' PROVE OnDisk(i)'
  BY DEF PlacedIsDurable
<1>1. CASE i \in placed /\ i \notin exposed
  <2>1. OnDisk(i) /\ dir = "kept"
    BY <1>1 DEF NothingLost, PlacedIsDurable, FirmOK
  <2> QED BY <1>1, <2>1, DiskKept
<1>2. CASE i \notin placed \/ i \in exposed
  <2>1. PICK j \in Jobs : /\ Answer(j) /\ OnDisk(job[j].id)
                          /\ UNCHANGED <<file, synced, dir>>
    BY <1>2, Answered
  <2>2. i = job[j].id
    BY <1>2, <2>1 DEF Answer
  <2> QED BY <2>1, <2>2 DEF OnDisk, Holds
<1> QED BY <1>1, <1>2

\* Nobody removes an archive or a record that is still owed, but the commit that
\* placed it; and a power loss is marked.
LEMMA LostStep == ASSUME IInv, Next PROVE NothingLost'
<1> USE DEF IInv, TypeOK
<1> SUFFICES ASSUME NEW i \in owed'
             PROVE  (Staged(i)' /\ i \in sidecar') \/ OnDisk(i)' \/ i \in struck'
  BY PlacedStep DEF NothingLost
<1>0. i \in Ids
  BY TypeStep
<1>1. ASSUME NEW after, NEW records, NEW d, NEW names,
             Outcome(after, records, d, names), LosePower(after, records, d, names)
      PROVE  (Staged(i)' /\ i \in sidecar') \/ OnDisk(i)' \/ i \in struck'
  <2>1. /\ owed' = owed /\ archive' = after /\ sidecar' = records
        /\ struck' = struck \cup {k \in owed : (after[k] = "absent" \/ k \notin records)
                                               /\ ~\E n \in names : Holds(n, k)}
    BY <1>1 DEF LosePower
  <2>2. CASE \E n \in names : Holds(n, i)
    <3>1. PICK n \in names : Holds(n, i)
      BY <2>2
    <3>2. n \in synced' /\ file'[n] = file[n]
      BY <1>1, PowerFiles
    <3> QED BY <3>1, <3>2 DEF OnDisk, Holds
  <2>3. CASE after[i] # "absent" /\ i \in records
    BY <1>0, <1>1, <2>1, <2>3 DEF Outcome, Staged
  <2> QED BY <2>1, <2>2, <2>3
<1>2. CASE ~\E after, records, d, names :
               Outcome(after, records, d, names) /\ LosePower(after, records, d, names)
  <2>0. struck' = struck /\ (OnDisk(i) => OnDisk(i)')
    BY <1>0, <1>2, FileStep DEF OnDisk, Holds
  <2>1. CASE i \notin owed
    <3>1. WriteSidecar(i)
      BY <1>2, <2>1
         DEF Next, Commit, Store, WriteSidecar, SweepOrphan, Load, Check, MakeDirectory, Open,
             Copy, Link, SyncDirectory, Cleanup, UnlinkArchive, Answer, WithdrawBegin,
             WithdrawArchive, WithdrawSidecar, Crash, Outcome, history
    <3> QED BY <3>1 DEF WriteSidecar, StagingOK, Staged
  <2>2. CASE i \in owed /\ (OnDisk(i) \/ i \in struck)
    BY <2>0, <2>2
  <2>3. CASE i \in owed /\ ~OnDisk(i) /\ i \notin struck
    <3>1. Staged(i) /\ i \in sidecar
      BY <2>3 DEF NothingLost
    <3>2. ASSUME NEW k \in Ids, Store(k) \/ WriteSidecar(k) PROVE Staged(i)' /\ i \in sidecar'
      BY <1>0, <3>1, <3>2 DEF Store, WriteSidecar, Staged
    <3>3. ASSUME NEW j \in Jobs, Commit(j) PROVE Staged(i)' /\ i \in sidecar'
      <4>1. CASE UnlinkArchive(j)
        BY <1>0, <2>3, <3>1, <4>1 DEF UnlinkArchive, Unlink, Staged, JobsOK, JobOK
      <4>2. CASE Answer(j)
        BY <2>3, <3>1, <4>2 DEF Answer, Erase, Staged, JobsOK, JobOK
      <4>3. CASE ~UnlinkArchive(j) /\ ~Answer(j)
        BY <3>1, <3>3, <4>3 DEF Commit, Load, Check, MakeDirectory, Open, Copy, Link,
                                SyncDirectory, Cleanup, Staged
      <4> QED BY <4>1, <4>2, <4>3
    <3>4. ASSUME NEW w \in Withdraws, Withdrawal(w) PROVE Staged(i)' /\ i \in sidecar'
      BY <1>0, <3>1, <3>4 DEF Withdrawal, WithdrawBegin, WithdrawArchive, WithdrawSidecar, Unlink,
                              Erase, Staged, WithdrawsOK, history
    <3>5. CASE Crash
      BY <3>1, <3>5 DEF Crash, Staged
    <3>6. ASSUME NEW k \in Ids, SweepOrphan(k) PROVE Staged(i)' /\ i \in sidecar'
      BY <1>0, <3>1, <3>6 DEF SweepOrphan, Unlink, Staged
    <3> QED BY <1>2, <3>2, <3>3, <3>4, <3>5, <3>6 DEF Next, Withdrawal, Outcome
  <2> QED BY <2>1, <2>2, <2>3
<1> QED BY <1>1, <1>2

-----------------------------------------------------------------------------
\* The invariant holds at the start and is kept by every step.
LEMMA InitOK == Init => IInv
<1> SUFFICES ASSUME Init PROVE IInv
  OBVIOUS
<1> USE DEF Init
<1>1. TypeOK
  BY IngestAssumption DEF TypeOK, JobRecords, JobStates, NoJob, NoWithdrawal
<1>2. JobsOK /\ WithdrawsOK
  BY DEF JobsOK, JobOK, NoJob, WithdrawsOK, NoWithdrawal
<1>3. StagingOK /\ SyncedOK /\ FirmOK /\ NothingLost
  BY DEF StagingOK, SyncedOK, FirmOK, PlacedIsDurable, NothingLost
<1>4. NamesAreComplete
  BY DEF NamesAreComplete, Foreign
<1> QED BY <1>1, <1>2, <1>3, <1>4 DEF IInv

LEMMA Inductive == IInv /\ [Next]_vars => IInv'
<1> SUFFICES ASSUME IInv, [Next]_vars PROVE IInv'
  OBVIOUS
<1>1. CASE Next
  BY <1>1, TypeStep, JobsStep, WithdrawsStep, StagingStep, SyncedStep, FirmStep,
     CompleteStep, LostStep DEF IInv
<1>2. CASE UNCHANGED vars
  BY <1>2 DEF vars, IInv, TypeOK, JobsOK, JobOK, WithdrawsOK, StagingOK, SyncedOK, FirmOK,
              NamesAreComplete, PlacedIsDurable, NothingLost, OnDisk, Holds, Staged
<1> QED BY <1>1, <1>2

LEMMA Invariance == Spec => []IInv
  BY InitOK, Inductive, PTL DEF Spec

\* Type correctness of the ingest state.
THEOREM TypeCorrect == Spec => []TypeOK
  BY Invariance, PTL DEF IInv

\* No name ever names a partial or unsynced file (_place), for any number of
\* commits, crashes and power losses.
THEOREM NamesAlwaysComplete == Spec => []NamesAreComplete
  BY Invariance, PTL DEF IInv

\* An upload that was answered "placed" is in the library, on disk, unless it was
\* answered while its directory's own entry was not.
THEOREM PlacedAlwaysDurable == Spec => []PlacedIsDurable
  BY Invariance, PTL DEF IInv, NothingLost

\* An upload the agent was told of is staged, with its record, or on disk until it
\* is withdrawn, or until a power loss takes it from staging or with a directory
\* that was not on disk.
THEOREM NothingEverLost == Spec => []NothingLost
  BY Invariance, PTL DEF IInv

\* A file in the library is never replaced, and one that is on disk never goes.
THEOREM NeverOverwrites == Spec => NoOverwrite
<1>1. IInv /\ [Next]_vars =>
        [\A n \in Names : file[n] # None =>
            \/ file'[n] = file[n]
            \/ (n \notin synced \/ dir = "new") /\ file'[n] = None]_vars
  BY FileStep, PowerFiles DEF vars
<1> QED BY <1>1, Invariance, PTL DEF Spec, NoOverwrite
-----------------------------------------------------------------------------
(***************************************************************************)
(* Ingest implements Placement.                                            *)
(***************************************************************************)
LEMMA OnDiskSettled == ASSUME NEW i \in Ids, IInv, OnDisk(i) PROVE Promise!Settled(i)
<1>1. PICK n \in synced : Holds(n, i)
  BY DEF OnDisk
<1> QED BY <1>1 DEF Holds, Promise!Settled

LEMMA PlacementStart == ASSUME Init PROVE Promise!Init
<1>1. Copying = {}
  BY DEF Init, Copying, NoJob
<1> QED BY <1>1 DEF Init, Promise!Init, Promise!Volume, Foreign

\* Commits that go on without reading from staging, or end.
LEMMA CopyingShrinks ==
    ASSUME \A k \in Jobs : job'[k].pc \in {"opened", "copied"} =>
               /\ job[k].pc \in {"opened", "copied"}
               /\ job'[k].id = job[k].id /\ job'[k].source = job[k].source
    PROVE  Copying' \subseteq Copying
BY DEF Copying

\* Where a call that moves on, or ends, is.
LEMMA NewPlace ==
    ASSUME TypeOK, NEW j \in Jobs, NEW pc \in JobStates
    PROVE  /\ Goto(j, pc) => job'[j].pc = pc
           /\ Done(j) => job'[j].pc = "idle"
<1>1. job[j] \in JobRecords /\ job \in [Jobs -> JobRecords]
  BY DEF TypeOK
<1>2. Goto(j, pc) => job'[j].pc = pc
  BY <1>1 DEF Goto, JobRecords
<1>3. Done(j) => job'[j].pc = "idle"
  BY <1>1 DEF Done, NoJob
<1> QED BY <1>2, <1>3

LEMMA CommitPromise ==
    ASSUME IInv, NEW j \in Jobs, Commit(j)
    PROVE  Promise!Next \/ UNCHANGED Promise!placementVars
<1> USE DEF IInv, TypeOK
<1>1. JobOK(j)
  BY DEF JobsOK
<1>2. \A k \in Jobs : k # j => job'[k] = job[k]
  BY DEF Commit, Load, Check, MakeDirectory, Open, Copy, Link, SyncDirectory, Cleanup,
         UnlinkArchive, Answer, Goto, Done
<1>3. CASE (\E i \in Ids, n \in Names : Load(j, i, n)) \/ Check(j) \/ MakeDirectory(j) \/ Cleanup(j)
  <2> DEFINE Reading == {"opened", "copied"}
  <2>1. job[j].pc \notin Reading /\ job'[j].pc \notin Reading
    <3>1. CASE \E i \in Ids, n \in Names : Load(j, i, n)
      <4>1. job[j].pc = "idle" /\ job'[j].pc = "loaded"
        BY <3>1 DEF Load
      <4> QED BY <4>1
    <3>2. CASE Check(j)
      <4>1. job[j].pc = "loaded" /\ (Done(j) \/ Goto(j, "checked"))
        BY <3>2 DEF Check
      <4>2. "checked" \in JobStates
        BY DEF JobStates
      <4>3. job'[j].pc \in {"idle", "checked"}
        BY <4>1, <4>2, NewPlace
      <4> QED BY <4>1, <4>3
    <3>4. CASE MakeDirectory(j)
      <4>1. job[j].pc = "checked" /\ Goto(j, "made") /\ "made" \in JobStates
        BY <3>4 DEF MakeDirectory, JobStates
      <4>2. job'[j].pc = "made"
        BY <4>1, NewPlace
      <4> QED BY <4>1, <4>2
    <3>3. CASE Cleanup(j)
      <4>1. job[j].pc = "entered" /\ Goto(j, "cleaned") /\ "cleaned" \in JobStates
        BY <3>3 DEF Cleanup, JobStates
      <4>2. job'[j].pc = "cleaned"
        BY <4>1, NewPlace
      <4> QED BY <4>1, <4>2
    <3> QED BY <1>3, <3>1, <3>2, <3>3, <3>4
  <2>2. Copying' = Copying
    BY <1>2, <2>1 DEF Copying
  <2>3. (dir' = "kept") = (dir = "kept") /\ UNCHANGED <<archive, file, synced, history>>
    BY <1>3 DEF Load, Check, MakeDirectory, Cleanup
  <2> QED BY <2>2, <2>3 DEF Promise!placementVars, history
<1>4. CASE Open(j)
  <2>1. UNCHANGED <<archive, dir, file, synced, history>> /\ job[j].pc = "made"
    BY <1>4 DEF Open, history
  <2>2. CASE Done(j)
    <3>1. Copying' = Copying
      BY <1>2, <2>1, <2>2 DEF Copying, Done, NoJob
    <3> QED BY <2>1, <3>1 DEF Promise!placementVars, history
  <2>3. CASE Staged(job[j].id) /\ ~Done(j)
    <3> DEFINE v == [id |-> job[j].id, bytes |-> archive[job[j].id], safe |-> TRUE]
    <3>1. /\ job'[j].pc = "opened" /\ job'[j].id = job[j].id
          /\ job'[j].source = archive[job[j].id]
      BY <1>4, <2>3 DEF Open, JobRecords
    <3>2. Copying' = Copying \cup {v}
      BY <1>2, <2>1, <3>1 DEF Copying
    <3>3. job[j].id \in Ids
      BY <1>1, <2>1 DEF JobOK
    <3>4. Promise!Read(job[j].id)
      BY <2>1, <2>3, <3>2 DEF Promise!Read, Promise!Volume, Staged, history
    <3> QED BY <3>3, <3>4 DEF Promise!Next
  <2> QED BY <1>4, <2>2, <2>3 DEF Open
<1>5. CASE Copy(j)
  <2>1. UNCHANGED <<archive, dir, file, synced, history>> /\ job[j].pc = "opened"
    BY <1>5 DEF Copy
  <2>2. job'[j].pc \in {"opened", "copied"} => job'[j].id = job[j].id /\ job'[j].source = job[j].source
    BY <1>5 DEF Copy, Done, NoJob, JobRecords
  <2>3. Copying' \subseteq Copying
    BY <1>2, <2>1, <2>2, CopyingShrinks
  <2>4. Promise!GiveUp
    BY <2>1, <2>3 DEF Promise!GiveUp, history
  <2> QED BY <2>4 DEF Promise!Next
<1>6. CASE Link(j)
  <2>1. /\ UNCHANGED <<archive, dir, synced, history>>
        /\ job[j].pc = "copied" /\ job'[j].pc \notin {"opened", "copied"}
    <3>1. /\ UNCHANGED <<archive, dir, synced, history>>
          /\ job[j].pc = "copied" /\ (Done(j) \/ Goto(j, "linked"))
      BY <1>6 DEF Link
    <3>2. "linked" \in JobStates
      BY DEF JobStates
    <3>3. job'[j].pc \in {"idle", "linked"}
      BY <3>1, <3>2, NewPlace
    <3> QED BY <3>1, <3>3
  <2>2. Copying' \subseteq Copying
    BY <1>2, <2>1, CopyingShrinks
  <2>3. CASE file' = file
    <3>1. Promise!GiveUp
      BY <2>1, <2>2, <2>3 DEF Promise!GiveUp, history
    <3> QED BY <3>1 DEF Promise!Next
  <2>4. CASE file' # file
    <3>1. /\ file[job[j].name] = None /\ file' = [file EXCEPT ![job[j].name] = job[j].copy]
      BY <1>6, <2>4 DEF Link
    <3>2. job[j].name \in Names
      BY <1>1, <2>1 DEF JobOK
    <3>3. job[j].copy = [id |-> job[j].id, bytes |-> job[j].source, safe |-> TRUE]
      BY <1>1, <2>1 DEF JobOK, Contents
    <3>4. job[j].copy \in Copying
      BY <2>1, <3>3 DEF Copying
    <3>5. Promise!Place(job[j].name)
      BY <2>1, <2>2, <3>1, <3>4 DEF Promise!Place, history
    <3> QED BY <3>2, <3>5 DEF Promise!Next
  <2> QED BY <2>3, <2>4
<1>7. CASE SyncDirectory(j)
  <2>1. UNCHANGED <<archive, dir, file, history>> /\ job[j].pc = "linked" /\ job'[j].pc \notin {"opened", "copied"}
    <3>1. /\ UNCHANGED <<archive, dir, file, history>>
          /\ job[j].pc = "linked" /\ (Done(j) \/ Goto(j, "entered"))
      BY <1>7 DEF SyncDirectory
    <3>2. "entered" \in JobStates
      BY DEF JobStates
    <3>3. job'[j].pc \in {"idle", "entered"}
      BY <3>1, <3>2, NewPlace
    <3> QED BY <3>1, <3>3
  <2>2. Copying' = Copying
    BY <1>2, <2>1 DEF Copying
  <2>3. synced' = synced \/ synced' = synced \cup {n \in Names : file[n] # None}
    BY <1>7 DEF SyncDirectory
  <2> QED BY <2>1, <2>2, <2>3 DEF Promise!Next, Promise!Settle, Promise!placementVars, history
<1>8. CASE UnlinkArchive(j)
  <2>1. /\ UNCHANGED <<dir, file, synced, history>> /\ job[j].pc = "cleaned" /\ job'[j].pc = "removed"
        /\ Unlink(job[j].id)
    BY <1>8 DEF UnlinkArchive, Goto
  <2>2. Copying' = Copying
    BY <1>2, <2>1 DEF Copying
  <2>3. job[j].id \in Ids /\ OnDisk(job[j].id)
    BY <1>1, <2>1 DEF JobOK
  <2>4. CASE Staged(job[j].id)
    <3>1. Promise!Clear(job[j].id)
      BY <2>1, <2>2, <2>3, <2>4, OnDiskSettled DEF Promise!Clear, Unlink, history
    <3> QED BY <2>3, <3>1 DEF Promise!Next
  <2>5. CASE ~Staged(job[j].id)
    <3>1. archive' = archive
      BY <2>1, <2>5 DEF Unlink
    <3> QED BY <2>1, <2>2, <3>1 DEF Promise!placementVars, history
  <2> QED BY <2>4, <2>5
<1>9. CASE Answer(j)
  <2>1. /\ UNCHANGED <<archive, owed, dir, file, synced, struck>>
        /\ job[j].pc = "removed" /\ job'[j].pc = "idle"
        /\ placed' = placed \cup {job[j].id}
        /\ exposed' = exposed \cup (IF dir = "new" THEN {job[j].id} ELSE {})
    BY <1>9 DEF Answer, Done, NoJob
  <2>2. Copying' = Copying
    BY <1>2, <2>1 DEF Copying
  <2>3. job[j].id \in Ids /\ OnDisk(job[j].id)
    BY <1>1, <2>1 DEF JobOK
  <2>4. dir # "absent"
    BY <2>3 DEF OnDisk, SyncedOK
  <2>5. exposed' = exposed \cup (IF dir = "kept" THEN {} ELSE {job[j].id})
    BY <2>1, <2>4
  <2>6. Promise!Confirm(job[j].id)
    BY <2>1, <2>2, <2>3, <2>5, OnDiskSettled DEF Promise!Confirm
  <2> QED BY <2>3, <2>6 DEF Promise!Next
<1> QED BY <1>3, <1>4, <1>5, <1>6, <1>7, <1>8, <1>9 DEF Commit

LEMMA OtherPromise ==
    ASSUME IInv, NEW i \in Ids, Store(i) \/ WriteSidecar(i) \/ SweepOrphan(i)
    PROVE  Promise!Next
<1> USE DEF IInv, TypeOK
<1>1. Copying' = Copying
  BY DEF Store, WriteSidecar, SweepOrphan, Copying
<1>2. CASE Store(i)
  <2>1. Promise!Stage(i)
    BY <1>1, <1>2 DEF Store, Fresh, history, Promise!Stage
  <2> QED BY <2>1 DEF Promise!Next
<1>3. CASE WriteSidecar(i)
  <2>1. Promise!Tell(i)
    BY <1>1, <1>3 DEF WriteSidecar, StagingOK, Staged, Promise!Tell
  <2> QED BY <2>1 DEF Promise!Next
<1>4. CASE SweepOrphan(i)
  <2>1. i \notin owed \ struck \/ Promise!Settled(i)
    BY <1>4, OnDiskSettled DEF SweepOrphan, NothingLost
  <2>2. Promise!Clear(i)
    BY <1>1, <1>4, <2>1 DEF SweepOrphan, Unlink, history, Promise!Clear
  <2> QED BY <2>2 DEF Promise!Next
<1> QED BY <1>2, <1>3, <1>4

LEMMA WithdrawPromise ==
    ASSUME IInv, NEW w \in Withdraws, Withdrawal(w)
    PROVE  Promise!Next \/ UNCHANGED Promise!placementVars
<1> USE DEF IInv, TypeOK
<1>1. Copying' = Copying
  BY DEF Withdrawal, WithdrawBegin, WithdrawArchive, WithdrawSidecar, Copying
<1>2. CASE (\E i \in Ids : WithdrawBegin(w, i)) \/ WithdrawSidecar(w)
  BY <1>1, <1>2 DEF WithdrawBegin, WithdrawSidecar, history, Promise!placementVars
<1>3. CASE WithdrawArchive(w)
  <2>1. withdraw[w].id \in Ids
    BY <1>3 DEF WithdrawArchive, WithdrawsOK
  <2>2. Promise!Withdraw(withdraw[w].id)
    BY <1>1, <1>3 DEF WithdrawArchive, Unlink, Promise!Withdraw
  <2> QED BY <2>1, <2>2 DEF Promise!Next
<1> QED BY <1>2, <1>3 DEF Withdrawal

LEMMA PowerPromise ==
    ASSUME IInv, NEW after, NEW records, NEW d, NEW names,
           Outcome(after, records, d, names), LosePower(after, records, d, names)
    PROVE  Promise!LosePower
<1> USE DEF IInv, TypeOK
<1>1. /\ UNCHANGED <<owed, placed, exposed>> /\ job' = [j \in Jobs |-> NoJob]
      /\ PowerLosses > 0 /\ archive' = after /\ dir' = d /\ synced' = names
  BY IngestAssumption DEF LosePower, Restarted
<1>2. Copying' = {}
  BY <1>1 DEF Copying, NoJob
<1>3. /\ archive' \in [Ids -> {"absent", "whole", "torn"}]
      /\ \A i \in Ids : archive[i] = "absent" => archive'[i] = "absent"
  BY <1>1 DEF Outcome, LosePower, Left
<1>4. \A n \in Names : file'[n] = IF n \in names THEN file[n] ELSE None
  BY PowerFiles
<1>5. file' \in [Names -> {file[n] : n \in Names} \cup {None}]
  <2>1. file' = [n \in Names |-> file'[n]]
    BY DEF LosePower
  <2> QED BY <1>4, <2>1
<1>6. synced' = {n \in Names : file'[n] # None}
  <2>1. names \subseteq {n \in Names : file[n] # None}
    BY PowerFiles
  <2> QED BY <1>1, <1>4, <2>1 DEF Outcome
<1>7. /\ (dir' = "kept") \in BOOLEAN
      /\ synced \subseteq synced' \/ (~(dir = "kept") /\ synced' = {})
      /\ dir = "kept" => dir' = "kept"
  BY PowerFiles
<1>8. struck' = struck \cup {i \in owed : (after[i] = "absent" \/ i \notin records)
                                          /\ ~\E n \in names : Holds(n, i)}
  BY DEF LosePower
<1>9. \A i \in Ids : Promise!Settled(i)' <=> \E n \in names : Holds(n, i)
  BY <1>1, <1>4 DEF Promise!Settled, Holds, Outcome
<1>10. \A i \in owed \ struck' : Promise!Settled(i)' \/ archive'[i] # "absent"
  BY <1>1, <1>8, <1>9
<1>11. \A i \in struck' \ struck : ~Promise!Settled(i)'
  BY <1>8, <1>9
<1>12. struck \subseteq struck' /\ struck' \subseteq struck \cup owed
  BY <1>8
<1> HIDE DEF IInv, TypeOK
<1> QED BY <1>1, <1>2, <1>3, <1>4, <1>5, <1>6, <1>7, <1>10, <1>11, <1>12 DEF Promise!LosePower

LEMMA PlacementStep ==
    ASSUME IInv, Next
    PROVE  Promise!Next \/ UNCHANGED Promise!placementVars
<1>1. CASE Crash
  <2>1. Copying' = {} /\ UNCHANGED <<archive, dir, file, synced, history>>
    BY <1>1 DEF Crash, Restarted, Copying, NoJob
  <2>2. Promise!GiveUp
    BY <2>1 DEF Promise!GiveUp, history
  <2> QED BY <2>2 DEF Promise!Next
<1>2. ASSUME NEW after, NEW records, NEW d, NEW names,
             Outcome(after, records, d, names), LosePower(after, records, d, names)
      PROVE  Promise!Next
  BY <1>2, PowerPromise DEF Promise!Next
<1> QED BY <1>1, <1>2, CommitPromise, OtherPromise, WithdrawPromise DEF Next, Withdrawal, Outcome

\* stage, commit, discard and the sweeps do what Placement promises, whatever is
\* interleaved and whenever the process or the machine dies.
THEOREM CommitsImplementPlacement == Spec => PlacementAsPromised
<1>1. Init => Promise!Init
  BY PlacementStart
<1>2. IInv /\ [Next]_vars => [Promise!Next]_(Promise!placementVars)
  <2>1. UNCHANGED vars => UNCHANGED Promise!placementVars
    BY DEF vars, Promise!placementVars, Copying
  <2> QED BY <2>1, PlacementStep
<1> QED BY <1>1, <1>2, Invariance, PTL DEF Spec, PlacementAsPromised, Promise!Spec

-----------------------------------------------------------------------------
(***************************************************************************)
(* The quota, from here on.                                                *)
(***************************************************************************)

\* The calls that may still be admitted: told of fewer files than the ceiling.
Hopeful == {u \in In({"asked"}) : held[u].files < MaxFiles}

\* Every set of uploads is finite, and no larger than one it is part of.
LEMMA Smaller ==
    ASSUME IsFiniteSet(Uploads), NEW S \in SUBSET Uploads, NEW T \in SUBSET S
    PROVE  /\ IsFiniteSet(S) /\ Cardinality(S) \in Nat /\ IsFiniteSet(T) /\ Cardinality(T) \in Nat
           /\ Cardinality(T) <= Cardinality(S)
BY FS_Subset, FS_CardinalityType

\* list.remove takes one entry off, or none when nothing is equal; then one
\* more entry stays for good.
LEMMA LeaveIs ==
    ASSUME active \in Seq(Uploads), astray \subseteq Uploads, failed \in Nat, NEW u, NEW w, Leave(u, w)
    PROVE  /\ active' \in Seq(Uploads) /\ astray' \subseteq Uploads /\ failed' \in Nat
           /\ \/ Len(active') = Len(active) /\ failed' = failed + 1
              \/ Len(active') = Len(active) - 1 /\ failed' = failed
<1>1. CASE Equal(u, w) = {}
  BY <1>1 DEF Leave
<1>2. CASE Equal(u, w) # {}
  <2> DEFINE E == Equal(u, w)
             i == Min(E)
             n == Len(active)
  <2>1. E \subseteq 1..n /\ E # {} /\ n \in Nat
    BY <1>2 DEF Equal
  <2>2. i \in E
    <3> DEFINE R == OpToRel(<, Nat)
    <3>1. IsWellFoundedOn(R, Nat)
      BY NatLessThanWellFounded
    <3>2. \A x, y \in Nat : y < x => <<y, x>> \in R
      BY DEF OpToRel
    <3> HIDE DEF R
    <3>3. E \subseteq Nat
      BY <2>1
    <3> HIDE DEF E
    <3>4. PICK x \in E : \A y \in E : ~(<<y, x>> \in R)
      BY <2>1, <3>1, <3>3, WFMin
    <3>5. \A y \in E : x <= y
      <4> TAKE y \in E
      <4>1. x \in Nat /\ y \in Nat /\ ~(y < x)
        BY <3>2, <3>3, <3>4
      <4> QED BY <4>1
    <3> QED BY <3>5 DEF Min
  <2>3. i \in 1..n
    BY <2>1, <2>2
  <2>4. /\ active' = SubSeq(active, 1, i - 1) \o SubSeq(active, i + 1, n)
        /\ astray' \subseteq Uploads /\ failed' = failed
    BY <1>2 DEF Leave, Inside, In
  <2> HIDE DEF i
  <2>5. SubSeq(active, 1, i - 1) \in Seq(Uploads) /\ Len(SubSeq(active, 1, i - 1)) = i - 1
    BY <2>1, <2>3
  <2>6. SubSeq(active, i + 1, n) \in Seq(Uploads) /\ Len(SubSeq(active, i + 1, n)) = n - i
    BY <2>1, <2>3
  <2>7. active' \in Seq(Uploads) /\ Len(active') = (i - 1) + (n - i)
    BY <2>4, <2>5, <2>6
  <2>8. i \in Nat /\ (i - 1) + (n - i) = n - 1
    BY <2>1, <2>3
  <2>9. Len(active') = Len(active) - 1
    BY <2>7, <2>8
  <2> QED BY <2>4, <2>7, <2>9
<1> QED BY <1>1, <1>2

\* The calls that run together, and the uploads that may claim a file.
CountsBounded(calls, claims) ==
    /\ Cardinality(calls) <= Workers
    /\ Cardinality(claims) < MaxFiles + Workers

Claims == (Counted \ missed) \cup Hopeful

\* The list holds an entry for each upload in progress, and one for each removal
\* that found nothing.
ListExact ==
    /\ Len(active) = Cardinality(Inside) + failed
    /\ Len(active) <= MaxFiles

\* A step that takes nothing on: the sets only lose members.
LEMMA Loses ==
    ASSUME QuotaAssumption, NEW calls \in SUBSET Uploads, NEW claims \in SUBSET Uploads,
           CountsBounded(calls, claims),
           NEW calls2 \in SUBSET calls, NEW claims2 \in SUBSET claims
    PROVE  CountsBounded(calls2, claims2)
<1>1. IsFiniteSet(Uploads) /\ MaxFiles \in Nat /\ Workers \in Nat
  BY DEF QuotaAssumption
<1>2. /\ Cardinality(calls2) <= Cardinality(calls) /\ Cardinality(calls2) \in Nat /\ Cardinality(calls) \in Nat
  BY <1>1, Smaller
<1>3. /\ Cardinality(claims2) <= Cardinality(claims) /\ Cardinality(claims2) \in Nat /\ Cardinality(claims) \in Nat
  BY <1>1, Smaller
<1> QED BY <1>1, <1>2, <1>3 DEF CountsBounded

LEMMA AllUploads ==
    Calls \in SUBSET Uploads /\ Claims \in SUBSET Uploads /\ Inside \in SUBSET Uploads
BY DEF Calls, Claims, Inside, Counted, Hopeful, In

LEMMA AskKeeps ==
    ASSUME QuotaAssumption, QuotaTypeOK, CountsBounded(Calls, Claims),
           NEW u \in Uploads, NEW gone \in SUBSET Uploads, NEW unseen \in SUBSET Uploads, Ask(u, gone, unseen)
    PROVE  CountsBounded(Calls', Claims')
<1> DEFINE told == In({"staged"}) \ (gone \cup unseen)
           k == Cardinality(told)
<1>1. /\ phase[u] = "new" \/ u \in gone
      /\ Cardinality(Calls) < Workers
      /\ gone \subseteq In({"staged", "orphan"})
      /\ unseen \subseteq In({"staged"}) \ gone
      /\ phase' = [v \in Uploads |-> IF v = u THEN "asked" ELSE IF v \in gone THEN "new" ELSE phase[v]]
      /\ held' = [held EXCEPT ![u] = [files |-> k, bytes |-> Total(size, told)]]
      /\ missed' = (missed \ (gone \cup {u})) \cup unseen
  BY DEF Ask, Told
<1>2. IsFiniteSet(Uploads) /\ MaxFiles \in Nat /\ Workers \in Nat
  BY DEF QuotaAssumption
<1>3. told \in SUBSET Uploads
  BY DEF In
<1>4. k \in Nat /\ IsFiniteSet(told)
  BY <1>2, <1>3, Smaller
<1> HIDE DEF k, told
<1>5. held'[u].files = k /\ \A v \in Uploads : v # u => held'[v] = held[v]
  BY <1>1 DEF QuotaTypeOK
<1>7. Calls' = Calls \cup {u}
  BY <1>1 DEF Calls, In
<1>8. Cardinality(Calls') <= Workers /\ Cardinality(Calls') \in Nat /\ IsFiniteSet(Calls')
  <2>1. IsFiniteSet(Calls) /\ Cardinality(Calls) \in Nat
    BY <1>2, AllUploads, Smaller
  <2>2. u \notin Calls
    BY <1>1 DEF Calls, In
  <2>3. Cardinality(Calls \cup {u}) = Cardinality(Calls) + 1 /\ IsFiniteSet(Calls \cup {u})
    BY <2>1, <2>2, FS_AddElement
  <2> QED BY <1>1, <1>2, <1>7, <2>1, <2>3
<1>10. Cardinality(Claims') < MaxFiles + Workers
  <2>1. CASE k < MaxFiles
    <3>1. Claims' \subseteq told \cup Calls'
      BY <1>1 DEF Claims, Counted, Hopeful, Calls, In, told
    <3>2. /\ IsFiniteSet(told \cup Calls')
          /\ Cardinality(told \cup Calls') = k + Cardinality(Calls') - Cardinality(told \cap Calls')
          /\ Cardinality(told \cap Calls') \in Nat
      BY <1>4, <1>8, FS_Union, FS_Intersection, FS_CardinalityType DEF k
    <3>3. Cardinality(Claims') <= Cardinality(told \cup Calls') /\ Cardinality(Claims') \in Nat
      BY <3>1, <3>2, FS_Subset, FS_CardinalityType
    <3> QED BY <2>1, <3>2, <3>3, <1>2, <1>4, <1>8
  <2>2. CASE ~(k < MaxFiles)
    <3>1. Claims' \subseteq Claims
      BY <1>1, <1>5, <2>2 DEF Claims, Counted, Hopeful, In
    <3>2. Cardinality(Claims') <= Cardinality(Claims) /\ Cardinality(Claims') \in Nat /\ Cardinality(Claims) \in Nat
      BY <3>1, <1>2, AllUploads, Smaller
    <3> QED BY <3>2, <1>2 DEF CountsBounded
  <2> QED BY <2>1, <2>2
<1> QED BY <1>1, <1>8, <1>10 DEF CountsBounded

\* A call that was told of too many files is refused; only the others go in.
LEMMA AdmitKeeps ==
    ASSUME QuotaAssumption, QuotaTypeOK, CountsBounded(Calls, Claims), NEW u \in Uploads, Admit(u)
    PROVE  CountsBounded(Calls', Claims')
<1>1. /\ phase[u] = "asked" /\ held[u].files + Len(active) < MaxFiles
      /\ phase' = [phase EXCEPT ![u] = "inside"] /\ UNCHANGED <<held, missed>>
  BY DEF Admit
<1>2. \A v \in Uploads : phase'[v] = IF v = u THEN "inside" ELSE phase[v]
  BY <1>1 DEF QuotaTypeOK
<1>3. held[u].files < MaxFiles
  BY <1>1 DEF QuotaTypeOK, QuotaAssumption
<1>4. Calls' = Calls
  BY <1>1, <1>2 DEF Calls, In
<1>5. Claims' \subseteq Claims
  BY <1>1, <1>2, <1>3 DEF Claims, Counted, Hopeful, In
<1> QED BY <1>4, <1>5, AllUploads, Loses

\* Every other step of an upload counts no file that was not counted.
LEMMA OtherKeeps ==
    ASSUME QuotaAssumption, QuotaTypeOK, CountsBounded(Calls, Claims), NEW u \in Uploads,
           NEW p \in Phases, phase' = [phase EXCEPT ![u] = p],
           missed' = missed \/ (p = "new" /\ missed' = missed \ {u}),
           \A v \in Uploads : v # u => held'[v] = held[v],
           \/ p = "new"
           \/ p \in {"inside", "writing", "stored", "orphan"} /\ phase[u] \in {"inside", "writing"}
           \/ p \in {"staged", "orphan"} /\ phase[u] = "stored"
    PROVE  CountsBounded(Calls', Claims')
<1>1. \A v \in Uploads : phase'[v] = IF v = u THEN p ELSE phase[v]
  BY DEF QuotaTypeOK
<1>3. Calls' \subseteq Calls
  BY <1>1 DEF Calls, In
<1>4. Claims' \subseteq Claims
  BY <1>1 DEF Claims, Counted, Hopeful, In
<1> QED BY <1>3, <1>4, AllUploads, Loses

\* A restart forgets the calls and counts what is staged as before.
LEMMA RestartKeeps ==
    ASSUME QuotaAssumption, QuotaTypeOK, CountsBounded(Calls, Claims), Restart
    PROVE  CountsBounded(Calls', Claims')
<1>1. /\ missed' = missed
      /\ phase' = [u \in Uploads |->
            CASE phase[u] = "asked" -> "new"
              [] phase[u] \in {"inside", "writing", "stored"} -> "orphan"
              [] OTHER -> phase[u]]
  BY DEF Restart
<1>3. Calls' = {}
  BY <1>1 DEF Calls, In
<1>4. Claims' \subseteq Claims
  BY <1>1 DEF Claims, Counted, Hopeful, In
<1> QED BY <1>3, <1>4, AllUploads, Loses

LEMMA CountsStep ==
    ASSUME QuotaAssumption, QuotaTypeOK, CountsBounded(Calls, Claims), [QuotaNext]_quotaVars
    PROVE  CountsBounded(Calls', Claims')
<1>1. CASE Restart
  BY <1>1, RestartKeeps
<1>2. ASSUME NEW u \in Uploads, NEW gone \in SUBSET Uploads, NEW unseen \in SUBSET Uploads, Ask(u, gone, unseen)
      PROVE  CountsBounded(Calls', Claims')
  BY <1>2, AskKeeps
<1>3. ASSUME NEW u \in Uploads, Admit(u)
      PROVE  CountsBounded(Calls', Claims')
  BY <1>3, AdmitKeeps
<1>4. ASSUME NEW u \in Uploads,
             \/ Refuse(u) \/ Accept(u) \/ Reject(u) \/ Write(u) \/ WriteFails(u) \/ Stored(u)
             \/ Record(u) \/ InspectFails(u) \/ Remove(u)
      PROVE  CountsBounded(Calls', Claims')
  <2>1. \A v \in Uploads : v # u => held'[v] = held[v]
    BY <1>4 DEF Refuse, Accept, Reject, Write, WriteFails, Stored, Record, InspectFails, Remove, QuotaTypeOK
  <2>2. CASE phase' = [phase EXCEPT ![u] = "new"] /\ (missed' = missed \/ missed' = missed \ {u})
    BY <2>1, <2>2, OtherKeeps DEF Phases
  <2>3. CASE phase' = [phase EXCEPT ![u] = "inside"] /\ phase[u] = "writing" /\ missed' = missed
    BY <2>1, <2>3, OtherKeeps DEF Phases
  <2>4. CASE phase' = [phase EXCEPT ![u] = "writing"] /\ phase[u] = "inside" /\ missed' = missed
    BY <2>1, <2>4, OtherKeeps DEF Phases
  <2>5. CASE phase' = [phase EXCEPT ![u] = "orphan"] /\ phase[u] \in {"inside", "writing", "stored"} /\ missed' = missed
    BY <2>1, <2>5, OtherKeeps DEF Phases
  <2>6. CASE phase' = [phase EXCEPT ![u] = "stored"] /\ phase[u] = "inside" /\ missed' = missed
    BY <2>1, <2>6, OtherKeeps DEF Phases
  <2>7. CASE phase' = [phase EXCEPT ![u] = "staged"] /\ phase[u] = "stored" /\ missed' = missed
    BY <2>1, <2>7, OtherKeeps DEF Phases
  <2> QED BY <1>4, <2>2, <2>3, <2>4, <2>5, <2>6, <2>7
           DEF Refuse, Accept, Reject, Write, WriteFails, Stored, Record, InspectFails, Remove
<1>6. CASE UNCHANGED quotaVars
  BY <1>6 DEF quotaVars, Calls, Claims, Counted, Hopeful, In
<1> QED BY <1>1, <1>2, <1>3, <1>4, <1>6 DEF QuotaNext

\* An upload that leaves takes an entry off the list, or adds to what is lost.
LEMMA LeavesExact ==
    ASSUME QuotaAssumption, QuotaTypeOK, ListExact, NEW u \in Uploads, phase[u] \in {"inside", "writing"},
           NEW w, Leave(u, w), NEW p \in {"new", "stored", "orphan"}, phase' = [phase EXCEPT ![u] = p]
    PROVE  ListExact'
<1>1. IsFiniteSet(Uploads) /\ MaxFiles \in Nat
  BY DEF QuotaAssumption
<1>2. Inside' = Inside \ {u} /\ u \in Inside
  BY DEF Inside, In, QuotaTypeOK
<1>3. Cardinality(Inside') = Cardinality(Inside) - 1 /\ Cardinality(Inside) \in Nat
  BY <1>1, <1>2, AllUploads, Smaller, FS_RemoveElement
<1>4. /\ active \in Seq(Uploads) /\ Len(active) \in Nat /\ failed \in Nat
      /\ \/ Len(active') = Len(active) /\ failed' = failed + 1
         \/ Len(active') = Len(active) - 1 /\ failed' = failed
  BY LeaveIs DEF QuotaTypeOK
<1> QED BY <1>1, <1>3, <1>4 DEF ListExact

LEMMA ListStep ==
    ASSUME QuotaAssumption, QuotaTypeOK, ListExact, [QuotaNext]_quotaVars
    PROVE  ListExact'
<1>0. IsFiniteSet(Uploads) /\ MaxFiles \in Nat
  BY DEF QuotaAssumption
<1>1. CASE Restart
  <2>1. Inside' = {} /\ active' = <<>> /\ failed' = 0
    BY <1>1 DEF Restart, Inside, In
  <2> QED BY <1>0, <2>1, FS_EmptySet DEF ListExact
<1>2. ASSUME NEW u \in Uploads, Admit(u)
      PROVE  ListExact'
  <2>1. /\ phase[u] = "asked" /\ held[u].files + Len(active) < MaxFiles /\ active' = Append(active, u)
        /\ phase' = [phase EXCEPT ![u] = "inside"] /\ failed' = failed
    BY <1>2 DEF Admit
  <2>2. Len(active) \in Nat /\ Len(active') = Len(active) + 1 /\ held[u].files \in Nat /\ failed \in Nat
    BY <2>1 DEF QuotaTypeOK
  <2>3. Inside' = Inside \cup {u} /\ u \notin Inside
    BY <2>1 DEF Inside, In, QuotaTypeOK
  <2>4. Cardinality(Inside') = Cardinality(Inside) + 1 /\ Cardinality(Inside) \in Nat
    BY <1>0, <2>3, AllUploads, Smaller, FS_AddElement
  <2> QED BY <1>0, <2>1, <2>2, <2>4 DEF ListExact
<1>3. ASSUME NEW u \in Uploads, Reject(u) \/ WriteFails(u) \/ Stored(u)
      PROVE  ListExact'
  <2>1. phase[u] \in {"inside", "writing"} /\ \E w : Leave(u, w)
    BY <1>3 DEF Reject, WriteFails, Stored
  <2>2. \E p \in {"new", "stored", "orphan"} : phase' = [phase EXCEPT ![u] = p]
    BY <1>3 DEF Reject, WriteFails, Stored
  <2> QED BY <2>1, <2>2, LeavesExact
<1>4. ASSUME NEW u \in Uploads, Refuse(u) \/ Accept(u) \/ Write(u) \/ Record(u) \/ InspectFails(u) \/ Remove(u)
      PROVE  ListExact'
  <2>1. active' = active /\ failed' = failed
    BY <1>4 DEF Refuse, Accept, Write, Record, InspectFails, Remove
  <2>2. Inside' = Inside
    BY <1>4 DEF Refuse, Accept, Write, Record, InspectFails, Remove, Inside, In, QuotaTypeOK
  <2> QED BY <2>1, <2>2 DEF ListExact
<1>5. ASSUME NEW u \in Uploads, NEW gone \in SUBSET Uploads, NEW unseen \in SUBSET Uploads, Ask(u, gone, unseen)
      PROVE  ListExact'
  <2>1. active' = active /\ failed' = failed /\ Inside' = Inside
    BY <1>5 DEF Ask, Told, Inside, In
  <2> QED BY <2>1 DEF ListExact
<1>6. CASE UNCHANGED quotaVars
  BY <1>6 DEF quotaVars, ListExact, Inside, In
<1> QED BY <1>1, <1>2, <1>3, <1>4, <1>5, <1>6 DEF QuotaNext

LEMMA CountsStart ==
    ASSUME QuotaAssumption, QuotaInit
    PROVE  CountsBounded(Calls, Claims) /\ ListExact
<1>2. Calls = {} /\ Claims = {} /\ Inside = {}
  BY DEF QuotaInit, Calls, Claims, Inside, Counted, Hopeful, In
<1>3. Cardinality({}) = 0 /\ Len(active) = 0 /\ failed = 0
  BY FS_EmptySet DEF QuotaInit
<1> QED BY <1>2, <1>3 DEF CountsBounded, ListExact, QuotaAssumption

-----------------------------------------------------------------------------
\* Bytes are counted as the chunks they come in, so a sum is a cardinality.
LEMMA ChunksFinite ==
    ASSUME IsFiniteSet(Uploads), NEW f \in [Uploads -> Nat], NEW S \in SUBSET Uploads
    PROVE  IsFiniteSet(Chunks(f, S)) /\ Total(f, S) \in Nat
<1> DEFINE ChunksOf == [u \in S |-> {u} \X (1..f[u])]
           Files == {ChunksOf[u] : u \in S}
<1>1. IsFiniteSet(S)
  BY FS_Subset
<1>2. IsFiniteSet(Files)
  <2>1. ChunksOf \in Surjection(S, Files)
    BY DEF Surjection
  <2> HIDE DEF ChunksOf, Files
  <2> QED BY <1>1, <2>1, FS_Surjection
<1>3. ASSUME NEW T \in Files PROVE IsFiniteSet(T)
  <2>1. PICK u \in S : T = {u} \X (1..f[u])
    OBVIOUS
  <2>2. f[u] \in Nat
    OBVIOUS
  <2>3. IsFiniteSet({u})
    BY FS_Singleton
  <2>4. IsFiniteSet(1..f[u])
    BY <2>2, FS_Interval
  <2> QED BY <2>1, <2>3, <2>4, FS_Product
<1>4. Chunks(f, S) = UNION Files
  BY DEF Chunks
<1> HIDE DEF Files
<1>5. IsFiniteSet(Chunks(f, S))
  BY <1>2, <1>3, <1>4, FS_UNION
<1> QED BY <1>5, FS_CardinalityType DEF Total

\* Files that do not grow take no more.
LEMMA TotalShrinks ==
    ASSUME IsFiniteSet(Uploads), NEW f \in [Uploads -> Nat], NEW g \in [Uploads -> Nat],
           \A u \in Uploads : g[u] <= f[u]
    PROVE  /\ Total(f, Uploads) \in Nat /\ Total(g, Uploads) \in Nat
           /\ Total(g, Uploads) <= Total(f, Uploads)
<1>1. \A u \in Uploads : 1..g[u] \subseteq 1..f[u]
  <2> TAKE u \in Uploads
  <2>1. g[u] \in Nat /\ f[u] \in Nat /\ g[u] <= f[u]
    OBVIOUS
  <2> QED BY <2>1
<1>2. Chunks(g, Uploads) \subseteq Chunks(f, Uploads)
  BY <1>1 DEF Chunks
<1> QED BY <1>2, ChunksFinite, FS_Subset DEF Total

\* A file that grows by a chunk takes one more.
LEMMA TotalGrows ==
    ASSUME IsFiniteSet(Uploads), NEW f \in [Uploads -> Nat], NEW u \in Uploads,
           NEW g, g = [f EXCEPT ![u] = @ + 1]
    PROVE  /\ Total(f, Uploads) \in Nat
           /\ Total(g, Uploads) = Total(f, Uploads) + 1
<1> DEFINE c == <<u, f[u] + 1>>
<1>1. f[u] \in Nat /\ f[u] + 1 \notin 1..f[u] /\ 1..(f[u] + 1) = (1..f[u]) \cup {f[u] + 1}
  OBVIOUS
<1>2. \A v \in Uploads : {v} \X (1..g[v]) = IF v = u THEN ({u} \X (1..f[u])) \cup {c} ELSE {v} \X (1..f[v])
  BY <1>1
<1>3. Chunks(g, Uploads) = Chunks(f, Uploads) \cup {c}
  BY <1>2 DEF Chunks
<1>4. c \notin Chunks(f, Uploads)
  BY <1>1 DEF Chunks
<1>5. IsFiniteSet(Chunks(f, Uploads)) /\ Total(f, Uploads) \in Nat
  BY ChunksFinite
<1> QED BY <1>3, <1>4, <1>5, FS_AddElement DEF Total

\* An upload that takes a chunk is inside, and the list bounds how many are.
LEMMA WritersBounded ==
    ASSUME QuotaAssumption, NEW inside \in SUBSET Uploads, NEW n \in Nat,
           Cardinality(inside) + n <= MaxFiles, NEW writers \in SUBSET inside
    PROVE  Cardinality(writers) \in Nat /\ Cardinality(writers) <= MaxFiles
<1>1. IsFiniteSet(Uploads) /\ MaxFiles \in Nat
  BY DEF QuotaAssumption
<1>2. Cardinality(writers) <= Cardinality(inside) /\ Cardinality(writers) \in Nat /\ Cardinality(inside) \in Nat
  BY <1>1, Smaller
<1> QED BY <1>1, <1>2

-----------------------------------------------------------------------------
\* The types, for every step.
LEMMA QuotaTypeStep ==
    ASSUME QuotaAssumption, QuotaTypeOK, [QuotaNext]_quotaVars
    PROVE  QuotaTypeOK'
<1> USE DEF QuotaTypeOK, Phases
<1>1. IsFiniteSet(Uploads)
  BY DEF QuotaAssumption
<1>2. CASE Restart
  BY <1>2 DEF Restart, Nothing
<1>3. ASSUME NEW u \in Uploads, NEW gone \in SUBSET Uploads, NEW unseen \in SUBSET Uploads, Ask(u, gone, unseen)
      PROVE  QuotaTypeOK'
  <2> DEFINE told == In({"staged"}) \ (gone \cup unseen)
  <2>1. told \in SUBSET Uploads
    BY DEF In
  <2>2. Cardinality(told) \in Nat /\ Total(size, told) \in Nat
    BY <1>1, <2>1, Smaller, ChunksFinite
  <2>3. held' = [held EXCEPT ![u] = [files |-> Cardinality(told), bytes |-> Total(size, told)]]
    BY <1>3 DEF Ask, Told
  <2> HIDE DEF told
  <2>4. held' \in [Uploads -> [files : Nat, bytes : Nat]]
    BY <2>2, <2>3
  <2>5. phase' \in [Uploads -> Phases] /\ size' \in [Uploads -> Nat]
    BY <1>3 DEF Ask, Told
  <2>6. active' = active /\ failed' = failed /\ written' = [written EXCEPT ![u] = 0]
    BY <1>3 DEF Ask, Told
  <2>7. missed' \subseteq Uploads /\ astray' \subseteq Uploads
    BY <1>3 DEF Ask, Told
  <2> QED BY <2>4, <2>5, <2>6, <2>7
<1>4. ASSUME NEW u \in Uploads, Admit(u) \/ Refuse(u)
      PROVE  QuotaTypeOK'
  <2>1. phase' \in [Uploads -> Phases]
    BY <1>4 DEF Admit, Refuse
  <2>2. active' = active \/ active' = Append(active, u)
    BY <1>4 DEF Admit, Refuse
  <2>3. Append(active, u) \in Seq(Uploads) /\ active \in Seq(Uploads)
    BY AppendProperties
  <2>4. UNCHANGED <<written, size, missed, astray, failed>>
    BY <1>4 DEF Admit, Refuse
  <2>5. held' = held \/ held' = [held EXCEPT ![u] = Nothing]
    BY <1>4 DEF Admit, Refuse
  <2>6. held' \in [Uploads -> [files : Nat, bytes : Nat]]
    <3>1. Nothing \in [files : Nat, bytes : Nat]
      BY DEF Nothing
    <3> QED BY <2>5, <3>1
  <2> QED BY <2>1, <2>2, <2>3, <2>4, <2>6
<1>5. ASSUME NEW u \in Uploads, Accept(u)
      PROVE  QuotaTypeOK'
  <2>1. Grown(u) \in [Uploads -> Nat]
    BY DEF Grown
  <2>2. written' = Grown(u) /\ phase' \in [Uploads -> Phases] /\ UNCHANGED <<active, held, size, missed, astray, failed>>
    BY <1>5 DEF Accept
  <2> QED BY <2>1, <2>2
<1>6. ASSUME NEW u \in Uploads, Write(u) \/ Record(u) \/ InspectFails(u) \/ Remove(u)
      PROVE  QuotaTypeOK'
  <2>1. phase' \in [Uploads -> Phases] /\ UNCHANGED <<active, written, held, failed>>
    BY <1>6 DEF Write, Record, InspectFails, Remove
  <2>2. size' = size \/ size' = [size EXCEPT ![u] = 0] \/ size' = [size EXCEPT ![u] = @ + 1]
    BY <1>6 DEF Write, Record, InspectFails, Remove
  <2>3. size[u] \in Nat /\ size[u] + 1 \in Nat
    OBVIOUS
  <2>4. [size EXCEPT ![u] = 0] \in [Uploads -> Nat] /\ [size EXCEPT ![u] = @ + 1] \in [Uploads -> Nat]
    BY <2>3
  <2>5. missed' \subseteq Uploads /\ astray' \subseteq Uploads
    BY <1>6 DEF Write, Record, InspectFails, Remove
  <2> QED BY <2>1, <2>2, <2>4, <2>5
<1>7. ASSUME NEW u \in Uploads, Reject(u) \/ WriteFails(u) \/ Stored(u)
      PROVE  QuotaTypeOK'
  <2>1. active' \in Seq(Uploads) /\ astray' \subseteq Uploads /\ failed' \in Nat
    BY <1>7, LeaveIs DEF Reject, WriteFails, Stored
  <2>2. Grown(u) \in [Uploads -> Nat]
    BY DEF Grown
  <2>3. written' \in [Uploads -> Nat] /\ phase' \in [Uploads -> Phases]
    BY <1>7, <2>2 DEF Reject, WriteFails, Stored
  <2>4. (size' = size \/ size' = [size EXCEPT ![u] = 0]) /\ missed' = missed /\ held' = [held EXCEPT ![u] = Nothing]
    BY <1>7 DEF Reject, WriteFails, Stored
  <2>5. held' \in [Uploads -> [files : Nat, bytes : Nat]] /\ size' \in [Uploads -> Nat]
    BY <2>4 DEF Nothing
  <2> QED BY <2>1, <2>3, <2>4, <2>5
<1>8. CASE UNCHANGED quotaVars
  BY <1>8 DEF quotaVars
<1> QED BY <1>2, <1>3, <1>4, <1>5, <1>6, <1>7, <1>8 DEF QuotaNext

\* A step that stores nothing and accepts nothing leaves the reserve as it was.
LEMMA ReserveShrinks ==
    ASSUME QuotaAssumption, QuotaTypeOK, QuotaTypeOK', ReserveKept,
           \A u \in Uploads : size'[u] <= size[u],
           In({"writing"})' \subseteq In({"writing"})
    PROVE  ReserveKept'
<1>1. IsFiniteSet(Uploads) /\ MaxFiles \in Nat /\ Disk \in Nat /\ Reserve \in Nat
  BY DEF QuotaAssumption
<1>2. /\ Total(size, Uploads) \in Nat /\ Total(size', Uploads) \in Nat
      /\ Total(size', Uploads) <= Total(size, Uploads)
  BY <1>1, TotalShrinks DEF QuotaTypeOK
<1>3. /\ Cardinality(In({"writing"})') <= Cardinality(In({"writing"}))
      /\ Cardinality(In({"writing"})') \in Nat /\ Cardinality(In({"writing"})) \in Nat
  <2>1. In({"writing"}) \in SUBSET Uploads
    BY DEF In
  <2> QED BY <1>1, <2>1, Smaller
<1>4. Free = Disk - Total(size, Uploads) /\ Free' = Disk - Total(size', Uploads)
  BY DEF Free
<1>5. CASE Reserve <= Disk
  BY <1>1, <1>2, <1>3, <1>4, <1>5 DEF ReserveKept
<1>6. CASE ~(Reserve <= Disk)
  <2>1. Reserve > Disk /\ Free = Disk /\ In({"writing"}) = {}
    BY <1>1, <1>6 DEF ReserveKept
  <2>2. Free' = Disk
    BY <1>1, <1>2, <1>4, <2>1
  <2> QED BY <1>1, <1>6, <2>1, <2>2 DEF ReserveKept
<1> QED BY <1>5, <1>6

\* A chunk is accepted only while the reserve is free, however many others were.
LEMMA AcceptReserve ==
    ASSUME QuotaAssumption, QuotaTypeOK, ListExact',
           QuotaTypeOK', NEW u \in Uploads, Accept(u)
    PROVE  ReserveKept'
<1>1. IsFiniteSet(Uploads) /\ MaxFiles \in Nat /\ Disk \in Nat /\ Reserve \in Nat
  BY DEF QuotaAssumption
<1>2. Free >= Reserve /\ size' = size
  BY DEF Accept, Within
<1>3. Free' = Free /\ Free = Disk - Total(size, Uploads) /\ Total(size, Uploads) \in Nat
  BY <1>1, <1>2, ChunksFinite DEF Free, QuotaTypeOK
<1>4. Cardinality(In({"writing"})') \in Nat /\ Cardinality(In({"writing"})') <= MaxFiles
  <2>1. In({"writing"})' \in SUBSET Inside' /\ Inside' \in SUBSET Uploads
    BY DEF In, Inside
  <2>2. Cardinality(Inside') + failed' <= MaxFiles /\ failed' \in Nat
    BY DEF ListExact, QuotaTypeOK
  <2> QED BY <2>1, <2>2, WritersBounded
<1> QED BY <1>1, <1>2, <1>3, <1>4 DEF ReserveKept

\* A chunk that is written was accepted.
LEMMA WriteReserve ==
    ASSUME QuotaAssumption, QuotaTypeOK, ReserveKept, NEW u \in Uploads, Write(u)
    PROVE  ReserveKept'
<1>1. IsFiniteSet(Uploads) /\ MaxFiles \in Nat /\ Disk \in Nat /\ Reserve \in Nat
  BY DEF QuotaAssumption
<1>2. /\ phase[u] = "writing" /\ phase' = [phase EXCEPT ![u] = "inside"]
      /\ size' = [size EXCEPT ![u] = @ + 1]
  BY DEF Write
<1>3. Total(size, Uploads) \in Nat /\ Total(size', Uploads) = Total(size, Uploads) + 1
  BY <1>1, <1>2, TotalGrows DEF QuotaTypeOK
<1>4. In({"writing"})' = In({"writing"}) \ {u} /\ u \in In({"writing"}) /\ In({"writing"}) \in SUBSET Uploads
  BY <1>2 DEF In, QuotaTypeOK
<1>5. Cardinality(In({"writing"})') = Cardinality(In({"writing"})) - 1 /\ Cardinality(In({"writing"})) \in Nat
  BY <1>1, <1>4, Smaller, FS_RemoveElement
<1>6. Free = Disk - Total(size, Uploads) /\ Free' = Disk - Total(size', Uploads)
  BY DEF Free
<1>7. Reserve <= Disk
  BY <1>1, <1>4 DEF ReserveKept
<1> QED BY <1>1, <1>3, <1>5, <1>6, <1>7 DEF ReserveKept

LEMMA ReserveStep ==
    ASSUME QuotaAssumption, QuotaTypeOK, ListExact, ReserveKept,
           [QuotaNext]_quotaVars
    PROVE  ReserveKept'
<1>1. QuotaTypeOK' /\ ListExact'
  BY QuotaTypeStep, ListStep
<1>2. ASSUME NEW u \in Uploads, Accept(u) PROVE ReserveKept'
  BY <1>1, <1>2, AcceptReserve
<1>3. ASSUME NEW u \in Uploads, Write(u) PROVE ReserveKept'
  BY <1>3, WriteReserve
<1>4. ASSUME NEW u \in Uploads,
             Admit(u) \/ Refuse(u) \/ Reject(u) \/ WriteFails(u) \/ Stored(u)
             \/ Record(u) \/ InspectFails(u) \/ Remove(u)
      PROVE  ReserveKept'
  <2>1. size' = size \/ size' = [size EXCEPT ![u] = 0]
    BY <1>4 DEF Admit, Refuse, Reject, WriteFails, Stored, Record, InspectFails, Remove
  <2>2. \A v \in Uploads : size'[v] <= size[v]
    <3> TAKE v \in Uploads
    <3>1. size[v] \in Nat /\ (size'[v] = size[v] \/ size'[v] = 0)
      BY <2>1 DEF QuotaTypeOK
    <3> QED BY <3>1
  <2>3. \E p \in {"inside", "new", "orphan", "stored", "staged"} : phase' = [phase EXCEPT ![u] = p]
    BY <1>4 DEF Admit, Refuse, Reject, WriteFails, Stored, Record, InspectFails, Remove
  <2>4. In({"writing"})' \subseteq In({"writing"})
    BY <2>3 DEF In, QuotaTypeOK
  <2> QED BY <1>1, <2>2, <2>4, ReserveShrinks
<1>5. ASSUME NEW u \in Uploads, NEW gone \in SUBSET Uploads, NEW unseen \in SUBSET Uploads, Ask(u, gone, unseen)
      PROVE  ReserveKept'
  <2>1. \A v \in Uploads : size'[v] <= size[v]
    BY <1>5 DEF QuotaTypeOK, Ask, Told
  <2>2. In({"writing"})' \subseteq In({"writing"})
    BY <1>5 DEF In, Ask, Told
  <2> QED BY <1>1, <2>1, <2>2, ReserveShrinks
<1>6. CASE Restart
  <2>1. size' = size /\ In({"writing"})' = {}
    BY <1>6 DEF Restart, In
  <2>2. \A v \in Uploads : size'[v] <= size[v]
    BY <2>1 DEF QuotaTypeOK
  <2> QED BY <1>1, <2>1, <2>2, ReserveShrinks
<1>7. CASE UNCHANGED quotaVars
  BY <1>7 DEF quotaVars, ReserveKept, Free, In, Total, Chunks
<1> QED BY <1>2, <1>3, <1>4, <1>5, <1>6, <1>7 DEF QuotaNext

\* What holds of the quota in every state.
QuotaInv == QuotaTypeOK /\ CountsBounded(Calls, Claims) /\ ListExact /\ ReserveKept

LEMMA QuotaStarts == ASSUME QuotaAssumption, QuotaInit PROVE QuotaInv
<1>1. QuotaTypeOK
  BY DEF QuotaTypeOK, QuotaInit, Phases, Nothing
<1>2. Chunks(size, Uploads) = {}
  BY DEF QuotaInit, Chunks
<1>3. Total(size, Uploads) = 0 /\ Cardinality({}) = 0
  BY <1>2, FS_EmptySet DEF Total
<1>4. In({"writing"}) = {}
  BY DEF QuotaInit, In
<1>5. Free = Disk
  BY <1>3 DEF Free, QuotaAssumption
<1>6. ReserveKept
  BY <1>3, <1>4, <1>5 DEF ReserveKept, QuotaAssumption
<1> QED BY <1>1, <1>6, CountsStart DEF QuotaInv

LEMMA QuotaInvariance == QuotaSpec => []QuotaInv
<1>1. QuotaInit => QuotaInv
  BY QuotaAssumption, QuotaStarts
<1>2. QuotaInv /\ [QuotaNext]_quotaVars => QuotaInv'
  <2> SUFFICES ASSUME QuotaInv, [QuotaNext]_quotaVars PROVE QuotaInv'
    OBVIOUS
  <2>1. QuotaTypeOK'
    BY QuotaAssumption, QuotaTypeStep DEF QuotaInv
  <2>2. CountsBounded(Calls', Claims') /\ ListExact'
    BY QuotaAssumption, CountsStep, ListStep DEF QuotaInv
  <2>3. ReserveKept'
    BY QuotaAssumption, ReserveStep DEF QuotaInv
  <2> QED BY <2>1, <2>2, <2>3 DEF QuotaInv
<1> QED BY <1>1, <1>2, PTL DEF QuotaSpec

\* The list, the bytes and the phases of uploads keep their types.
THEOREM QuotaTypeCorrect == QuotaSpec => []QuotaTypeOK
<1>1. QuotaInv => QuotaTypeOK
  BY DEF QuotaInv
<1> QED BY <1>1, QuotaInvariance, PTL

\* StagingQuota.accept: uploads that are stored together overrun the reserve of
\* free space by no more than a chunk for each of them.
THEOREM ReserveAlwaysKept == QuotaSpec => []ReserveKept
<1>1. QuotaInv => ReserveKept
  BY DEF QuotaInv
<1> QED BY <1>1, QuotaInvariance, PTL

\* StagingQuota.admit: a token passes its ceiling of files by fewer than the calls
\* that run together, those files apart that some call was not told of, and no
\* place in its list is lost but by a removal that found no equal entry.
THEOREM OvershootAlwaysBounded == QuotaSpec => []OvershootBounded
<1>1. QuotaInv => OvershootBounded
  <2> SUFFICES ASSUME QuotaInv PROVE OvershootBounded
    OBVIOUS
  <2>1. Counted \ missed \subseteq Claims
    BY DEF Claims
  <2>2. CountsBounded(Calls, Counted \ missed)
    BY <2>1, AllUploads, Loses, QuotaAssumption DEF QuotaInv
  <2> QED BY <2>2 DEF CountsBounded, ListExact, OvershootBounded, QuotaInv
<1> QED BY <1>1, QuotaInvariance, PTL
=============================================================================
