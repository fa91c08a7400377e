--------------------------- MODULE MetadataProofs ---------------------------
(***************************************************************************)
(* What auto-match jobs and the provider's limit promise, for any number   *)
(* of jobs, series, administrators and restarts: the jobs implement        *)
(* AutoMatch, local edits and links survive, the window keeps its limit.   *)
(***************************************************************************)
EXTENDS Metadata, FiniteSetTheorems, SequenceTheorems, TLAPS

\* One job runs at a time.  Only it has items left, and a job not yet created has none at all.
JobsOK ==
    /\ \A j, k \in Jobs : status[j] = "running" /\ status[k] = "running" => j = k
    /\ \A j \in Jobs : status[j] # "running" => Pending(j) = {}
    /\ \A j \in Jobs : status[j] = "none" => \A s \in Series : item[j][s] = "none"

\* A job's counters count its items, each of them once.
TalliesOK ==
    \A j \in Jobs, r \in Results :
        tally[j][r] = Cardinality({s \in Series : item[j][s] = r})

\* A task that runs a job holds all that the job has left, from the moment it
\* loaded it: what is pending is in its queue, or is the series it works on.
TaskOK ==
    /\ task.kind = "none" => task = NoTask
    /\ task.kind = "lookup" => task.pc \in {"next", "search"}
    /\ task.kind = "match" =>
          /\ task.job \in Jobs /\ status[task.job] # "none"
          /\ task.pc \in {"load", "next", "end"} <=> task.series = None
          /\ task.pc # "load" => Pending(task.job) \subseteq task.queue \cup {task.series}
          /\ task.pc = "finish" => task.result \in Results
          /\ task.pc \in MatchStates => task.choice \in Providers

\* Nobody starts a job that was not created.
ParkedOK == parked # None => status[parked] # "none"

EditOK(e) ==
    /\ edit[e].pc = "create" => edit[e].todo # {}
    /\ edit[e].pc = "start" => edit[e].job \in Jobs /\ status[edit[e].job] # "none"
    /\ edit[e].pc \in {"read", "write"} \cup MatchStates => edit[e].series \in Series
    /\ edit[e].pc \in MatchStates => edit[e].choice \in Providers

EditsOK == \A e \in Editors : EditOK(e)

\* The job looked at the series before it searched: a link that is there now
\* was made since, and the task knows.
RacedOK ==
    task.kind = "match" /\ task.pc \in {"search", "fetch", "refetch", "save"}
        /\ meta[task.series] # None => task.raced

\* Nobody goes by a limit that was not configured since the last reservation.
LimitsOK ==
    /\ limit <= most
    /\ \A w \in Callers : \A n \in allowed[w] : n <= most

\* The inductive invariant.
IInv ==
    /\ TypeOK
    /\ JobsOK
    /\ TalliesOK
    /\ TaskOK
    /\ ParkedOK
    /\ EditsOK
    /\ RacedOK
    /\ LimitsOK
    /\ sent = reserved

-----------------------------------------------------------------------------
(***************************************************************************)
(* The window.                                                             *)
(***************************************************************************)
\* A set of numbers has a least one.
LEMMA LeastNumber ==
    ASSUME NEW T \in SUBSET Nat, T # {}
    PROVE  \E n \in T : \A m \in T : n <= m
<1> DEFINE R == {ss \in Nat \X Nat : ss[1] < ss[2]}
<1>1. IsWellFoundedOn(R, Nat)
  BY NatLessThanWellFounded DEF OpToRel
<1>2. PICK n \in T : \A m \in T : ~ <<m, n>> \in R
  <2> HIDE DEF R
  <2> QED BY <1>1, WFMin
<1>3. ASSUME NEW m \in T, ~ (n <= m) PROVE FALSE
  <2>1. m \in Nat /\ n \in Nat /\ m < n
    BY <1>3
  <2>2. <<m, n>> \in R
    BY <2>1
  <2> QED BY <1>2, <2>2
<1> QED BY <1>3

\* A function on 1..n is a sequence of length n.
LEMMA RowsAreSequence ==
    ASSUME NEW S, NEW n \in Nat, NEW f \in [1..n -> S]
    PROVE  f \in Seq(S) /\ Len(f) = n
<1>1. f \in Seq(S)
  BY SeqDef
<1> QED BY <1>1, LenProperties

\* Some first rows leave the window and the others stay in it.
LEMMA ExpiredExists ==
    ASSUME NEW q \in Seq(0..Window - 1)
    PROVE  /\ Expired(q) \in 0..Len(q)
           /\ \A i \in Expired(q) + 1..Len(q) : q[i] + 1 < Window
<1> DEFINE Young(n) == \A i \in n + 1..Len(q) : q[i] + 1 < Window
           S == {n \in 0..Len(q) : Young(n)}
<1>1. Len(q) \in S /\ S \in SUBSET Nat
  OBVIOUS
<1>2. PICK n \in S : \A m \in S : n <= m
  <2> HIDE DEF S
  <2> QED BY <1>1, LeastNumber
<1>3. ASSUME n > 0 PROVE q[n] + 1 = Window
  <2>1. n \in 1..Len(q) /\ n - 1 \in 0..Len(q)
    BY <1>3
  <2>2. ~ Young(n - 1)
    <3> SUFFICES ASSUME Young(n - 1) PROVE FALSE
      OBVIOUS
    <3>1. n - 1 \in S
      BY <2>1
    <3>2. n <= n - 1
      <4> HIDE DEF S
      <4> QED BY <1>2, <3>1
    <3> QED BY <2>1, <3>2
  <2>3. PICK i \in n..Len(q) : ~ (q[i] + 1 < Window)
    BY <2>1, <2>2
  <2>4. i = n
    BY <2>1, <2>3
  <2>5. q[n] \in 0..Window - 1
    BY <2>1, ElementOfSeq
  <2> QED BY <2>3, <2>4, <2>5, MetadataAssumption
<1> QED BY <1>2, <1>3 DEF Expired

LEMMA OlderType ==
    ASSUME NEW q \in Seq(0..Window - 1)
    PROVE  Older(q) \in Seq(0..Window - 1) /\ Len(Older(q)) <= Len(q)
<1> DEFINE n == Len(q) - Expired(q)
<1>1. Expired(q) \in 0..Len(q) /\ \A i \in Expired(q) + 1..Len(q) : q[i] + 1 < Window
  BY ExpiredExists
<1>2. ASSUME NEW i \in 1..n PROVE q[Expired(q) + i] + 1 \in 0..Window - 1
  <2>1. Expired(q) + i \in Expired(q) + 1..Len(q) /\ Expired(q) + i \in 1..Len(q)
    BY <1>1
  <2>2. q[Expired(q) + i] \in 0..Window - 1
    BY <2>1, ElementOfSeq
  <2>3. q[Expired(q) + i] + 1 < Window
    BY <1>1, <2>1
  <2>4. Window \in Nat
    BY MetadataAssumption
  <2> QED BY <2>2, <2>3, <2>4
<1>3. n \in Nat /\ n <= Len(q)
  BY <1>1
<1> DEFINE f == [i \in 1..n |-> q[Expired(q) + i] + 1]
<1>4. f \in [1..n -> 0..Window - 1]
  BY <1>2
<1>5. f \in Seq(0..Window - 1) /\ Len(f) = n
  <2> HIDE DEF f, n
  <2> QED BY <1>3, <1>4, RowsAreSequence
<1>6. Older(q) = f
  BY DEF Older
<1> QED BY <1>3, <1>5, <1>6

-----------------------------------------------------------------------------
(***************************************************************************)
(* What becomes of the jobs in a step: nothing, or one of three things.    *)
(***************************************************************************)
Created(j, ss) ==
    /\ \A k \in Jobs : status[k] # "running"
    /\ status[j] = "none"
    /\ ss \in (SUBSET Series) \ {{}}
    /\ status' = [status EXCEPT ![j] = "running"]
    /\ item' = [item EXCEPT ![j] = [s \in Series |-> IF s \in ss THEN "pending" ELSE "none"]]
    /\ tally' = tally

Settled(j, s, r) ==
    /\ item[j][s] = "pending"
    /\ item' = [item EXCEPT ![j][s] = r]
    /\ tally' = [tally EXCEPT ![j][r] = @ + 1]
    /\ status' = status

Completed(j) ==
    /\ status[j] # "none" /\ Pending(j) = {}
    /\ status' = [status EXCEPT ![j] = "complete"]
    /\ item' = item /\ tally' = tally

JobsChange ==
    \/ UNCHANGED jobs
    \/ \E j \in Jobs, ss \in SUBSET Series : Created(j, ss)
    \/ \E j \in Jobs, s \in Series, r \in Results : Settled(j, s, r)
    \/ \E j \in Jobs : Completed(j)

LEMMA EveryJobsChange == ASSUME IInv, Next PROVE JobsChange
<1> USE DEF IInv, JobsChange, jobs
<1>1. CASE TaskNext
  <2>1. CASE LookupSearch \/ LookupEnd \/ Load \/ CheckExisting \/ SearchFails
             \/ FetchFails \/ TaskEnds
    BY <2>1 DEF LookupSearch, LookupEnd, Load, CheckExisting, SearchFails, FetchFails, TaskEnds
  <2>2. CASE TaskMatch
    BY <2>2 DEF TaskMatch
  <2>3. CASE Finish
    <3>1. task.job \in Jobs /\ task.series \in Series /\ task.result \in Results
      BY <2>3 DEF Finish, Matching, TaskOK, TypeOK, Tasks
    <3>2. FinishItem(task.job, task.series, task.result) /\ status' = status
      BY <2>3 DEF Finish
    <3>3. \/ UNCHANGED jobs
          \/ Settled(task.job, task.series, task.result)
      BY <3>2 DEF FinishItem, Settled
    <3> QED BY <3>1, <3>3
  <2>4. CASE Complete
    <3>1. task.job \in Jobs /\ status[task.job] # "none" /\ task.series = None
      BY <2>4 DEF Complete, Matching, TaskOK
    <3>2. Pending(task.job) \subseteq {None}
      BY <2>4, <3>1 DEF Complete, Matching, TaskOK
    <3>3. Pending(task.job) = {}
      BY <3>2, MetadataAssumption DEF Pending
    <3>4. Completed(task.job)
      BY <2>4, <3>1, <3>3 DEF Complete, Completed
    <3> QED BY <3>1, <3>4
  <2>5. ASSUME NEW s \in Series, LookupNext(s) \/ MatchNext(s) PROVE JobsChange
    BY <2>5 DEF LookupNext, MatchNext
  <2>6. ASSUME NEW found \in Answers, Search(found) PROVE JobsChange
    BY <2>6 DEF Search
  <2> QED BY <1>1, <2>1, <2>2, <2>3, <2>4, <2>5, <2>6 DEF TaskNext
<1>2. CASE EditNext
  <2>1. ASSUME NEW e \in Editors,
               \/ \E s \in present : AskLookup(e, s) \/ AskRefresh(e, s) \/ AskUpdate(e, s)
                                     \/ \E p \in Providers : AskMatch(e, s, p)
               \/ AskAuto(e)
               \/ \E j \in Jobs : ViewPage(e, j)
        PROVE JobsChange
    BY <2>1 DEF AskLookup, AskRefresh, AskUpdate, AskMatch, Ask, AskAuto, ViewPage
  <2>2. ASSUME NEW e \in Editors,
               \/ EditLookup(e) \/ ReadRow(e) \/ EditMatch(e) \/ EditFetchFails(e)
               \/ \E b \in BOOLEAN : WriteEdits(e, b)
               \/ List(e) \/ Start(e)
        PROVE JobsChange
    BY <2>2 DEF EditLookup, ReadRow, EditMatch, EditFetchFails, WriteEdits, List, Start
  <2>3. ASSUME NEW e \in Editors, Create(e) PROVE JobsChange
    <3>1. CASE \E k \in Jobs : status[k] = "running"
      BY <2>3, <3>1 DEF Create
    <3>2. CASE \A k \in Jobs : status[k] # "running"
      <4> DEFINE j == CHOOSE k \in Unused : TRUE
      <4>1. j \in Jobs /\ status[j] = "none"
        BY <2>3 DEF Create, Unused
      <4>2. edit[e].todo \in (SUBSET Series) \ {{}}
        <5>1. edit[e] \in Edits
          BY DEF TypeOK
        <5>2. edit[e].todo \in SUBSET Series
          BY <5>1 DEF Edits
        <5>3. edit[e].pc = "create"
          BY <2>3 DEF Create
        <5>4. edit[e].todo # {}
          BY <5>3 DEF EditsOK, EditOK
        <5> QED BY <5>2, <5>4
      <4>3. Created(j, edit[e].todo)
        BY <2>3, <3>2, <4>1, <4>2 DEF Create, Created
      <4> QED BY <4>1, <4>2, <4>3
    <3> QED BY <3>1, <3>2
  <2>4. CASE \/ \E s \in Series : Unlink(s)
             \/ \E ss \in SUBSET Series : StartLookup(ss)
             \/ \E n \in 1..MaxLimit : SetLimit(n)
    BY <2>4 DEF Unlink, StartLookup, SetLimit
  <2> QED BY <1>2, <2>1, <2>2, <2>3, <2>4 DEF EditNext
<1>3. CASE Tick \/ Restart \/ \E s \in Series : Vanish(s)
  BY <1>3 DEF Tick, Restart, Vanish
<1> QED BY <1>1, <1>2, <1>3 DEF Next

\* A job that was created stays so, and what it has left only shrinks.
LEMMA JobsOnward ==
    ASSUME TypeOK, JobsChange, NEW j \in Jobs, status[j] # "none"
    PROVE  status'[j] # "none" /\ Pending(j)' \subseteq Pending(j)
<1> USE DEF TypeOK, Pending
<1>1. CASE UNCHANGED jobs
  BY <1>1 DEF jobs
<1>2. ASSUME NEW k \in Jobs, NEW ss \in SUBSET Series, Created(k, ss)
      PROVE  status'[j] # "none" /\ Pending(j)' \subseteq Pending(j)
  BY <1>2 DEF Created
<1>3. ASSUME NEW k \in Jobs, NEW s \in Series, NEW r \in Results, Settled(k, s, r)
      PROVE  status'[j] # "none" /\ Pending(j)' \subseteq Pending(j)
  <2>1. r # "pending"
    BY DEF Results
  <2> QED BY <1>3, <2>1 DEF Settled
<1>4. ASSUME NEW k \in Jobs, Completed(k)
      PROVE  status'[j] # "none" /\ Pending(j)' \subseteq Pending(j)
  BY <1>4 DEF Completed
<1> QED BY <1>1, <1>2, <1>3, <1>4 DEF JobsChange
LEMMA JobsOKStep == ASSUME TypeOK, JobsOK, JobsChange PROVE JobsOK'
<1> USE DEF TypeOK, JobsOK, Pending
<1>1. CASE UNCHANGED jobs
  BY <1>1 DEF jobs
<1>2. ASSUME NEW j \in Jobs, NEW ss \in SUBSET Series, Created(j, ss) PROVE JobsOK'
  BY <1>2 DEF Created
<1>3. ASSUME NEW j \in Jobs, NEW s \in Series, NEW r \in Results, Settled(j, s, r)
      PROVE  JobsOK'
  <2>1. r # "pending"
    BY DEF Results
  <2>2. status[j] = "running"
    BY <1>3 DEF Settled
  <2>3. \A k \in Jobs : Pending(k)' \subseteq Pending(k)
    BY <1>3, <2>1 DEF Settled
  <2>4. \A k \in Jobs \ {j} : item'[k] = item[k]
    BY <1>3 DEF Settled
  <2>5. status' = status
    BY <1>3 DEF Settled
  <2>6. \A k \in Jobs : status'[k] # "running" => Pending(k)' = {}
    <3> HIDE DEF Pending
    <3> QED BY <2>3, <2>5
  <2>7. ASSUME NEW k \in Jobs, status'[k] = "none", NEW t \in Series PROVE item'[k][t] = "none"
    <3>1. k # j
      BY <2>2, <2>5, <2>7
    <3>2. item'[k] = item[k] /\ status[k] = "none"
      BY <2>4, <2>5, <2>7, <3>1
    <3> QED BY <3>2
  <2> QED BY <2>5, <2>6, <2>7
<1>4. ASSUME NEW j \in Jobs, Completed(j) PROVE JobsOK'
  BY <1>4 DEF Completed
<1> QED BY <1>1, <1>2, <1>3, <1>4 DEF JobsChange

\* Settling one item adds it to one count, and takes it from none.
LEMMA TalliesStep == ASSUME TypeOK, JobsOK, TalliesOK, JobsChange PROVE TalliesOK'
<1> DEFINE Of(j, r) == {s \in Series : item[j][s] = r}
<1>0. ASSUME NEW j \in Jobs, NEW r \in Results
      PROVE  /\ IsFiniteSet(Of(j, r))
             /\ tally[j][r] = Cardinality(Of(j, r))
  BY FS_Subset, MetadataAssumption DEF TalliesOK
<1>1. CASE UNCHANGED jobs
  BY <1>1 DEF jobs, TalliesOK
<1>2. ASSUME NEW j \in Jobs, NEW ss \in SUBSET Series, Created(j, ss) PROVE TalliesOK'
  <2>1. ASSUME NEW k \in Jobs, NEW r \in Results PROVE Of(k, r)' = Of(k, r)
    <3>1. r \notin {"none", "pending"}
      BY DEF Results
    <3> QED BY <1>2, <3>1 DEF Created, TypeOK, JobsOK
  <2> QED BY <1>0, <1>2, <2>1 DEF Created, TalliesOK
<1>3. ASSUME NEW j \in Jobs, NEW s \in Series, NEW r \in Results, Settled(j, s, r)
      PROVE  TalliesOK'
  <2>1. r # "pending"
    BY DEF Results
  <2>2. Of(j, r)' = Of(j, r) \cup {s} /\ s \notin Of(j, r)
    BY <1>3, <2>1 DEF Settled, TypeOK
  <2>3. Cardinality(Of(j, r)') = Cardinality(Of(j, r)) + 1
    <3> HIDE DEF Of
    <3> QED BY <1>0, <2>2, FS_AddElement
  <2>4. ASSUME NEW k \in Jobs, NEW q \in Results, k # j \/ q # r
        PROVE  Of(k, q)' = Of(k, q) /\ tally'[k][q] = tally[k][q]
    <3>1. q # "pending"
      BY DEF Results
    <3> QED BY <1>3, <2>4, <3>1 DEF Settled, TypeOK
  <2>5. tally'[j][r] = tally[j][r] + 1
    BY <1>3 DEF Settled, TypeOK
  <2>6. ASSUME NEW k \in Jobs, NEW q \in Results
        PROVE  tally'[k][q] = Cardinality(Of(k, q)')
    <3>1. CASE k = j /\ q = r
      BY <1>0, <2>3, <2>5, <3>1
    <3>2. CASE k # j \/ q # r
      BY <1>0, <2>4, <3>2
    <3> QED BY <3>1, <3>2
  <2> QED BY <2>6 DEF TalliesOK
<1>4. ASSUME NEW j \in Jobs, Completed(j) PROVE TalliesOK'
  BY <1>4 DEF Completed, TalliesOK
<1> QED BY <1>1, <1>2, <1>3, <1>4 DEF JobsChange

\* The jobs keep their shape, as what is counted is no more than the series there are.
LEMMA JobsType ==
    ASSUME TypeOK, JobsChange, TalliesOK'
    PROVE  /\ status' \in [Jobs -> {"none", "running", "complete"}]
           /\ item' \in [Jobs -> [Series -> {"none", "pending"} \cup Results]]
           /\ tally' \in [Jobs -> [Results -> 0..Cardinality(Series)]]
<1> USE DEF TypeOK
<1>1. ASSUME NEW j \in Jobs, NEW r \in Results
      PROVE  Cardinality({s \in Series : item'[j][s] = r}) \in 0..Cardinality(Series)
  <2> DEFINE T == {s \in Series : item'[j][s] = r}
  <2>1. T \in SUBSET Series
    OBVIOUS
  <2>2. IsFiniteSet(T) /\ Cardinality(T) <= Cardinality(Series)
    <3> HIDE DEF T
    <3> QED BY <2>1, FS_Subset, MetadataAssumption
  <2>3. Cardinality(T) \in Nat /\ Cardinality(Series) \in Nat
    <3> HIDE DEF T
    <3> QED BY <2>2, FS_CardinalityType, MetadataAssumption
  <2> HIDE DEF T
  <2>4. Cardinality(T) \in 0..Cardinality(Series)
    BY <2>2, <2>3
  <2> QED BY <2>4 DEF T
<1>2. ASSUME NEW j \in Jobs, NEW r \in Results
      PROVE  tally'[j][r] \in 0..Cardinality(Series)
  BY <1>1 DEF TalliesOK
<1>3. CASE UNCHANGED jobs
  BY <1>3 DEF jobs
<1>4. ASSUME NEW j \in Jobs, NEW ss \in SUBSET Series, Created(j, ss)
      PROVE  /\ status' \in [Jobs -> {"none", "running", "complete"}]
             /\ item' \in [Jobs -> [Series -> {"none", "pending"} \cup Results]]
             /\ tally' = tally
  BY <1>4 DEF Created
<1>5. ASSUME NEW j \in Jobs, NEW s \in Series, NEW r \in Results, Settled(j, s, r)
      PROVE  /\ status' = status
             /\ item' \in [Jobs -> [Series -> {"none", "pending"} \cup Results]]
             /\ tally' \in [Jobs -> [Results -> 0..Cardinality(Series)]]
  <2>1. /\ status' = status
        /\ item' \in [Jobs -> [Series -> {"none", "pending"} \cup Results]]
    BY <1>5 DEF Settled
  <2>2. tally' = [k \in Jobs |-> [q \in Results |-> tally'[k][q]]]
    BY <1>5 DEF Settled
  <2> QED BY <1>2, <2>1, <2>2
<1>6. ASSUME NEW j \in Jobs, Completed(j)
      PROVE  /\ status' \in [Jobs -> {"none", "running", "complete"}]
             /\ item' = item /\ tally' = tally
  BY <1>6 DEF Completed
<1> QED BY <1>3, <1>4, <1>5, <1>6 DEF JobsChange
-----------------------------------------------------------------------------
(***************************************************************************)
(* What becomes of the window and of the links in a step.                  *)
(***************************************************************************)
SameRows == UNCHANGED <<reserved, sent>>

WindowChange ==
    \/ UNCHANGED <<provider, limit>>
    \/ limit' = limit /\ \E w \in Callers : Acquire(w)
    \/ /\ reserved' = Older(reserved) /\ sent' = Older(sent)
       /\ UNCHANGED <<limit, allowed, most>>
    \/ /\ SameRows /\ UNCHANGED <<limit, most>>
       /\ \E w \in Callers : allowed' = [allowed EXCEPT ![w] = {limit}]
    \/ SameRows /\ limit' = limit /\ allowed' = ReadAnew /\ most' = limit
    \/ /\ SameRows /\ limit' \in 1..MaxLimit
       /\ allowed' = [w \in Callers |-> {limit'} \cup IF Calling(w) THEN allowed[w] ELSE {}]
       /\ most' = IF \E w \in Callers : Calling(w) /\ limit' < most THEN most ELSE limit'

\* A link is saved by the task or by a request, edited by a request, or taken
\* away by one.
TaskSaves ==
    /\ task.kind = "match" /\ task.pc = "save"
    /\ meta' = Saved(task.series, task.choice)
    /\ task' = [task EXCEPT !.pc = "cover"] /\ edit' = edit

EditSaves(e) ==
    /\ edit[e].pc = "save"
    /\ meta' = Saved(edit[e].series, edit[e].choice)
    /\ task' = IF task.kind = "match" /\ task.pc \in {"search", "fetch", "refetch", "save"}
                   /\ edit[e].series = task.series
               THEN [task EXCEPT !.raced = TRUE] ELSE task

EditWrites(e, b) ==
    /\ edit[e].pc = "write" /\ task' = task
    /\ meta' = IF meta[edit[e].series] = None THEN meta
               ELSE [meta EXCEPT ![edit[e].series].edited = b]

Unlinks(s) ==
    /\ requests' = requests + 1 /\ task' = task
    /\ meta' = [meta EXCEPT ![s] = None]

MetaChange ==
    \/ meta' = meta
    \/ TaskSaves
    \/ \E e \in Editors : EditSaves(e) \/ \E b \in BOOLEAN : EditWrites(e, b)
    \/ \E s \in Series : Unlinks(s)

Changes == WindowChange /\ MetaChange

LEMMA EveryChange == ASSUME IInv, Next PROVE Changes
<1> USE DEF Changes, WindowChange, SameRows, MetaChange, provider
<1>0. "task" \in Callers /\ \A e \in Editors : e \in Callers
  BY DEF Callers
<1>1. CASE TaskNext
  <2>1. CASE LookupSearch \/ LookupEnd \/ Load \/ CheckExisting \/ SearchFails
             \/ FetchFails \/ TaskEnds \/ Finish \/ Complete
    BY <1>0, <2>1 DEF LookupSearch, LookupEnd, Load, CheckExisting, SearchFails, FetchFails,
                TaskEnds, Finish, Complete, Matching, TaskStep
  <2>2. CASE TaskMatch
    <3> DEFINE end == [task EXCEPT !.pc = "finish", !.result = "linked"]
    <3>1. PICK r \in Matched(task, end) : Match("task", task, r, end) /\ task' = r
      BY <2>2 DEF TaskMatch
    <3>2. edit' = edit /\ task.kind = "match" /\ limit' = limit
      BY <2>2 DEF TaskMatch, Matching, TaskStep
    <3> HIDE DEF end
    <3>3. CASE MatchSave(task, r)
      BY <3>1, <3>2, <3>3 DEF MatchSave, TaskSaves
    <3>4. CASE \/ MatchFetch("task", task, r) \/ MatchRefetch("task", task, r)
               \/ MatchCover("task", task, r, end)
      BY <1>0, <3>2, <3>4 DEF MatchFetch, MatchRefetch, MatchCover
    <3> QED BY <3>1, <3>3, <3>4 DEF Match
  <2>3. ASSUME NEW s \in Series, LookupNext(s) \/ MatchNext(s) PROVE Changes
    BY <2>3 DEF LookupNext, MatchNext, Matching, TaskStep
  <2>4. ASSUME NEW found \in Answers, Search(found) PROVE Changes
    BY <1>0, <2>4 DEF Search, Matching, TaskStep
  <2> QED BY <1>1, <2>1, <2>2, <2>3, <2>4 DEF TaskNext
<1>2. CASE EditNext
  <2>1. ASSUME NEW e \in Editors,
               \/ \E s \in present : AskLookup(e, s) \/ AskRefresh(e, s) \/ AskUpdate(e, s)
                                     \/ \E p \in Providers : AskMatch(e, s, p)
               \/ AskAuto(e)
               \/ \E j \in Jobs : ViewPage(e, j)
        PROVE Changes
    BY <2>1 DEF AskLookup, AskRefresh, AskUpdate, AskMatch, Ask, AskAuto, ViewPage
  <2>2. ASSUME NEW e \in Editors,
               EditLookup(e) \/ ReadRow(e) \/ EditFetchFails(e) \/ List(e) \/ Create(e) \/ Start(e)
        PROVE Changes
    BY <1>0, <2>2 DEF EditLookup, ReadRow, EditFetchFails, List, Create, Start, EditStep
  <2>3. ASSUME NEW e \in Editors, NEW b \in BOOLEAN, WriteEdits(e, b) PROVE Changes
    BY <2>3 DEF WriteEdits, EditWrites, EditStep
  <2>4. ASSUME NEW e \in Editors, EditMatch(e) PROVE Changes
    <3>1. PICK r \in Matched(edit[e], NoEdit) : Match(e, edit[e], r, NoEdit)
      BY <2>4 DEF EditMatch
    <3>0. limit' = limit
      BY <2>4 DEF EditMatch, EditStep
    <3>2. CASE MatchSave(edit[e], r)
      BY <2>4, <3>0, <3>2 DEF MatchSave, EditMatch, EditSaves
    <3>3. CASE \/ MatchFetch(e, edit[e], r) \/ MatchRefetch(e, edit[e], r)
               \/ MatchCover(e, edit[e], r, NoEdit)
      BY <1>0, <3>0, <3>3 DEF MatchFetch, MatchRefetch, MatchCover
    <3> QED BY <3>1, <3>2, <3>3 DEF Match
  <2>5. ASSUME NEW s \in Series, Unlink(s) PROVE Changes
    BY <2>5 DEF Unlink, Unlinks
  <2>6. CASE (\E ss \in SUBSET Series : StartLookup(ss)) \/ (\E n \in 1..MaxLimit : SetLimit(n))
    BY <2>6 DEF StartLookup, SetLimit
  <2> QED BY <1>2, <2>1, <2>2, <2>3, <2>4, <2>5, <2>6 DEF EditNext
<1>3. CASE Tick \/ Restart \/ \E s \in Series : Vanish(s)
  BY <1>3 DEF Tick, Restart, Vanish
<1> QED BY <1>1, <1>2, <1>3 DEF Next

LEMMA WindowStep ==
    ASSUME IInv, WindowChange
    PROVE  /\ reserved' \in Seq(0..Window - 1)
           /\ sent' = reserved'
           /\ limit' \in 1..MaxLimit /\ most' \in 1..MaxLimit
           /\ allowed' \in [Callers -> SUBSET (1..MaxLimit)]
           /\ LimitsOK'
           /\ Len(sent') > Len(sent) => Len(sent') <= most
<1>0. /\ reserved \in Seq(0..Window - 1) /\ sent = reserved /\ LimitsOK
      /\ limit \in 1..MaxLimit /\ most \in 1..MaxLimit /\ MaxLimit \in Nat
      /\ allowed \in [Callers -> SUBSET (1..MaxLimit)]
      /\ Len(reserved) \in Nat
  BY MetadataAssumption DEF IInv, TypeOK
<1> USE DEF SameRows
<1>1. CASE UNCHANGED <<provider, limit>>
  BY <1>0, <1>1 DEF provider, LimitsOK
<1>2. ASSUME limit' = limit, NEW w \in Callers, Acquire(w)
      PROVE  /\ reserved' \in Seq(0..Window - 1) /\ sent' = reserved'
             /\ limit' \in 1..MaxLimit /\ most' \in 1..MaxLimit
             /\ allowed' \in [Callers -> SUBSET (1..MaxLimit)] /\ LimitsOK'
             /\ Len(sent') > Len(sent) => Len(sent') <= most
  <2>1. reserved' \in Seq(0..Window - 1) /\ sent' = reserved'
    BY <1>0, <1>2, MetadataAssumption DEF Acquire
  <2>2. PICK n \in allowed[w] : Len(reserved) < n
    BY <1>2 DEF Acquire, Live
  <2>3. n \in 1..MaxLimit /\ n <= most
    BY <1>0, <2>2 DEF LimitsOK
  <2>4. Len(sent') = Len(sent) + 1
    BY <1>0, <1>2 DEF Acquire
  <2>5. Len(sent') <= most
    BY <1>0, <2>2, <2>3, <2>4
  <2>6. allowed' \in [Callers -> SUBSET (1..MaxLimit)] /\ LimitsOK'
    BY <1>0, <1>2 DEF Acquire, ReadAnew, LimitsOK
  <2> QED BY <1>0, <1>2, <2>1, <2>5, <2>6 DEF Acquire
<1>3. CASE /\ reserved' = Older(reserved) /\ sent' = Older(sent)
           /\ UNCHANGED <<limit, allowed, most>>
  <2>1. Older(reserved) \in Seq(0..Window - 1) /\ Len(Older(reserved)) <= Len(reserved)
    BY <1>0, OlderType
  <2>2. Len(Older(reserved)) \in Nat
    BY <2>1, LenProperties
  <2>3. LimitsOK'
    BY <1>0, <1>3 DEF LimitsOK
  <2> QED BY <1>0, <1>3, <2>1, <2>2, <2>3
<1>4. ASSUME SameRows, UNCHANGED <<limit, most>>, NEW w \in Callers,
             allowed' = [allowed EXCEPT ![w] = {limit}]
      PROVE  allowed' \in [Callers -> SUBSET (1..MaxLimit)] /\ LimitsOK'
  BY <1>0, <1>4 DEF LimitsOK
<1>5. CASE SameRows /\ limit' = limit /\ allowed' = ReadAnew /\ most' = limit
  BY <1>0, <1>5 DEF ReadAnew, LimitsOK
<1>6. CASE /\ SameRows /\ limit' \in 1..MaxLimit
           /\ allowed' = [w \in Callers |-> {limit'} \cup IF Calling(w) THEN allowed[w] ELSE {}]
           /\ most' = IF \E w \in Callers : Calling(w) /\ limit' < most THEN most ELSE limit'
  <2>1. \A w \in Callers : allowed[w] \subseteq 1..MaxLimit /\ \A n \in allowed[w] : n <= most
    BY <1>0 DEF LimitsOK
  <2>2. allowed' \in [Callers -> SUBSET (1..MaxLimit)] /\ most' \in 1..MaxLimit
    BY <1>0, <1>6, <2>1
  <2>3. LimitsOK'
    <3>1. limit' <= most'
      BY <1>0, <1>6
    <3>2. ASSUME NEW w \in Callers, NEW n \in allowed'[w] PROVE n <= most'
      <4>1. n = limit' \/ (Calling(w) /\ n \in allowed[w])
        BY <1>6, <3>2
      <4>2. CASE n = limit'
        BY <3>1, <4>2
      <4>3. CASE Calling(w) /\ n \in allowed[w]
        BY <1>0, <1>6, <2>1, <4>3
      <4> QED BY <4>1, <4>2, <4>3
    <3> QED BY <3>1, <3>2 DEF LimitsOK
  <2> QED BY <1>0, <1>6, <2>2, <2>3
<1> QED BY <1>0, <1>1, <1>2, <1>3, <1>4, <1>5, <1>6 DEF WindowChange

\* Who changes a link knows its series.
LEMMA MetaType ==
    ASSUME IInv, MetaChange PROVE meta' \in [Series -> Row \cup {None}]
<1> USE DEF IInv
<1>0. meta \in [Series -> Row \cup {None}]
  BY DEF TypeOK
<1>1. ASSUME NEW s \in Series, NEW p \in Providers
      PROVE  Saved(s, p) \in [Series -> Row \cup {None}]
  <2>1. [provider |-> p, edited |-> meta[s] # None /\ meta[s].edited] \in Row
    BY <1>0 DEF Row
  <2> QED BY <1>0, <2>1 DEF Saved
<1>2. CASE TaskSaves
  <2>1. task.series \in Series /\ task.choice \in Providers
    BY <1>2 DEF TaskSaves, TaskOK, TypeOK, Tasks, MatchStates
  <2> QED BY <1>1, <1>2, <2>1 DEF TaskSaves
<1>3. ASSUME NEW e \in Editors, EditSaves(e) PROVE meta' \in [Series -> Row \cup {None}]
  <2>1. edit[e].series \in Series /\ edit[e].choice \in Providers
    BY <1>3 DEF EditSaves, EditsOK, EditOK, MatchStates
  <2> QED BY <1>1, <1>3, <2>1 DEF EditSaves
<1>4. ASSUME NEW e \in Editors, NEW b \in BOOLEAN, EditWrites(e, b)
      PROVE  meta' \in [Series -> Row \cup {None}]
  <2> DEFINE s == edit[e].series
  <2>1. s \in Series
    BY <1>4 DEF EditWrites, EditsOK, EditOK
  <2>2. CASE meta[s] = None
    BY <1>0, <1>4, <2>2 DEF EditWrites
  <2>3. CASE meta[s] # None
    <3>1. [meta[s] EXCEPT !.edited = b] \in Row
      BY <1>0, <2>1, <2>3 DEF Row
    <3>2. meta' = [meta EXCEPT ![s] = [meta[s] EXCEPT !.edited = b]]
      BY <1>0, <1>4, <2>3 DEF EditWrites
    <3> QED BY <1>0, <3>1, <3>2
  <2> QED BY <2>2, <2>3
<1>5. ASSUME NEW s \in Series, Unlinks(s) PROVE meta' \in [Series -> Row \cup {None}]
  BY <1>0, <1>5 DEF Unlinks
<1> QED BY <1>0, <1>2, <1>3, <1>4, <1>5 DEF MetaChange
-----------------------------------------------------------------------------
(***************************************************************************)
(* The requests and the task.                                              *)
(***************************************************************************)
EditsGood == edit \in [Editors -> Edits] /\ EditsOK

\* A record of a request that is well formed, whatever the jobs do.
GoodEdit(r) ==
    /\ r \in Edits
    /\ r.pc = "create" => r.todo # {}
    /\ r.pc = "start" => r.job \in Jobs /\ status'[r.job] # "none"
    /\ r.pc \in {"read", "write"} \cup MatchStates => r.series \in Series
    /\ r.pc \in MatchStates => r.choice \in Providers

LEMMA IdleIsGood == GoodEdit(NoEdit)
  BY DEF GoodEdit, NoEdit, Edits, MatchStates

\* A match moves on, possibly to another series of the provider, or it ends.
Moved(m, pc, p) == [m EXCEPT !.pc = pc, !.choice = p]

LEMMA MatchedCases ==
    ASSUME NEW m, NEW end, NEW r \in Matched(m, end)
    PROVE  \/ r = end
           \/ \E pc \in MatchStates, p \in Providers : r = Moved(m, pc, p)
<1>1. r \in {end} \cup UNION {{Moved(m, pc, p) : pc \in MatchStates} : p \in Providers}
  BY DEF Matched, Moved
<1> QED BY <1>1

LEMMA EditsBecome ==
    ASSUME IInv, JobsChange, NEW e \in Editors, NEW r, GoodEdit(r), Become(e, r)
    PROVE  EditsGood'
<1>1. edit' \in [Editors -> Edits]
  BY DEF IInv, TypeOK, Become, GoodEdit
<1>2. ASSUME NEW d \in Editors PROVE EditOK(d)'
  <2>1. CASE d = e
    <3>1. edit'[d] = r
      BY <2>1 DEF IInv, TypeOK, Become
    <3> QED BY <3>1 DEF GoodEdit, EditOK
  <2>2. CASE d # e
    <3>1. edit'[d] = edit[d] /\ EditOK(d)
      BY <2>2 DEF IInv, TypeOK, EditsOK, Become
    <3> QED BY <3>1, JobsOnward DEF IInv, EditOK
  <2> QED BY <2>1, <2>2
<1> QED BY <1>1, <1>2 DEF EditsGood, EditsOK

LEMMA EditsUntouched == ASSUME IInv, JobsChange, edit' = edit PROVE EditsGood'
<1>1. ASSUME NEW d \in Editors PROVE EditOK(d)'
  <2>1. edit'[d] = edit[d] /\ EditOK(d)
    BY DEF IInv, EditsOK
  <2> QED BY <2>1, JobsOnward DEF IInv, EditOK
<1> QED BY <1>1 DEF IInv, TypeOK, EditsGood, EditsOK

LEMMA EditsStep == ASSUME IInv, Next PROVE EditsGood'
<1>0. JobsChange
  BY EveryJobsChange
<1> USE <1>0
<1>1. CASE TaskNext \/ Tick \/ \E s \in Series : Vanish(s)
  <2>1. edit' = edit
    BY <1>1 DEF TaskNext, LookupSearch, LookupEnd, Load, CheckExisting, SearchFails, TaskMatch,
                FetchFails, Finish, Complete, TaskEnds, LookupNext, MatchNext, Search, Matching,
                TaskStep, Tick, Vanish
  <2> QED BY <2>1, EditsUntouched
<1>2. CASE EditNext
  <2>1. ASSUME NEW e \in Editors, NEW s \in present, NEW p \in Providers \cup {None},
               NEW op \in {"lookup", "match", "refresh", "update"},
               NEW pc \in {"search", "read", "fetch"},
               Ask(e, op, s, p, pc), pc = "fetch" => p \in Providers
        PROVE EditsGood'
    <3>1. s \in Series
      BY DEF IInv, TypeOK
    <3>2. GoodEdit([NoEdit EXCEPT !.pc = pc, !.op = op, !.series = s, !.choice = p])
      BY <2>1, <3>1 DEF GoodEdit, NoEdit, Edits, MatchStates
    <3> QED BY <2>1, <3>2, EditsBecome DEF Ask
  <2>2. ASSUME NEW e \in Editors, NEW s \in present,
               \/ AskLookup(e, s) \/ AskRefresh(e, s) \/ AskUpdate(e, s)
               \/ \E p \in Providers : AskMatch(e, s, p)
        PROVE EditsGood'
    <3>1. CASE Ask(e, "lookup", s, None, "search")
      BY <2>1, <3>1
    <3>2. CASE Ask(e, "refresh", s, None, "read")
      BY <2>1, <3>2
    <3>3. CASE Ask(e, "update", s, None, "read")
      BY <2>1, <3>3
    <3>4. ASSUME NEW p \in Providers, Ask(e, "match", s, p, "fetch") PROVE EditsGood'
      BY <2>1, <3>4
    <3> QED BY <2>2, <3>1, <3>2, <3>3, <3>4 DEF AskLookup, AskRefresh, AskUpdate, AskMatch
  <2>3. ASSUME NEW e \in Editors, AskAuto(e) PROVE EditsGood'
    <3>1. GoodEdit([NoEdit EXCEPT !.pc = "list", !.op = "auto"])
      BY DEF GoodEdit, NoEdit, Edits, MatchStates
    <3> QED BY <2>3, <3>1, EditsBecome DEF AskAuto
  <2>4. ASSUME NEW e \in Editors, NEW j \in Jobs, ViewPage(e, j) PROVE EditsGood'
    <3>1. status'[j] # "none"
      BY <2>4, JobsOnward DEF ViewPage, IInv
    <3>2. GoodEdit([NoEdit EXCEPT !.pc = "start", !.op = "page", !.job = j])
      BY <3>1 DEF GoodEdit, NoEdit, Edits, MatchStates
    <3> QED BY <2>4, <3>2, EditsBecome DEF ViewPage
  <2>5. ASSUME NEW e \in Editors,
               \/ EditLookup(e) \/ EditFetchFails(e) \/ Start(e)
               \/ \E b \in BOOLEAN : WriteEdits(e, b)
        PROVE EditsGood'
    BY <2>5, IdleIsGood, EditsBecome DEF EditLookup, EditFetchFails, Start, WriteEdits
  <2>6. ASSUME NEW e \in Editors, ReadRow(e) PROVE EditsGood'
    <3>1. edit[e] \in Edits /\ edit[e].series \in Series
      BY <2>6 DEF ReadRow, IInv, TypeOK, EditsOK, EditOK
    <3>2. meta[edit[e].series] # None => meta[edit[e].series].provider \in Providers
      BY <3>1 DEF IInv, TypeOK, Row
    <3>3. GoodEdit([edit[e] EXCEPT !.pc = "write"])
      BY <3>1 DEF GoodEdit, Edits, MatchStates
    <3>4. meta[edit[e].series] # None =>
             GoodEdit([edit[e] EXCEPT !.pc = "fetch", !.choice = meta[edit[e].series].provider])
      BY <3>1, <3>2 DEF GoodEdit, Edits, MatchStates
    <3> QED BY <2>6, <3>3, <3>4, IdleIsGood, EditsBecome DEF ReadRow
  <2>7. ASSUME NEW e \in Editors, EditMatch(e) PROVE EditsGood'
    <3>1. edit[e] \in Edits /\ edit[e].series \in Series
      BY <2>7 DEF EditMatch, IInv, TypeOK, EditsOK, EditOK
    <3>2. PICK r \in Matched(edit[e], NoEdit) : Become(e, r)
      BY <2>7 DEF EditMatch
    <3>3. GoodEdit(r)
      <4>1. CASE r = NoEdit
        BY <4>1, IdleIsGood
      <4>2. ASSUME NEW pc \in MatchStates, NEW p \in Providers,
                   r = Moved(edit[e], pc, p)
            PROVE GoodEdit(r)
        BY <3>1, <4>2 DEF Moved, GoodEdit, Edits, MatchStates
      <4> QED BY <3>2, <4>1, <4>2, MatchedCases
    <3> QED BY <3>2, <3>3, EditsBecome
  <2>8. ASSUME NEW e \in Editors, List(e) PROVE EditsGood'
    <3> DEFINE todo == {s \in present : meta[s] = None}
    <3>1. edit[e] \in Edits /\ todo \subseteq Series
      BY DEF IInv, TypeOK
    <3>2. todo # {} => GoodEdit([edit[e] EXCEPT !.pc = "create", !.todo = todo])
      BY <3>1 DEF GoodEdit, Edits, MatchStates
    <3> QED BY <2>8, <3>2, IdleIsGood, EditsBecome DEF List
  <2>9. ASSUME NEW e \in Editors, Create(e) PROVE EditsGood'
    <3>1. CASE \E k \in Jobs : status[k] = "running"
      BY <2>9, <3>1, IdleIsGood, EditsBecome DEF Create
    <3>2. CASE \A k \in Jobs : status[k] # "running"
      <4> DEFINE j == CHOOSE k \in Unused : TRUE
      <4>1. j \in Jobs
        BY <2>9 DEF Create, Unused
      <4>2. status' = [status EXCEPT ![j] = "running"]
             /\ Become(e, [edit[e] EXCEPT !.pc = "start", !.job = j, !.todo = {}])
        BY <2>9, <3>2 DEF Create
      <4>3. edit[e] \in Edits /\ status'[j] # "none"
        BY <4>1, <4>2 DEF IInv, TypeOK
      <4> HIDE DEF j
      <4>4. GoodEdit([edit[e] EXCEPT !.pc = "start", !.job = j, !.todo = {}])
        BY <4>1, <4>3 DEF GoodEdit, Edits, MatchStates
      <4> QED BY <4>2, <4>4, EditsBecome
    <3> QED BY <3>1, <3>2
  <2>10. CASE \/ \E s \in Series : Unlink(s)
              \/ \E ss \in SUBSET Series : StartLookup(ss)
              \/ \E n \in 1..MaxLimit : SetLimit(n)
    BY <2>10, EditsUntouched DEF Unlink, StartLookup, SetLimit
  <2> QED BY <1>2, <2>2, <2>3, <2>4, <2>5, <2>6, <2>7, <2>8, <2>9, <2>10 DEF EditNext
<1>3. CASE Restart
  <2>1. edit' = [e \in Editors |-> NoEdit]
    BY <1>3 DEF Restart
  <2>2. NoEdit \in Edits
    BY DEF NoEdit, Edits
  <2> QED BY <2>1, <2>2 DEF EditsGood, EditsOK, EditOK, NoEdit, MatchStates
<1> QED BY <1>1, <1>2, <1>3 DEF Next
TaskGood == task \in Tasks /\ TaskOK

LEMMA TaskKept ==
    ASSUME IInv, JobsChange, task' = task \/ (task.kind = "match" /\ task' = [task EXCEPT !.raced = TRUE])
    PROVE  TaskGood'
<1>1. /\ task' \in Tasks
      /\ task'.kind = task.kind /\ task'.pc = task.pc /\ task'.job = task.job
      /\ task'.queue = task.queue /\ task'.series = task.series
      /\ task'.choice = task.choice /\ task'.result = task.result
  BY DEF IInv, TypeOK, Tasks
<1>2. CASE task.kind = "match"
  <2>1. PICK j \in Jobs : j = task.job /\ status[j] # "none"
    BY <1>2 DEF IInv, TaskOK
  <2>2. status'[j] # "none" /\ Pending(j)' \subseteq Pending(j)
    BY <2>1, JobsOnward DEF IInv
  <2>3. Pending(task.job)' = Pending(j)' /\ Pending(task.job) = Pending(j)
    BY <1>1, <2>1 DEF Pending
  <2> QED BY <1>1, <1>2, <2>1, <2>2, <2>3 DEF IInv, TaskOK, TaskGood
<1>3. CASE task.kind = "lookup"
  BY <1>1, <1>3 DEF IInv, TaskOK, TaskGood
<1>4. CASE task.kind = "none"
  <2>1. task = NoTask
    BY <1>4 DEF IInv, TaskOK
  <2>2. task' = NoTask
    BY <1>4, <2>1
  <2> QED BY <2>2 DEF TaskOK, TaskGood, Tasks, NoTask
<1> QED BY <1>1, <1>2, <1>3, <1>4 DEF Tasks

LEMMA TaskStarts ==
    ASSUME NEW j \in Jobs, status'[j] # "none", task' = MatchTask(j)
    PROVE  TaskGood'
<1>1. task' = [kind |-> "match", pc |-> "load", job |-> j, queue |-> {}, series |-> None,
               choice |-> None, result |-> None, raced |-> FALSE]
  BY DEF MatchTask, NoTask
<1> QED BY <1>1 DEF TaskGood, TaskOK, Tasks, MatchStates

LEMMA TaskEnded == ASSUME task' = NoTask PROVE TaskGood'
  BY DEF TaskGood, TaskOK, Tasks, NoTask

\* Inside a job: the task goes on with the same job, and what it still holds.
LEMMA TaskMoves ==
    ASSUME NEW j \in Jobs, status'[j] # "none", task' \in Tasks,
           task'.kind = "match", task'.job = j,
           task'.pc \in {"load", "next", "end"} <=> task'.series = None,
           task'.pc # "load" => Pending(j)' \subseteq task'.queue \cup {task'.series},
           task'.pc = "finish" => task'.result \in Results,
           task'.pc \in MatchStates => task'.choice \in Providers
    PROVE  TaskGood'
<1>1. Pending(task.job)' = Pending(j)'
  BY DEF Pending
<1> QED BY <1>1 DEF TaskGood, TaskOK

LEMMA TaskStepGood == ASSUME IInv, Next PROVE TaskGood'
<1>0. JobsChange /\ task \in Tasks /\ TaskOK
  BY EveryJobsChange DEF IInv, TypeOK
<1>1. CASE TaskNext
  <2>0. CASE task.kind = "match"
    <3>0. PICK j \in Jobs : j = task.job /\ status[j] # "none"
      BY <1>0, <2>0 DEF TaskOK
    <3>1. status'[j] # "none" /\ Pending(j)' \subseteq Pending(j)
      BY <1>0, <3>0, JobsOnward DEF IInv
    <3>2. task.pc # "load" => Pending(j)' \subseteq task.queue \cup {task.series}
      <4>1. Pending(task.job) = Pending(j)
        BY <3>0 DEF Pending
      <4> QED BY <1>0, <2>0, <3>1, <4>1 DEF TaskOK
    <3>3. CASE Load
      BY <1>0, <2>0, <3>0, <3>1, <3>3, TaskMoves DEF Load, Tasks, TaskOK, MatchStates, Pending
    <3>4. ASSUME NEW s \in Series, MatchNext(s) PROVE TaskGood'
      <4>1. s # None /\ task.series = None
        BY <1>0, <2>0, <3>4, MetadataAssumption DEF MatchNext, TaskOK
      <4>2. Pending(j)' \subseteq task.queue
        BY <3>2, <3>4, <4>1, MetadataAssumption DEF MatchNext, Pending
      <4>3. Pending(j)' \subseteq (task.queue \ {s}) \cup {s}
        BY <4>2
      <4> HIDE DEF Pending
      <4>4. /\ task' \in Tasks /\ task'.kind = "match" /\ task'.job = j
            /\ task'.queue = task.queue \ {s} /\ task'.series = s
            /\ task'.pc = "check" \/ (task'.pc = "finish" /\ task'.result = "failed")
        <5>1. CASE s \in present
          <6>1. task' = [task EXCEPT !.queue = task.queue \ {s}, !.series = s,
                                     !.pc = "check", !.result = None]
            BY <3>4, <5>1 DEF MatchNext
          <6> QED BY <1>0, <2>0, <3>0, <6>1 DEF Tasks
        <5>2. CASE s \notin present
          BY <1>0, <2>0, <3>0, <3>4, <5>2 DEF MatchNext, Tasks, Results
        <5> QED BY <5>1, <5>2
      <4> QED BY <3>1, <4>1, <4>3, <4>4, TaskMoves DEF MatchStates, Results
    <3>5. CASE CheckExisting \/ SearchFails \/ FetchFails
      <4>0. \/ task' = [task EXCEPT !.pc = "search"]
            \/ \E r \in Results : task' = [task EXCEPT !.pc = "finish", !.result = r]
        BY <3>5 DEF CheckExisting, SearchFails, FetchFails, Results
      <4>1. /\ task' \in Tasks /\ task'.kind = "match" /\ task'.job = j
            /\ task'.queue = task.queue /\ task'.series = task.series
            /\ task'.pc = "search" \/ (task'.pc = "finish" /\ task'.result \in Results)
        <5>1. CASE task' = [task EXCEPT !.pc = "search"]
          BY <1>0, <2>0, <3>0, <5>1 DEF Tasks
        <5>2. ASSUME NEW r \in Results, task' = [task EXCEPT !.pc = "finish", !.result = r]
              PROVE  /\ task' \in Tasks /\ task'.kind = "match" /\ task'.job = j
                     /\ task'.queue = task.queue /\ task'.series = task.series
                     /\ task'.pc = "finish" /\ task'.result \in Results
          BY <1>0, <2>0, <3>0, <5>2 DEF Tasks
        <5> QED BY <4>0, <5>1, <5>2
      <4>2. task.series # None /\ task.pc # "load"
        BY <1>0, <2>0, <3>5 DEF CheckExisting, SearchFails, FetchFails, TaskOK
      <4> QED BY <1>0, <2>0, <3>1, <3>2, <4>1, <4>2, TaskMoves DEF MatchStates
    <3>6. ASSUME NEW found \in Answers, Search(found) PROVE TaskGood'
      <4>1. Choose(found) \in Providers \cup {None}
        <5>1. DOMAIN found \subseteq Providers
          BY DEF Answers
        <5> QED BY <5>1 DEF Choose
      <4>2. task.pc = "search"
        BY <3>6 DEF Search
      <4>3. /\ task' \in Tasks /\ task'.kind = "match" /\ task'.job = j
            /\ task'.queue = task.queue /\ task'.series = task.series
            /\ \/ task'.pc = "finish" /\ task'.result \in Results
               \/ task'.pc = "fetch" /\ task'.choice \in Providers
        <5>1. CASE Choose(found) = None
          BY <1>0, <2>0, <3>0, <3>6, <5>1 DEF Search, Tasks, Results
        <5>2. CASE Choose(found) # None
          BY <1>0, <2>0, <3>0, <3>6, <4>1, <5>2 DEF Search, Tasks, Results
        <5> QED BY <5>1, <5>2
      <4>4. task.series # None
        BY <1>0, <2>0, <4>2 DEF TaskOK
      <4> QED BY <1>0, <2>0, <3>1, <3>2, <4>2, <4>3, <4>4, TaskMoves DEF MatchStates
    <3>7. CASE TaskMatch
      <4> DEFINE end == [task EXCEPT !.pc = "finish", !.result = "linked"]
      <4>1. PICK r \in Matched(task, end) : task' = r
        BY <3>7 DEF TaskMatch
      <4>2. task.pc \in MatchStates /\ task.series # None
        BY <1>0, <2>0, <3>7 DEF TaskMatch, TaskOK, MatchStates
      <4>3. CASE r = end
        <5>1. /\ task' \in Tasks /\ task'.kind = "match" /\ task'.job = j
              /\ task'.queue = task.queue /\ task'.series = task.series
              /\ task'.pc = "finish" /\ task'.result \in Results
          BY <1>0, <2>0, <3>0, <4>1, <4>3 DEF Tasks, Results
        <5> QED BY <1>0, <2>0, <3>1, <3>2, <4>2, <5>1, TaskMoves DEF MatchStates
      <4>4. ASSUME NEW pc \in MatchStates, NEW p \in Providers, r = Moved(task, pc, p)
            PROVE  TaskGood'
        <5>1. /\ task' \in Tasks /\ task'.kind = "match" /\ task'.job = j
              /\ task'.queue = task.queue /\ task'.series = task.series
              /\ task'.pc = pc /\ task'.choice = p
          BY <1>0, <2>0, <3>0, <4>1, <4>4 DEF Moved, Tasks, MatchStates
        <5> QED BY <1>0, <2>0, <3>1, <3>2, <4>2, <5>1, TaskMoves DEF MatchStates
      <4> HIDE DEF end
      <4> QED BY <4>1, <4>3, <4>4, MatchedCases
    <3>8. CASE Finish
      <4>1. task.series \in Series /\ task.result \in Results
        BY <1>0, <2>0, <3>8 DEF Finish, TaskOK, Tasks
      <4>2. task.series \notin Pending(j)'
        <5>1. task.result # "pending"
          BY <4>1 DEF Results
        <5>2. item'[j][task.series] # "pending"
          BY <3>0, <3>8, <4>1, <5>1 DEF Finish, FinishItem, IInv, TypeOK
        <5> QED BY <5>2 DEF Pending
      <4>3. Pending(j)' \subseteq task.queue
        BY <3>2, <3>8, <4>2 DEF Finish
      <4>4. /\ task' \in Tasks /\ task'.kind = "match" /\ task'.job = j
            /\ task'.queue = task.queue /\ task'.series = None /\ task'.pc = "next"
        BY <1>0, <2>0, <3>0, <3>8 DEF Finish, Tasks
      <4> QED BY <3>1, <4>3, <4>4, TaskMoves DEF MatchStates
    <3>9. CASE Complete
      <4>1. /\ task' \in Tasks /\ task'.kind = "match" /\ task'.job = j
            /\ task'.queue = task.queue /\ task'.series = task.series /\ task'.pc = "end"
        BY <1>0, <2>0, <3>0, <3>9 DEF Complete, Tasks
      <4>2. task.series = None /\ task.pc # "load"
        BY <1>0, <2>0, <3>9 DEF Complete, TaskOK
      <4> QED BY <1>0, <2>0, <3>1, <3>2, <4>1, <4>2, TaskMoves DEF MatchStates
    <3>10. CASE TaskEnds
      BY <3>10, TaskEnded DEF TaskEnds
    <3>11. ~LookupSearch /\ ~LookupEnd /\ \A s \in Series : ~LookupNext(s)
      BY <2>0 DEF LookupSearch, LookupEnd, LookupNext
    <3> QED BY <1>1, <3>3, <3>4, <3>5, <3>6, <3>7, <3>8, <3>9, <3>10, <3>11 DEF TaskNext
  <2>1. CASE LookupSearch \/ \E s \in Series : LookupNext(s)
    <3>1. /\ task' \in Tasks /\ task'.kind = "lookup"
          /\ task'.pc \in {"next", "search"}
      <4>1. CASE LookupSearch
        BY <1>0, <4>1 DEF LookupSearch, Tasks
      <4>2. ASSUME NEW s \in Series, LookupNext(s), s \in present
            PROVE  task' \in Tasks /\ task'.kind = "lookup" /\ task'.pc = "search"
        BY <1>0, <4>2 DEF LookupNext, Tasks
      <4>3. ASSUME NEW s \in Series, LookupNext(s), s \notin present
            PROVE  task' \in Tasks /\ task'.kind = "lookup" /\ task'.pc = "next"
        BY <1>0, <4>3 DEF LookupNext, Tasks
      <4> QED BY <2>1, <4>1, <4>2, <4>3
    <3> QED BY <3>1 DEF TaskGood, TaskOK
  <2>2. CASE LookupEnd
    <3>1. parked # None => parked \in Jobs /\ status'[parked] # "none"
      BY <1>0, <2>2, JobsOnward DEF IInv, TypeOK, ParkedOK
    <3> QED BY <2>2, <3>1, TaskStarts, TaskEnded DEF LookupEnd
  <2>3. CASE task.kind # "match" /\ ~LookupSearch /\ ~LookupEnd /\ \A s \in Series : ~LookupNext(s)
    BY <1>1, <2>3 DEF TaskNext, Load, CheckExisting, SearchFails, TaskMatch, FetchFails, Finish,
                      Complete, TaskEnds, MatchNext, Search, Matching
  <2> QED BY <2>0, <2>1, <2>2, <2>3
<1>2. CASE EditNext
  <2>1. ASSUME NEW e \in Editors,
               \/ \E s \in present : AskLookup(e, s) \/ AskRefresh(e, s) \/ AskUpdate(e, s)
                                     \/ \E p \in Providers : AskMatch(e, s, p)
               \/ EditLookup(e) \/ ReadRow(e) \/ EditFetchFails(e)
               \/ \E b \in BOOLEAN : WriteEdits(e, b)
               \/ AskAuto(e) \/ List(e) \/ Create(e)
               \/ \E j \in Jobs : ViewPage(e, j)
        PROVE task' = task
    BY <2>1 DEF AskLookup, AskRefresh, AskUpdate, AskMatch, Ask, EditLookup, ReadRow,
                EditFetchFails, WriteEdits, AskAuto, List, Create, ViewPage
  <2>2. ASSUME NEW e \in Editors, EditMatch(e)
        PROVE task' = task \/ (task.kind = "match" /\ task' = [task EXCEPT !.raced = TRUE])
    BY <2>2 DEF EditMatch
  <2>3. ASSUME NEW e \in Editors, Start(e) PROVE TaskGood'
    <3>1. edit[e].job \in Jobs /\ status'[edit[e].job] # "none"
      BY <1>0, <2>3, JobsOnward DEF Start, IInv, EditsOK, EditOK
    <3> QED BY <1>0, <2>3, <3>1, TaskStarts, TaskKept DEF Start, StartAutoMatch
  <2>4. ASSUME NEW ss \in SUBSET Series, StartLookup(ss) PROVE TaskGood'
    BY <2>4 DEF StartLookup, LookupTask, NoTask, TaskGood, TaskOK, Tasks
  <2>5. CASE (\E s \in Series : Unlink(s)) \/ (\E n \in 1..MaxLimit : SetLimit(n))
    BY <1>0, <2>5, TaskKept DEF Unlink, SetLimit
  <2> QED BY <1>0, <1>2, <2>1, <2>2, <2>3, <2>4, <2>5, TaskKept DEF EditNext
<1>3. CASE Tick \/ \E s \in Series : Vanish(s)
  BY <1>0, <1>3, TaskKept DEF Tick, Vanish
<1>4. CASE Restart
  <2>1. CASE \A j \in Jobs : status[j] # "running"
    BY <1>4, <2>1, TaskEnded DEF Restart
  <2>2. CASE \E j \in Jobs : status[j] = "running"
    <3> DEFINE j == CHOOSE k \in Jobs : status[k] = "running"
    <3>1. j \in Jobs /\ status[j] = "running"
      BY <2>2
    <3>2. task' = MatchTask(j) /\ status' = status
      BY <1>4, <2>2 DEF Restart, jobs
    <3> HIDE DEF j
    <3> QED BY <3>1, <3>2, TaskStarts
  <2> QED BY <2>1, <2>2
<1> QED BY <1>1, <1>2, <1>3, <1>4 DEF Next
LEMMA ParkedStep ==
    ASSUME IInv, Next PROVE parked' \in Jobs \cup {None} /\ ParkedOK'
<1>0. JobsChange /\ parked \in Jobs \cup {None} /\ ParkedOK
  BY EveryJobsChange DEF IInv, TypeOK
<1>1. CASE parked' = parked \/ parked' = None
  BY <1>0, <1>1, JobsOnward DEF IInv, ParkedOK
<1>2. ASSUME NEW e \in Editors, Start(e) PROVE parked' \in Jobs \cup {None} /\ ParkedOK'
  <2>1. edit[e].job \in Jobs /\ status'[edit[e].job] # "none"
    BY <1>0, <1>2, JobsOnward DEF Start, IInv, EditsOK, EditOK
  <2>2. parked' = edit[e].job \/ parked' = parked
    BY <1>2 DEF Start, StartAutoMatch
  <2> QED BY <1>1, <2>1, <2>2 DEF ParkedOK
<1>3. CASE TaskNext
  <2>1. parked' = parked \/ parked' = None
    BY <1>3 DEF TaskNext, LookupSearch, LookupEnd, Load, CheckExisting, SearchFails, TaskMatch,
                FetchFails, Finish, Complete, TaskEnds, LookupNext, MatchNext, Search, Matching
  <2> QED BY <1>1, <2>1
<1>4. CASE EditNext /\ \A e \in Editors : ~Start(e)
  <2>1. parked' = parked
    BY <1>4 DEF EditNext, AskLookup, AskRefresh, AskUpdate, AskMatch, Ask, EditLookup, ReadRow,
                EditMatch, EditFetchFails, WriteEdits, AskAuto, List, Create, ViewPage, Unlink,
                StartLookup, SetLimit
  <2> QED BY <1>1, <2>1
<1>5. CASE Tick \/ Restart \/ \E s \in Series : Vanish(s)
  <2>1. parked' = parked \/ parked' = None
    BY <1>5 DEF Tick, Restart, Vanish
  <2> QED BY <1>1, <2>1
<1> QED BY <1>2, <1>3, <1>4, <1>5 DEF Next

\* What is not of the jobs, the task or a request.
LEMMA RestType ==
    ASSUME IInv, Next
    PROVE  /\ present' \subseteq Series
           /\ requests' \in 0..MaxRequests /\ restarts' \in 0..MaxRestarts
<1> USE DEF IInv, TypeOK
<1>1. CASE TaskNext
  <2>1. UNCHANGED <<present, requests, restarts>>
    BY <1>1 DEF TaskNext, LookupSearch, LookupEnd, Load, CheckExisting, SearchFails, TaskMatch,
                FetchFails, Finish, Complete, TaskEnds, LookupNext, MatchNext, Search, Matching,
                TaskStep
  <2> QED BY <2>1
<1>2. CASE EditNext
  <2>1. /\ present' = present /\ restarts' = restarts
        /\ requests' = requests \/ (requests < MaxRequests /\ requests' = requests + 1)
    BY <1>2 DEF EditNext, AskLookup, AskRefresh, AskUpdate, AskMatch, Ask, EditLookup, ReadRow,
                EditMatch, EditFetchFails, WriteEdits, AskAuto, List, Create, ViewPage, Start,
                Unlink, StartLookup, SetLimit, EditStep
  <2> QED BY <2>1, MetadataAssumption
<1>3. CASE Tick
  BY <1>3 DEF Tick
<1>4. CASE Restart
  BY <1>4, MetadataAssumption DEF Restart
<1>5. ASSUME NEW s \in Series, Vanish(s)
      PROVE  /\ present' \subseteq Series
             /\ requests' \in 0..MaxRequests /\ restarts' = restarts
  BY <1>5, MetadataAssumption DEF Vanish
<1> QED BY <1>1, <1>2, <1>3, <1>4, <1>5 DEF Next

\* A link that appears after the job looked was saved by a request, and that tells the task.
LEMMA RacedStep == ASSUME IInv, Next PROVE RacedOK'
<1>0. MetaChange /\ task \in Tasks /\ TaskOK /\ RacedOK
  BY EveryChange DEF Changes, IInv, TypeOK
<1> DEFINE Late == {"search", "fetch", "refetch", "save"}
<1>1. CASE TaskSaves
  BY <1>0, <1>1 DEF TaskSaves, RacedOK, Tasks
<1>2. ASSUME NEW e \in Editors, EditSaves(e) PROVE RacedOK'
  <2>1. \A s \in Series : s # edit[e].series => meta'[s] = meta[s]
    BY <1>2 DEF EditSaves, Saved, IInv, TypeOK
  <2>2. CASE task.kind = "match" /\ task.pc \in Late /\ edit[e].series = task.series
    <3>1. task' = [task EXCEPT !.raced = TRUE]
      BY <1>2, <2>2 DEF EditSaves
    <3> QED BY <1>0, <3>1 DEF RacedOK, Tasks
  <2>3. CASE ~(task.kind = "match" /\ task.pc \in Late /\ edit[e].series = task.series)
    <3>1. task' = task
      BY <1>2, <2>3 DEF EditSaves
    <3>2. task.kind = "match" /\ task.pc \in Late => task.series \in Series
      BY <1>0 DEF TaskOK, Tasks
    <3> QED BY <1>0, <2>1, <2>3, <3>1, <3>2 DEF RacedOK
  <2> QED BY <2>2, <2>3
<1>3. ASSUME task' = task,
             \A s \in Series : meta[s] = None => meta'[s] = None
      PROVE  RacedOK'
  <2>1. task.kind = "match" /\ task.pc \in Late => task.series \in Series
    BY <1>0 DEF TaskOK, Tasks
  <2> QED BY <1>0, <1>3, <2>1 DEF RacedOK
<1>4. ASSUME NEW e \in Editors, NEW b \in BOOLEAN, EditWrites(e, b) PROVE RacedOK'
  BY <1>3, <1>4 DEF EditWrites, IInv, TypeOK
<1>5. ASSUME NEW s \in Series, Unlinks(s) PROVE RacedOK'
  BY <1>3, <1>5 DEF Unlinks, IInv, TypeOK
<1>6. CASE meta' = meta
  <2>1. CASE task' = task
    BY <1>3, <1>6, <2>1
  <2>2. CASE task'.kind # "match" \/ task'.pc \notin Late
    BY <2>2 DEF RacedOK
  <2>3. CASE task' = [task EXCEPT !.raced = TRUE]
    BY <1>0, <2>3 DEF RacedOK, Tasks
  <2>4. CASE /\ task'.series = task.series /\ task'.raced = task.raced
             /\ task.kind = "match" /\ task.pc \in Late
    BY <1>0, <1>6, <2>4 DEF RacedOK
  <2>5. CASE TaskNext
    <3>1. CASE CheckExisting
      <4>1. CASE meta[task.series] = None
        <5>1. task'.series = task.series
          BY <1>0, <3>1, <4>1 DEF CheckExisting, Tasks
        <5> QED BY <1>6, <4>1, <5>1 DEF RacedOK
      <4>2. CASE meta[task.series] # None
        BY <1>0, <2>2, <3>1, <4>2 DEF CheckExisting, Tasks
      <4> QED BY <4>1, <4>2
    <3>2. ASSUME NEW found \in Answers, Search(found) PROVE RacedOK'
      <4>1. task.kind = "match" /\ task.pc = "search"
        BY <3>2 DEF Search, Matching
      <4>2. task'.series = task.series /\ task'.raced = task.raced
        <5>1. CASE Choose(found) = None
          BY <1>0, <3>2, <5>1 DEF Search, Tasks
        <5>2. CASE Choose(found) # None
          BY <1>0, <3>2, <5>2 DEF Search, Tasks
        <5> QED BY <5>1, <5>2
      <4> QED BY <2>4, <4>1, <4>2
    <3>3. CASE TaskMatch
      <4> DEFINE end == [task EXCEPT !.pc = "finish", !.result = "linked"]
      <4>1. PICK r \in Matched(task, end) : Match("task", task, r, end) /\ task' = r
        BY <3>3 DEF TaskMatch
      <4>2. task.kind = "match"
        BY <3>3 DEF TaskMatch, Matching
      <4>3. end.pc = "finish"
        BY <1>0 DEF Tasks
      <4>4. task'.series = task.series /\ task'.raced = task.raced
        <5>1. CASE r = end
          BY <1>0, <4>1, <5>1 DEF Tasks
        <5>2. ASSUME NEW pc \in MatchStates, NEW p \in Providers, r = Moved(task, pc, p)
              PROVE  task'.series = task.series /\ task'.raced = task.raced
          BY <1>0, <4>1, <5>2 DEF Tasks, Moved
        <5> HIDE DEF end
        <5> QED BY <4>1, <5>1, <5>2, MatchedCases
      <4> HIDE DEF end
      <4>5. CASE MatchFetch("task", task, r) \/ MatchRefetch("task", task, r)
        BY <2>4, <4>2, <4>4, <4>5 DEF MatchFetch, MatchRefetch
      <4>6. CASE MatchSave(task, r)
        <5>1. task'.pc = "cover"
          BY <1>0, <4>1, <4>6 DEF MatchSave, Tasks
        <5> QED BY <2>2, <5>1
      <4>7. CASE MatchCover("task", task, r, end)
        BY <2>2, <4>1, <4>3, <4>7 DEF MatchCover
      <4> QED BY <4>1, <4>5, <4>6, <4>7 DEF Match
    <3>4. CASE Load \/ SearchFails \/ FetchFails \/ Finish \/ Complete
      <4>1. task'.pc \in {"next", "finish", "end"}
        BY <1>0, <3>4 DEF Load, SearchFails, FetchFails, Finish, Complete, Tasks
      <4> QED BY <2>2, <4>1
    <3>5. ASSUME NEW s \in Series, MatchNext(s) PROVE RacedOK'
      <4>1. task'.pc \in {"check", "finish"}
        BY <1>0, <3>5 DEF MatchNext, Tasks
      <4> QED BY <2>2, <4>1
    <3>6. CASE TaskEnds
      BY <2>2, <3>6 DEF TaskEnds, NoTask
    <3>7. CASE LookupSearch \/ \E s \in Series : LookupNext(s)
      <4>1. task'.kind = "lookup"
        BY <1>0, <3>7 DEF LookupSearch, LookupNext, Tasks
      <4> QED BY <2>2, <4>1
    <3>8. CASE LookupEnd
      BY <2>2, <3>8 DEF LookupEnd, NoTask, MatchTask
    <3> QED BY <2>5, <3>1, <3>2, <3>3, <3>4, <3>5, <3>6, <3>7, <3>8 DEF TaskNext
  <2>6. CASE EditNext
    <3>1. ASSUME NEW e \in Editors, EditMatch(e)
          PROVE  task' = task \/ task' = [task EXCEPT !.raced = TRUE]
      BY <3>1 DEF EditMatch
    <3>2. ASSUME NEW e \in Editors, Start(e)
          PROVE  task' = task \/ task' = MatchTask(edit[e].job)
      BY <3>2 DEF Start, StartAutoMatch
    <3>3. ASSUME NEW ss \in SUBSET Series, StartLookup(ss) PROVE task'.kind = "lookup"
      BY <3>3 DEF StartLookup, LookupTask, NoTask
    <3>4. CASE /\ \A e \in Editors : ~EditMatch(e) /\ ~Start(e)
               /\ \A ss \in SUBSET Series : ~StartLookup(ss)
      <4>1. task' = task
        BY <2>6, <3>4 DEF EditNext, AskLookup, AskRefresh, AskUpdate, AskMatch, Ask, EditLookup,
              ReadRow, EditFetchFails, WriteEdits, AskAuto, List, Create, ViewPage, Unlink, SetLimit
      <4> QED BY <2>1, <4>1
    <3>5. \A j : MatchTask(j).pc = "load"
      BY DEF MatchTask, NoTask
    <3> QED BY <2>1, <2>2, <2>3, <3>1, <3>2, <3>3, <3>4, <3>5
  <2>7. CASE Tick \/ \E s \in Series : Vanish(s)
    BY <2>1, <2>7 DEF Tick, Vanish
  <2>8. CASE Restart
    <3>1. task'.pc \in {"idle", "load"}
      BY <2>8 DEF Restart, NoTask, MatchTask
    <3> QED BY <2>2, <3>1
  <2> QED BY <2>5, <2>6, <2>7, <2>8 DEF Next
<1> QED BY <1>0, <1>1, <1>2, <1>4, <1>5, <1>6 DEF MetaChange
-----------------------------------------------------------------------------
(***************************************************************************)
(* The inductive invariant.                                                *)
(***************************************************************************)
LEMMA InitIInv == ASSUME Init PROVE IInv
<1> USE MetadataAssumption DEF Init
<1>1. TypeOK
  <2>1. meta \in [Series -> Row \cup {None}]
    OBVIOUS
  <2>2. status \in [Jobs -> {"none", "running", "complete"}]
        /\ item \in [Jobs -> [Series -> {"none", "pending"} \cup Results]]
    OBVIOUS
  <2>3. 0 \in 0..Cardinality(Series)
    BY FS_CardinalityType
  <2>4. tally \in [Jobs -> [Results -> 0..Cardinality(Series)]]
    BY <2>3
  <2>5. reserved \in Seq(0..Window - 1) /\ sent \in Seq(0..Window - 1)
    OBVIOUS
  <2>6. task \in Tasks /\ parked \in Jobs \cup {None}
    BY DEF Tasks, NoTask
  <2>7. NoEdit \in Edits
    BY DEF NoEdit, Edits
  <2>8. edit \in [Editors -> Edits]
    BY <2>7
  <2>9. limit \in 1..MaxLimit /\ most \in 1..MaxLimit /\ present \subseteq Series
        /\ requests \in 0..MaxRequests /\ restarts \in 0..MaxRestarts
        /\ allowed \in [Callers -> SUBSET (1..MaxLimit)]
    BY DEF ReadAnew
  <2> QED BY <2>1, <2>2, <2>4, <2>5, <2>6, <2>8, <2>9 DEF TypeOK
<1>2. JobsOK
  BY DEF JobsOK, Pending
<1>3. TalliesOK
  <2>1. ASSUME NEW j \in Jobs, NEW r \in Results
        PROVE  tally[j][r] = 0 /\ {s \in Series : item[j][s] = r} = {}
    <3>1. r # "none"
      BY DEF Results
    <3> QED BY <3>1
  <2> QED BY <2>1, FS_EmptySet DEF TalliesOK
<1>4. TaskOK /\ ParkedOK /\ RacedOK
  BY DEF TaskOK, ParkedOK, RacedOK, NoTask
<1>5. EditsOK
  BY DEF EditsOK, EditOK, NoEdit, MatchStates
<1>6. sent = reserved /\ LimitsOK
  BY DEF LimitsOK, ReadAnew
<1> QED BY <1>1, <1>2, <1>3, <1>4, <1>5, <1>6 DEF IInv

LEMMA NextIInv == ASSUME IInv, Next PROVE IInv'
<1>1. JobsChange /\ WindowChange /\ MetaChange
  BY EveryJobsChange, EveryChange DEF Changes
<1>2. JobsOK' /\ TalliesOK'
  BY <1>1, JobsOKStep, TalliesStep DEF IInv
<1>3. EditsGood' /\ TaskGood' /\ parked' \in Jobs \cup {None} /\ ParkedOK' /\ RacedOK'
  BY EditsStep, TaskStepGood, ParkedStep, RacedStep
<1>4. /\ sent' = reserved' /\ reserved' \in Seq(0..Window - 1) /\ LimitsOK'
      /\ limit' \in 1..MaxLimit /\ most' \in 1..MaxLimit
      /\ allowed' \in [Callers -> SUBSET (1..MaxLimit)]
  BY <1>1, WindowStep
<1>5. TypeOK'
  <2>1. /\ status' \in [Jobs -> {"none", "running", "complete"}]
        /\ item' \in [Jobs -> [Series -> {"none", "pending"} \cup Results]]
        /\ tally' \in [Jobs -> [Results -> 0..Cardinality(Series)]]
    BY <1>1, <1>2, JobsType DEF IInv
  <2>2. meta' \in [Series -> Row \cup {None}]
    BY <1>1, MetaType
  <2> QED BY <1>3, <1>4, <2>1, <2>2, RestType DEF TypeOK, EditsGood, TaskGood
<1> QED BY <1>2, <1>3, <1>4, <1>5 DEF IInv, EditsGood, TaskGood

LEMMA StutterIInv == ASSUME IInv, UNCHANGED vars PROVE IInv'
<1> USE DEF IInv, vars
<1>1. TypeOK' /\ sent' = reserved' /\ LimitsOK'
  BY DEF TypeOK, LimitsOK
<1>2. JobsOK'
  BY DEF JobsOK, Pending
<1>3. TalliesOK'
  BY DEF TalliesOK
<1>4. TaskOK' /\ ParkedOK'
  BY DEF TaskOK, ParkedOK, Pending
<1>5. EditsOK' /\ RacedOK'
  BY DEF EditsOK, EditOK, RacedOK
<1> QED BY <1>1, <1>2, <1>3, <1>4, <1>5

LEMMA Inductive == Spec => []IInv
<1>1. Init => IInv
  BY InitIInv
<1>2. IInv /\ [Next]_vars => IInv'
  BY NextIInv, StutterIInv
<1> QED BY <1>1, <1>2, PTL DEF Spec

-----------------------------------------------------------------------------
\* Every variable keeps its type; a job's counters stay within the number of its series.
THEOREM TypeCorrect == Spec => []TypeOK
<1>1. IInv => TypeOK
  BY DEF IInv
<1> QED BY <1>1, Inductive, PTL

\* A job's counters always count the outcomes its items record, each once, whatever was
\* started again or resumed (finish_metadata_auto_match_item).
THEOREM TalliesExact == Spec => []TalliesOK
<1>1. IInv => TalliesOK
  BY DEF IInv
<1> QED BY <1>1, Inductive, PTL

\* With each request that is made, the window holds no more of them than were configured at some
\* moment since the request before it (PersistentRateLimiter): a restart forgets no reservation,
\* as sent = reserved says, and nobody goes by an older limit, as LimitsOK says.
THEOREM WindowKept == Spec => RollingLimit
<1>1. IInv /\ [Next]_vars => [Len(sent') > Len(sent) => Len(sent') <= most]_vars
  BY EveryChange, WindowStep DEF Changes
<1> QED BY <1>1, Inductive, PTL DEF Spec, RollingLimit

\* Only an administrator's own edit, or an unlink, takes an edit away
\* (save_series_metadata).
THEOREM EditsSurvive == Spec => EditsKept
<1> DEFINE Kept(s) ==
        meta[s] # None /\ meta[s].edited =>
           \/ meta'[s] # None /\ meta'[s].edited
           \/ \E e \in Editors : edit[e].pc = "write" /\ edit[e].series = s
           \/ meta'[s] = None /\ requests' # requests
<1>1. ASSUME IInv, MetaChange, NEW s \in Series PROVE Kept(s)
  <2>0. meta \in [Series -> Row \cup {None}] /\ requests \in Nat
    BY <1>1 DEF IInv, TypeOK
  <2>1. ASSUME NEW t \in Series, NEW p \in Providers, meta' = Saved(t, p) PROVE Kept(s)
    <3>1. CASE s = t
      <4>1. meta'[s] = [provider |-> p, edited |-> meta[s] # None /\ meta[s].edited]
        BY <2>0, <2>1, <3>1 DEF Saved
      <4>2. SUFFICES ASSUME meta[s] # None /\ meta[s].edited
                     PROVE  meta'[s] # None /\ meta'[s].edited
        OBVIOUS
      <4>3. meta[s].edited = TRUE
        BY <2>0, <4>2 DEF Row
      <4>4. meta'[s] = [provider |-> p, edited |-> TRUE]
        BY <4>1, <4>2, <4>3
      <4>5. meta'[s] \in [provider : Providers, edited : BOOLEAN]
        BY <4>4
      <4>6. meta'[s].edited
        BY <4>4
      <4>7. meta'[s] # None
        BY <4>5, MetadataAssumption
      <4> QED BY <4>6, <4>7
    <3>2. CASE s # t
      BY <2>0, <2>1, <3>2 DEF Saved
    <3> QED BY <3>1, <3>2
  <2>2. CASE TaskSaves
    <3>1. task.series \in Series /\ task.choice \in Providers
      BY <1>1, <2>2 DEF TaskSaves, IInv, TaskOK, TypeOK, Tasks, MatchStates
    <3> QED BY <2>1, <2>2, <3>1 DEF TaskSaves
  <2>3. ASSUME NEW e \in Editors, EditSaves(e) PROVE Kept(s)
    <3>1. edit[e].series \in Series /\ edit[e].choice \in Providers
      BY <1>1, <2>3 DEF EditSaves, IInv, EditsOK, EditOK, MatchStates
    <3> QED BY <2>1, <2>3, <3>1 DEF EditSaves
  <2>4. ASSUME NEW e \in Editors, NEW b \in BOOLEAN, EditWrites(e, b) PROVE Kept(s)
    <3>1. CASE edit[e].series = s
      BY <2>4, <3>1 DEF EditWrites
    <3>2. CASE edit[e].series # s
      BY <2>0, <2>4, <3>2 DEF EditWrites
    <3> QED BY <3>1, <3>2
  <2>5. ASSUME NEW t \in Series, Unlinks(t) PROVE Kept(s)
    BY <2>0, <2>5 DEF Unlinks
  <2> QED BY <1>1, <2>2, <2>3, <2>4, <2>5 DEF MetaChange
<1>2. IInv /\ [Next]_vars => [\A s \in Series : Kept(s)]_vars
  BY <1>1, EveryChange DEF Changes
<1> QED BY <1>2, Inductive, PTL DEF Spec, EditsKept

\* The job replaces a link only if an administrator made it while the job was searching for
\* that very series (MetadataService.auto_match).
THEOREM LinksSurvive == Spec => LinkLostOnlyIfRaced
<1>1. IInv /\ [Next]_vars =>
        [\A s \in Series :
            task # task' /\ task.series = s /\ task.pc = "save" /\ edit' = edit
               /\ meta[s] # None => task.raced]_vars
  <2>1. ASSUME IInv, NEW s \in Series, task.series = s, task.pc = "save", meta[s] # None
        PROVE  task.raced
    <3>1. task.kind = "match"
      BY <2>1 DEF IInv, TypeOK, Tasks, TaskOK, NoTask
    <3> QED BY <2>1, <3>1 DEF IInv, RacedOK
  <2> QED BY <2>1
<1> QED BY <1>1, Inductive, PTL DEF Spec, LinkLostOnlyIfRaced

-----------------------------------------------------------------------------
(***************************************************************************)
(* The jobs implement AutoMatch.                                           *)
(***************************************************************************)
LEMMA PromiseInit == ASSUME Init PROVE Promise!Init
<1>1. \A j \in Jobs : Pending(j) = {}
  BY DEF Init, Pending
<1> QED BY <1>1 DEF Init, Promise!Init, Results, Promise!Results

LEMMA PromiseStep ==
    ASSUME IInv, JobsChange PROVE Promise!Next \/ UNCHANGED Promise!jobVars
<1> USE DEF IInv, TypeOK
<1> DEFINE left == [j \in Jobs |-> Pending(j)]
<1>1. CASE UNCHANGED jobs
  BY <1>1 DEF jobs, Pending, Promise!jobVars
<1>2. ASSUME NEW j \in Jobs, NEW ss \in SUBSET Series, Created(j, ss) PROVE Promise!Next
  <2>1. left' = [left EXCEPT ![j] = ss]
    <3>1. Pending(j)' = ss
      BY <1>2 DEF Created, Pending
    <3>2. \A k \in Jobs \ {j} : Pending(k)' = Pending(k)
      BY <1>2 DEF Created, Pending
    <3> QED BY <3>1, <3>2
  <2> HIDE DEF left
  <2>2. Promise!Create(j, ss)
    BY <1>2, <2>1 DEF Created, Promise!Create, left
  <2> QED BY <1>2, <2>2 DEF Created, Promise!Next
<1>3. ASSUME NEW j \in Jobs, NEW s \in Series, NEW r \in Results, Settled(j, s, r)
      PROVE  Promise!Next
  <2>0. r # "pending" /\ r \in Promise!Results
    BY DEF Results, Promise!Results
  <2>1. s \in Pending(j)
    BY <1>3 DEF Settled, Pending
  <2>2. left' = [left EXCEPT ![j] = @ \ {s}]
    <3>1. Pending(j)' = Pending(j) \ {s}
      BY <1>3, <2>0 DEF Settled, Pending
    <3>2. \A k \in Jobs \ {j} : Pending(k)' = Pending(k)
      BY <1>3 DEF Settled, Pending
    <3> QED BY <3>1, <3>2
  <2>3. status[j] = "running"
    BY <2>1 DEF JobsOK
  <2>4. s \in left[j]
    BY <2>1
  <2> HIDE DEF left
  <2>5. Promise!Settle(j, s, r)
    BY <1>3, <2>2, <2>3, <2>4 DEF Settled, Promise!Settle, left
  <2> QED BY <2>0, <2>5 DEF Promise!Next
<1>4. ASSUME NEW j \in Jobs, Completed(j)
      PROVE  Promise!Next \/ UNCHANGED Promise!jobVars
  <2>1. left' = left /\ left[j] = {}
    BY <1>4 DEF Completed, Pending
  <2> HIDE DEF left
  <2>2. CASE status[j] = "running"
    <3>1. Promise!Complete(j)
      BY <1>4, <2>1, <2>2 DEF Completed, Promise!Complete, left
    <3> QED BY <3>1 DEF Promise!Next
  <2>3. CASE status[j] = "complete"
    <3>1. status' = status
      BY <1>4, <2>3 DEF Completed
    <3> QED BY <1>4, <2>1, <3>1 DEF Completed, Promise!jobVars, left
  <2> QED BY <1>4, <2>2, <2>3 DEF Completed
<1> QED BY <1>1, <1>2, <1>3, <1>4 DEF JobsChange

\* Whatever races, restarts or starts a job again, administrators see what AutoMatch promises:
\* one job at a time, each series settled and counted once, a completed job never changed.
THEOREM JobsImplementPromise == Spec => JobsAsPromised
<1>1. Init => Promise!Init
  BY PromiseInit
<1>2. IInv /\ [Next]_vars => [Promise!Next]_(Promise!jobVars)
  <2>1. UNCHANGED vars => UNCHANGED Promise!jobVars
    BY DEF vars, Promise!jobVars, Pending
  <2> QED BY <2>1, EveryJobsChange, PromiseStep
<1> QED BY <1>1, <1>2, Inductive, PTL DEF Spec, JobsAsPromised, Promise!Spec
=============================================================================
