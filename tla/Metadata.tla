------------------------------ MODULE Metadata ------------------------------
(***************************************************************************)
(* Series metadata from the provider (metadata.py, the metadata task of    *)
(* app.py, the handlers that start it, and the rows in database.py).       *)
(*                                                                         *)
(* One metadata task runs at a time on the event loop: a batch of lookups, *)
(* or an auto-match job whose items are rows that survive the process.     *)
(* Administrators look up, link, refresh, edit and unlink the same series  *)
(* meanwhile.  Every call to the provider takes the limiter's lock, reads   *)
(* the limit and waits for room in a rolling window of reservations, which *)
(* are rows too.                                                           *)
(*                                                                         *)
(* Titles, values, covers and the suggestions kept for review are left     *)
(* out: no step decides by them.  A row is the provider's id and whether   *)
(* an administrator edited it.  Time passes in ticks, and a reservation is *)
(* its age, oldest first.  The series of a job are taken in any order.     *)
(* The field raced of the task is history: its series was linked since it  *)
(* was looked at.                                                          *)
(***************************************************************************)
EXTENDS Naturals, Sequences, FiniteSets

CONSTANTS
    Jobs,         \* ids of the auto-match jobs that may be created
    Series,       \* the manga series of a library
    Providers,    \* series of the provider
    Editors,      \* administrators' requests that may run together
    Window,       \* reserve_metadata_request: the window, in ticks
    MaxLimit,     \* the most requests a window may be configured for
    Minimum, Margin, Scores,  \* ConfidentTitleMatcher, and what titles may score
    MaxRequests,  \* bound: administrators' requests
    MaxRestarts,  \* bound: restarts of the process
    None

ASSUME MetadataAssumption ==
    /\ Window \in Nat \ {0} /\ MaxLimit \in Nat \ {0}
    /\ Minimum \in Nat /\ Margin \in Nat /\ Scores \subseteq Nat
    /\ MaxRequests \in Nat /\ MaxRestarts \in Nat
    /\ None \notin Jobs \cup Series \cup Providers
    /\ None \notin [provider : Providers, edited : BOOLEAN]
    /\ IsFiniteSet(Series)

VARIABLES
    meta,      \* series_metadata: the row of each series, or None
    status, item, tally,  \* metadata_auto_match_jobs and _items
    reserved,  \* metadata_rate_events: the ages of the rows that count
    limit,     \* the configured requests per window
    allowed,   \* the limits each caller may read, or have read, before its next reservation
    present,   \* the series that have a volume in the catalog
    task,      \* metadata_task
    parked,    \* pending_metadata_job
    edit,      \* the administrators' requests
    requests, restarts,
    sent,      \* history: the reservations made in the current window
    most       \* history: the highest limit since the last reservation, with a caller waiting

vars == <<meta, status, item, tally, reserved, limit, allowed, present, task,
          parked, edit, requests, restarts, sent, most>>

jobs == <<status, item, tally>>

provider == <<reserved, sent, allowed, most>>

Results == {"linked", "review", "failed"}

Row == [provider : Providers, edited : BOOLEAN]

NoTask == [kind |-> "none", pc |-> "idle", job |-> None, queue |-> {},
           series |-> None, choice |-> None, result |-> None, raced |-> FALSE]

Tasks == [kind : {"none", "lookup", "match"},
          pc : {"idle", "load", "next", "check", "search", "fetch", "refetch", "save",
                "cover", "finish", "complete", "end"},
          job : Jobs \cup {None}, queue : SUBSET Series, series : Series \cup {None},
          choice : Providers \cup {None}, result : Results \cup {None}, raced : BOOLEAN]

NoEdit == [pc |-> "idle", op |-> None, series |-> None, choice |-> None, job |-> None, todo |-> {}]

Edits == [pc : {"idle", "search", "read", "fetch", "refetch", "save", "cover", "write",
                "list", "create", "start"},
          op : {None, "lookup", "match", "refresh", "update", "auto", "page"},
          series : Series \cup {None}, choice : Providers \cup {None},
          job : Jobs \cup {None}, todo : SUBSET Series]

Callers == Editors \cup {"task"}

TypeOK ==
    /\ meta \in [Series -> Row \cup {None}]
    /\ status \in [Jobs -> {"none", "running", "complete"}]
    /\ item \in [Jobs -> [Series -> {"none", "pending"} \cup Results]]
    /\ tally \in [Jobs -> [Results -> 0..Cardinality(Series)]]
    /\ reserved \in Seq(0..Window - 1) /\ sent \in Seq(0..Window - 1)
    /\ limit \in 1..MaxLimit /\ most \in 1..MaxLimit
    /\ allowed \in [Callers -> SUBSET (1..MaxLimit)]
    /\ present \subseteq Series
    /\ task \in Tasks /\ parked \in Jobs \cup {None}
    /\ edit \in [Editors -> Edits]
    /\ requests \in 0..MaxRequests /\ restarts \in 0..MaxRestarts

-----------------------------------------------------------------------------
(***************************************************************************)
(* The provider and its limiter.                                           *)
(***************************************************************************)
LiveOffByOne == Cardinality({i \in DOMAIN reserved : reserved[i] < Window - 1})

\* reserve_metadata_request: a reservation as old as the window counts no more (and is
\* deleted by the next one).
Live == Len(reserved)

Calling(w) ==
    (IF w = "task" THEN task.pc ELSE edit[w].pc) \in {"search", "fetch", "refetch", "cover"}

\* Whoever reads the limit from here on reads the one that is configured.
ReadAnew == [w \in Callers |-> {limit}]

\* PersistentRateLimiter.acquire: under the lock, w reads the limit, and reserves a place in a
\* transaction of its own, or sleeps and begins again.  It may have read any limit configured
\* since its call began and since the lock was free, that is since the last reservation.
Acquire(w) ==
    /\ \E n \in allowed[w] : Live < n
    /\ reserved' = Append(reserved, 0)
    /\ sent' = Append(sent, 0)
    /\ allowed' = ReadAnew /\ most' = limit

\* The rows that leave the window are the first ones.
Expired(q) ==
    CHOOSE n \in 0..Len(q) :
        /\ n > 0 => q[n] + 1 = Window
        /\ \A i \in n + 1..Len(q) : q[i] + 1 < Window

Older(q) == [i \in 1..Len(q) - Expired(q) |-> q[Expired(q) + i] + 1]

Tick ==
    /\ sent # <<>>
    /\ reserved' = Older(reserved) /\ sent' = Older(sent)
    /\ UNCHANGED <<meta, jobs, limit, allowed, most, present, task, parked, edit, requests, restarts>>

\* What a search may find: candidates with the score of their titles.
Answers == UNION {[ps -> Scores] : ps \in SUBSET Providers}

\* ConfidentTitleMatcher.choose: close enough, and no other title nearly as close.
Choose(found) ==
    LET clear == {p \in DOMAIN found : found[p] >= Minimum
                    /\ \A q \in DOMAIN found \ {p} : found[p] >= found[q] + Margin}
    IN  IF clear = {} THEN None ELSE CHOOSE p \in clear : TRUE

SavedAnew(s, p) == [meta EXCEPT ![s] = [provider |-> p, edited |-> FALSE]]

\* save_series_metadata: the provider's values are replaced, the edits are not.
Saved(s, p) ==
    [meta EXCEPT ![s] = [provider |-> p, edited |-> meta[s] # None /\ meta[s].edited]]

\* MetadataService.match, for the task and for a request alike: w is the
\* caller, m its record, and r what becomes of it.
MatchFetch(w, m, r) ==
    /\ m.pc = "fetch" /\ Acquire(w)
    /\ \/ r = [m EXCEPT !.pc = "save"]
       \/ \E p \in Providers \ {m.choice} : r = [m EXCEPT !.pc = "refetch", !.choice = p]
    /\ UNCHANGED meta

\* A series merged into another one is fetched again, under that one's id.
MatchRefetch(w, m, r) ==
    /\ m.pc = "refetch" /\ Acquire(w)
    /\ r = [m EXCEPT !.pc = "save"]
    /\ UNCHANGED meta

MatchSave(m, r) ==
    /\ m.pc = "save"
    /\ meta' = Saved(m.series, m.choice)
    /\ r = [m EXCEPT !.pc = "cover"]
    /\ UNCHANGED provider

\* The cover is optional: there may be none, and an error of the provider, or of the
\* picture, is ignored.
MatchCover(w, m, r, end) ==
    /\ m.pc = "cover"
    /\ \/ Acquire(w)
       \/ allowed' = [allowed EXCEPT ![w] = {limit}] /\ UNCHANGED <<reserved, sent, most>>
    /\ r = end
    /\ UNCHANGED meta

Match(w, m, r, end) ==
    MatchFetch(w, m, r) \/ MatchRefetch(w, m, r) \/ MatchSave(m, r) \/ MatchCover(w, m, r, end)

MatchStates == {"fetch", "refetch", "save", "cover"}

Matched(m, end) ==
    {end} \cup UNION {{[m EXCEPT !.pc = pc, !.choice = p] : pc \in MatchStates} : p \in Providers}

-----------------------------------------------------------------------------
(***************************************************************************)
(* The metadata task.                                                      *)
(***************************************************************************)
TaskStep == UNCHANGED <<limit, present, edit, requests, restarts>>

Running == task.kind # "none"

LookupTask(ss) == [NoTask EXCEPT !.kind = "lookup", !.pc = "next", !.queue = ss]

MatchTask(j) == [NoTask EXCEPT !.kind = "match", !.pc = "load", !.job = j]

\* start_metadata_auto_match: run it now, or park it behind the running task.
StartAutoMatch(j) ==
    IF ~Running THEN task' = MatchTask(j) /\ UNCHANGED parked
    ELSE parked' = (IF parked = None THEN j ELSE parked) /\ UNCHANGED task

\* _run_metadata_lookup: the next series, if it is still in the catalog.
LookupNext(s) ==
    /\ TaskStep /\ task.kind = "lookup" /\ task.pc = "next" /\ s \in task.queue
    /\ task' = IF s \in present THEN [task EXCEPT !.pc = "search", !.series = s]
               ELSE [task EXCEPT !.queue = @ \ {s}]
    /\ UNCHANGED <<meta, jobs, parked, provider>>

\* MetadataService.lookup: what was found, or why nothing was, is kept.
LookupSearch ==
    /\ TaskStep /\ task.kind = "lookup" /\ task.pc = "search" /\ Acquire("task")
    /\ task' = [task EXCEPT !.pc = "next", !.queue = @ \ {task.series}, !.series = None]
    /\ UNCHANGED <<meta, jobs, parked>>

\* The end of a batch runs the job that was parked behind it.
LookupEnd ==
    /\ TaskStep /\ task.kind = "lookup" /\ task.pc = "next" /\ task.queue = {}
    /\ task' = IF parked = None THEN NoTask ELSE MatchTask(parked)
    /\ parked' = None
    /\ UNCHANGED <<meta, jobs, provider>>

Matching == task.kind = "match" /\ TaskStep /\ UNCHANGED parked

\* pending_metadata_auto_match_series.
Pending(j) == {s \in Series : item[j][s] = "pending"}

\* _run_metadata_auto_match.
Load ==
    /\ Matching /\ task.pc = "load"
    /\ task' = [task EXCEPT !.pc = "next", !.queue = Pending(task.job)]
    /\ UNCHANGED <<meta, jobs, provider>>

MatchNext(s) ==
    /\ Matching /\ task.pc = "next" /\ s \in task.queue
    /\ task' = [task EXCEPT !.queue = @ \ {s}, !.series = s,
                   !.pc = IF s \in present THEN "check" ELSE "finish",
                   !.result = IF s \in present THEN None ELSE "failed"]
    /\ UNCHANGED <<meta, jobs, provider>>

CheckNothing ==
    /\ Matching /\ task.pc = "check"
    /\ task' = [task EXCEPT !.pc = "search"]
    /\ UNCHANGED <<meta, jobs, provider>>

\* MetadataService.auto_match: an existing link is left alone ...
CheckExisting ==
    /\ Matching /\ task.pc = "check"
    /\ task' = IF meta[task.series] # None
               THEN [task EXCEPT !.pc = "finish", !.result = "review"]
               ELSE [task EXCEPT !.pc = "search"]
    /\ UNCHANGED <<meta, jobs, provider>>

\* ... otherwise the best suggestion is linked, if it is clear which one that is.
SearchFails ==
    /\ Matching /\ task.pc = "search" /\ Acquire("task")
    /\ task' = [task EXCEPT !.pc = "finish", !.result = "failed"]
    /\ UNCHANGED <<meta, jobs>>

Search(found) ==
    /\ Matching /\ task.pc = "search" /\ Acquire("task")
    /\ task' = IF Choose(found) = None
               THEN [task EXCEPT !.pc = "finish", !.result = "review"]
               ELSE [task EXCEPT !.pc = "fetch", !.choice = Choose(found)]
    /\ UNCHANGED <<meta, jobs>>

TaskMatch ==
    /\ Matching /\ task.pc \in MatchStates
    /\ LET end == [task EXCEPT !.pc = "finish", !.result = "linked"]
       IN  \E r \in Matched(task, end) : Match("task", task, r, end) /\ task' = r
    /\ UNCHANGED jobs

\* A failed fetch, or an error nobody expects while the cover is got: the item failed, in
\* the latter case although its link is saved.
FetchFails ==
    /\ Matching /\ task.pc \in {"fetch", "refetch", "cover"} /\ Acquire("task")
    /\ task' = [task EXCEPT !.pc = "finish", !.result = "failed"]
    /\ UNCHANGED <<meta, jobs>>

CountedOnly(j, s, r) == tally' = [tally EXCEPT ![j][r] = @ + 1] /\ UNCHANGED item

\* finish_metadata_auto_match_item: one transaction, and only for a pending item.
FinishItem(j, s, r) ==
    IF item[j][s] = "pending"
    THEN /\ item' = [item EXCEPT ![j][s] = r]
         /\ tally' = [tally EXCEPT ![j][r] = @ + 1]
    ELSE UNCHANGED <<item, tally>>

Finish ==
    /\ Matching /\ task.pc = "finish"
    /\ FinishItem(task.job, task.series, task.result)
    /\ task' = [task EXCEPT !.pc = "next", !.series = None, !.choice = None, !.result = None, !.raced = FALSE]
    /\ UNCHANGED <<meta, status, provider>>

\* complete_metadata_auto_match_job; the task ends when the loop hears of it.
Complete ==
    /\ Matching /\ task.pc = "next" /\ task.queue = {}
    /\ status' = [status EXCEPT ![task.job] = "complete"]
    /\ task' = [task EXCEPT !.pc = "end"]
    /\ UNCHANGED <<meta, item, tally, provider>>

TaskEnds ==
    /\ Matching /\ task.pc = "end"
    /\ task' = NoTask
    /\ UNCHANGED <<meta, jobs, provider>>

TaskNext ==
    \/ LookupSearch \/ LookupEnd \/ Load \/ CheckExisting \/ SearchFails
    \/ TaskMatch \/ FetchFails \/ Finish \/ Complete \/ TaskEnds
    \/ \E s \in Series : LookupNext(s) \/ MatchNext(s)
    \/ \E found \in Answers : Search(found)

-----------------------------------------------------------------------------
(***************************************************************************)
(* Requests of administrators.                                             *)
(***************************************************************************)
EditStep == UNCHANGED <<limit, present, requests, restarts>>

Become(e, r) == edit' = [edit EXCEPT ![e] = r]

\* A request about a series that is in the catalog.
Ask(e, op, s, p, pc) ==
    /\ requests < MaxRequests /\ requests' = requests + 1
    /\ edit[e].pc = "idle" /\ s \in present
    /\ Become(e, [NoEdit EXCEPT !.pc = pc, !.op = op, !.series = s, !.choice = p])
    /\ UNCHANGED <<meta, jobs, provider, limit, present, task, parked, restarts>>

AskLookup(e, s) == Ask(e, "lookup", s, None, "search")

AskMatch(e, s, p) == Ask(e, "match", s, p, "fetch")

AskRefresh(e, s) == Ask(e, "refresh", s, None, "read")

AskUpdate(e, s) == Ask(e, "update", s, None, "read")

EditLookup(e) ==
    /\ EditStep /\ edit[e].op = "lookup" /\ Acquire(e)
    /\ Become(e, NoEdit)
    /\ UNCHANGED <<meta, jobs, task, parked>>

\* refresh and update need a link; a refresh fetches what is linked again.
ReadRow(e) ==
    /\ EditStep /\ edit[e].pc = "read"
    /\ LET row == meta[edit[e].series]
       IN  Become(e, IF row = None THEN NoEdit
                     ELSE IF edit[e].op = "refresh"
                     THEN [edit[e] EXCEPT !.pc = "fetch", !.choice = row.provider]
                     ELSE [edit[e] EXCEPT !.pc = "write"])
    /\ UNCHANGED <<meta, jobs, provider, task, parked>>

EditMatch(e) ==
    /\ EditStep /\ edit[e].pc \in MatchStates
    /\ \E r \in Matched(edit[e], NoEdit) : Match(e, edit[e], r, NoEdit) /\ Become(e, r)
    /\ task' = IF task.kind = "match" /\ task.pc \in {"search", "fetch", "refetch", "save"}
                   /\ edit[e].pc = "save" /\ edit[e].series = task.series
               THEN [task EXCEPT !.raced = TRUE] ELSE task
    /\ UNCHANGED <<jobs, parked>>

EditFetchFails(e) ==
    /\ EditStep /\ edit[e].pc \in {"fetch", "refetch", "cover"} /\ Acquire(e)
    /\ Become(e, NoEdit)
    /\ UNCHANGED <<meta, jobs, task, parked>>

\* replace_metadata_overrides: a field is an edit if it differs from the provider's.
WriteEdits(e, edited) ==
    /\ EditStep /\ edit[e].pc = "write"
    /\ LET s == edit[e].series
       IN  meta' = IF meta[s] = None THEN meta ELSE [meta EXCEPT ![s].edited = edited]
    /\ Become(e, NoEdit)
    /\ UNCHANGED <<jobs, provider, task, parked>>

Unlink(s) ==
    /\ requests < MaxRequests /\ requests' = requests + 1
    /\ s \in present
    /\ meta' = [meta EXCEPT ![s] = None]
    /\ UNCHANGED <<jobs, provider, limit, present, task, parked, edit, restarts>>

\* admin_metadata_batch_lookup, start_metadata_lookup: refused while a task runs.
StartLookup(ss) ==
    /\ requests < MaxRequests /\ requests' = requests + 1
    /\ ~Running /\ ss # {}
    /\ task' = LookupTask(ss)
    /\ UNCHANGED <<meta, jobs, provider, limit, present, parked, edit, restarts>>

\* admin_library_metadata_auto_match: refused while a task runs, but the job
\* is created and started after several awaits.
AskAuto(e) ==
    /\ requests < MaxRequests /\ requests' = requests + 1
    /\ edit[e].pc = "idle" /\ ~Running
    /\ Become(e, [NoEdit EXCEPT !.pc = "list", !.op = "auto"])
    /\ UNCHANGED <<meta, jobs, provider, limit, present, task, parked, restarts>>

\* The series of the library that are not linked.
List(e) ==
    /\ EditStep /\ edit[e].pc = "list"
    /\ LET todo == {s \in present : meta[s] = None}
       IN  Become(e, IF todo = {} THEN NoEdit ELSE [edit[e] EXCEPT !.pc = "create", !.todo = todo])
    /\ UNCHANGED <<meta, jobs, provider, task, parked>>

Unused == {j \in Jobs : status[j] = "none"}

\* create_metadata_auto_match_job, in one transaction: no other may be running.
Create(e) ==
    /\ EditStep /\ edit[e].pc = "create" /\ Unused # {}
    /\ IF \E k \in Jobs : status[k] = "running"
       THEN Become(e, NoEdit) /\ UNCHANGED jobs
       ELSE LET j == CHOOSE k \in Unused : TRUE
            IN  /\ status' = [status EXCEPT ![j] = "running"]
                /\ item' = [item EXCEPT ![j] = [s \in Series |-> IF s \in edit[e].todo THEN "pending" ELSE "none"]]
                /\ Become(e, [edit[e] EXCEPT !.pc = "start", !.job = j, !.todo = {}])
                /\ UNCHANGED tally
    /\ UNCHANGED <<meta, provider, task, parked>>

\* The page of a library reads its last job, and starts it again if it is running.
ViewPage(e, j) ==
    /\ requests < MaxRequests /\ requests' = requests + 1
    /\ edit[e].pc = "idle" /\ status[j] = "running"
    /\ Become(e, [NoEdit EXCEPT !.pc = "start", !.op = "page", !.job = j])
    /\ UNCHANGED <<meta, jobs, provider, limit, present, task, parked, restarts>>

Start(e) ==
    /\ EditStep /\ edit[e].pc = "start"
    /\ StartAutoMatch(edit[e].job)
    /\ Become(e, NoEdit)
    /\ UNCHANGED <<meta, jobs, provider>>

\* SettingsService.update: this setting is live at once.
SetLimit(n) ==
    /\ requests < MaxRequests /\ requests' = requests + 1
    /\ n # limit /\ limit' = n
    /\ allowed' = [w \in Callers |-> {n} \cup IF Calling(w) THEN allowed[w] ELSE {}]
    /\ most' = IF \E w \in Callers : Calling(w) /\ n < most THEN most ELSE n
    /\ UNCHANGED <<meta, jobs, reserved, sent, present, task, parked, edit, restarts>>

EditNext ==
    \/ \E e \in Editors :
          \/ \E s \in present : AskLookup(e, s) \/ AskRefresh(e, s) \/ AskUpdate(e, s)
                                \/ \E p \in Providers : AskMatch(e, s, p)
          \/ EditLookup(e) \/ ReadRow(e) \/ EditMatch(e) \/ EditFetchFails(e)
          \/ \E b \in BOOLEAN : WriteEdits(e, b)
          \/ AskAuto(e) \/ List(e) \/ Create(e) \/ Start(e)
          \/ \E j \in Jobs : ViewPage(e, j)
    \/ \E s \in Series : Unlink(s)
    \/ \E ss \in SUBSET Series : StartLookup(ss)
    \/ \E n \in 1..MaxLimit : SetLimit(n)

-----------------------------------------------------------------------------
\* A scan finds that a series has no volume any more.
Vanish(s) ==
    /\ s \in present /\ requests < MaxRequests /\ requests' = requests + 1
    /\ present' = present \ {s}
    /\ UNCHANGED <<meta, jobs, provider, limit, task, parked, edit, restarts>>

RestartAnew ==
    /\ restarts < MaxRestarts /\ restarts' = restarts + 1
    /\ task' = NoTask /\ parked' = None
    /\ edit' = [e \in Editors |-> NoEdit]
    /\ allowed' = ReadAnew /\ most' = limit
    /\ UNCHANGED <<meta, jobs, reserved, sent, limit, present, requests>>

\* The process ends anywhere and starts again: lifespan resumes the job that was
\* running (active_metadata_auto_match_job).
Restart ==
    /\ restarts < MaxRestarts /\ restarts' = restarts + 1
    /\ task' = IF \A j \in Jobs : status[j] # "running" THEN NoTask
               ELSE MatchTask(CHOOSE j \in Jobs : status[j] = "running")
    /\ parked' = None
    /\ edit' = [e \in Editors |-> NoEdit]
    /\ allowed' = ReadAnew /\ most' = limit
    /\ UNCHANGED <<meta, jobs, reserved, sent, limit, present, requests>>

Init ==
    /\ \E row \in {r \in Row : r.edited} \cup {None} : meta = [s \in Series |-> row]
    /\ status = [j \in Jobs |-> "none"]
    /\ item = [j \in Jobs |-> [s \in Series |-> "none"]]
    /\ tally = [j \in Jobs |-> [r \in Results |-> 0]]
    /\ reserved = <<>> /\ sent = <<>>
    /\ limit = MaxLimit /\ most = limit /\ allowed = ReadAnew /\ present = Series
    /\ task = NoTask /\ parked = None /\ edit = [e \in Editors |-> NoEdit]
    /\ requests = 0 /\ restarts = 0

Next == TaskNext \/ EditNext \/ Tick \/ Restart \/ \E s \in Series : Vanish(s)

Spec == Init /\ [][Next]_vars

\* The task's threads run, the provider answers or times out, and time passes.
FairSpec == Spec /\ WF_vars(TaskNext) /\ WF_vars(Tick)

-----------------------------------------------------------------------------
(***************************************************************************)
(* Properties.                                                             *)
(***************************************************************************)
\* README: "Request reservations are persisted, so a restart cannot reset the limit": with each
\* request that is made, the last window holds no more of them than are configured, whoever made
\* them and whatever restarted meanwhile; only the first one after the limit was lowered may
\* still go by the old limit, if its caller read it before (PersistentRateLimiter.acquire reads
\* the limit and reserves in two steps).
RollingLimit ==
    [][Len(sent') > Len(sent) => Len(sent') <= most]_vars

\* README: auto-match jobs "preserve ... local edits": of what is modelled (forgetting a mount
\* deletes its series' rows, and is not), an administrator's own edit or an unlink takes an edit
\* away; links, refreshes, jobs and restarts do not (save_series_metadata).
EditsKept ==
    [][\A s \in Series :
          meta[s] # None /\ meta[s].edited =>
             \/ meta'[s] # None /\ meta'[s].edited
             \/ \E e \in Editors : edit[e].pc = "write" /\ edit[e].series = s
             \/ meta'[s] = None /\ requests' # requests]_vars

\* README: jobs "preserve existing links": the job replaces a link only if an administrator made
\* it while the job was searching for that very series (auto_match looks before it searches, and
\* save_series_metadata does not look again).
LinkLostOnlyIfRaced ==
    [][\A s \in Series :
          task # task' /\ task.series = s /\ task.pc = "save" /\ edit' = edit
             /\ meta[s] # None => task.raced]_vars

\* What an administrator sees of the jobs is what AutoMatch promises, across restarts,
\* pages that start a job again and requests that race.
Promise == INSTANCE AutoMatch WITH
    left <- [j \in Jobs |-> Pending(j)]

JobsAsPromised == Promise!Spec

Attended(j) ==
    \/ task.kind = "match" /\ task.job = j
    \/ task.kind = "lookup" /\ parked = j

\* README: jobs "resume after an interrupted process": a job that the task runs, or that is parked
\* behind a batch, is complete in the end, also if the process restarts.
JobsFinish == \A j \in Jobs : Attended(j) ~> status[j] = "complete"
=============================================================================
