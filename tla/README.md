# Nineveh in TLA+

Nineveh serves a library of CBZ archives: browser pages, an OPDS 2.0 catalog and a
JSON API over one SQLite database and one or more media directories, in one Python
process. An asyncio event loop runs the requests; blocking work (SQLite, Argon2, ZIP
files, image decoding) runs on a shared pool of threads. A second API lets an
agent, the *librarian*, propose volumes and place them in the library.

This directory models the parts of it where the order of steps decides whether the
program is right, checks them with TLC on small instances, and proves the most
important results with TLAPS for every instance. File names below are relative to
`src/src/nineveh/`.

## 1. Inventory

| Part | State it keeps | Operations | What is hard | What makes it correct |
|---|---|---|---|---|
| Admission gates (`admission.py`) | slots in use, per account held and queued, turns | acquire, release, abandon, dispatch | timeout or disconnect in the gap between grant and resume | no slot leaks or is handed out twice, no lost wakeup; nobody is passed over for ever but by accounts that forgot their turn |
| Request budget (`admission.py`) | a token bucket per account, least recently used first | take | eviction at the limit | at most a burst plus the rate per account |
| Login guard (`logins.py`) | flights by credential, a lock and a line per address, failure counts | verify, time out, cancel, forget | cancelled leaders, locks deleted and made anew | one attempt per address at a time, each after its delay; one verification per credential; everybody is answered |
| Accounts, ingress (`auth.py`, `ingress.py`, users and sessions in `database.py`) | rows, credential cache, sessions | verify, create, reset, enable, role, sign in and out, from either side | a slow hash between reading a row and using it; count, then update; one cache for both sides | the last administrator goes only by a change that was overtaken; caches and sessions follow changes; nobody administers from the public side |
| Staging quota (`librarian.py`) | uploads in progress per token | admit, accept, leave | what is staged is read outside the lock, and in part; entries compared by value | the reserve and the ceilings are missed by a bounded amount |
| Ingest (`librarian.py`) | staged archives and records, files in the library | stage, commit, discard, sweep | no lock; crashes; power loss; two file systems, and a directory that is made on the way | nothing overwritten, nothing partial under a name; what was staged goes only by a named loss of power |
| Mounts, libraries, scan (`storage.py`, `catalog.py`, `app.py`) | mount and library rows, publications, search rows, the scan task | add, update, disconnect, reconnect, forget, scan | the file system changes under the scan; what was not seen is removed; requests for a scan are dropped; one archive may end every scan | what lay there all along is indexed as it is, the search index is exact, and what is placed is found in the end, with automatic scans; mounts overlap only if they were never compared |
| Metadata (`metadata.py`, `app.py`) | links and edits, request reservations, jobs and their items, the metadata task | look up, link, refresh, edit, unlink, batch, auto-match, restart | network calls between read and write; restarts inside a job; parked jobs; the limit is read, then used | the provider's limit is kept, edits and links survive, each series of a job is settled once |
| Archive pool, caches, reader (`archives.py`, `reader.py`, `app.py`) | open archives, cached files, positions, spread analyses | open, evict, render, save a position, analyse | four reads of four places per request while archives are replaced | no handle is closed in use; what is kept is what its name says; budgets are kept |
| Authorization, listings (`authorization.py`, `database.py`) | grants, roles, visibility | replace grants, list, search, open | a dozen queries repeat the same rule | they all show a reader the same series |
| Librarian tokens, audit (`librarian.py`) | tokens, scopes, events | issue, update, revoke, use, purge, trim | several transactions per change, bounded tables | a token acts within its scopes of the moment it was let in; the trail says what a token may do |
| Security log, body limits (`security.py`, `limits.py`) | a bounded table; a byte count per request | record, trim; count | limits | bounded |
| Ranking, ordering, feed formatting, imaging, config, schema | rows only, or none | pure or I/O | | |

Interactions: every request passes ingress, then `verify_password` or a session lookup
(login guard → password gate → accounts), then a gate for expensive work, then a service
on a worker thread. Services share nothing but the database, the staging and media
directories, and a few locks. A commit starts a scan; a scan starts spread detection.

`PROJECT.json` lists every part with its status, and under `hazards` the lines at which
ordering, failure or a limit can go wrong.

## 2. Modules

| Module | Models | State | Actions |
|---|---|---|---|
| `FairGate` | `admission.py` `FairGate` | `inUse`, `held`, `waiting`, `order`, `served` are `_in_use`, `_held`, `_waiting`, the order of that dict, and `_last_served` as an order of accounts; `st` is where each request is | `Acquire`, `DispatchGrant`, `DispatchEnd`, `Resume`, `Interrupt`, `Release`, `AbandonGranted`, `AbandonQueued` |
| `RequestBudget` | `admission.py` `RequestBudget` | `bucket` and `behind` are `_buckets` and its order, `now` the clock, `wait` what the last request was told; `since`, `full`, `taken` are history | `Take`, `Tick`; `Observe` starts the history anew |
| `Accounts` | `auth.py` and `ingress.py` with the rows and the handlers that call them | `row`, `cache`, `session` are the tables and `_basic_cache`; `req` the verifications, `adm` the administrators' requests, each with the side it came by, and their `raced`, which is history | the steps of `verify`, `session`, `reset_password`, `set_enabled`, `set_admin`, `create_user` |
| `StagingQuota` | `librarian.py` `StagingQuota`, `_store` and `stage` | `active` is `_active[token]`, `written` the `_Upload`s, `held` what each call was told, in files and bytes, `size` the files; `missed`, `astray`, `failed` are history | `Ask`, `Admit`/`Refuse`, `Accept`/`Reject`, `Write`/`WriteFails`, `Stored`, `Record`, `InspectFails`, `Remove`, `Restart` |
| `Ingest` | `librarian.py` `IngestService` | `archive`, `sidecar`, `file` are the directories, `dir` the series' own, `synced` the entries on disk, `erased` the records that were removed, `job`/`withdraw` the running calls; `owed`, `placed`, `exposed`, `struck` are history | one per system call of commit, discard and sweep; `Crash`, `LosePower` |
| `Placement` | what staging and placing a volume promises | `staged`, `copying`, `shelf`, `kept`, `firm`; `owed`, `placed`, `exposed`, `struck` | `Stage`, `Tell`, `Read`, `GiveUp`, `Place`, `Settle`, `Confirm`, `Clear`, `Withdraw`, `LosePower` |
| `LoginGuard` | `logins.py` | `flights`, `waiting`, `locks` are the dicts, `locked`/`waiters` the `asyncio.Lock`s, `byAddress`/`byAccount` `_failures` | `Arrive`, the resumptions, the checks, `TimeOut`, `Interrupt`, the forgetting |
| `Catalog` | `storage.py`, `catalog.py`, the scan task of `app.py` | `mount`, `lib`, `pub`, `index` are tables, `adopted` the marker in `application_metadata`; `disk`, `plugged`, `locked` the world; `scan` the task, `edit` the administrators' requests; `lately`, `missed`, `unheld` are history | `ListDirectories`/`AdoptLibraries`; one per directory listing, `stat`, inspection and transaction of a scan; `Ask*`, `Write`, `Answer*` for mounts and libraries; `Tick`; `WriteFile`, `DeleteFile`, `Unplug`, `Lock`, `Mend`, `Restart` |
| `Metadata` | `metadata.py`, the metadata task of `app.py` | `meta`, `status`, `item`, `tally`, `reserved`, `limit` are tables; `allowed` is what each caller read, or may read, of the limit; `sent`, `most` are history; `task`, `parked` are `metadata_task`, `pending_metadata_job` | the steps of a batch and of a job, of an administrator's lookup, link, refresh, edit and unlink, `AskAuto` to `Start`, `ViewPage`, `SetLimit`, `Tick`, `Restart` |
| `AutoMatch` | what a job promises | `status`, `left`, `tally` | `Create`, `Settle`, `Complete` |
| `Reading` | `archives.py`, `reader.py`, the spread task of `app.py` | `pool` is `ArchivePool._entries`, `cache`/`known` the cached files and `DiskCacheBudget._known`; `pub`, `analysis`, `dims`, `progress` are tables; `pending` is `spread_pending` | one per transaction, `stat`, critical section and file operation of a request for a page or a smaller copy; saving positions; the spread task; `Replace`, `Index`, `Restart` |
| `Access` | `authorization.py`, the listings of `database.py`, `librarian.py` `LibrarianAuth` and `AuditTrail`, the agent's routes | `user`, `grants`, `managed`, `online`, `indexed`, `private`, `token`, `trail` are tables; `adm`, `agent` the requests; `asked` (the grants as the request gave them), `raced`, `crossed`, `cut`, `stale` are history | replacing grants, libraries and mounts, issue, update, revoke, purge, the agent's operations; every listing is an operator |
| `MC*` | instances for TLC | | |
| `FairGateProofs`, `IngestProofs`, `MetadataProofs`, `CatalogProofs`, `AccessProofs`, `ReadingProofs`, `AccountsProofs`, `LoginGuardProofs` | theorems about the module of that name; `FairGateProofs` also about `RequestBudget`, `IngestProofs` about `StagingQuota` (section 4) | | |

The step of a model is what the code does without giving way. On the event loop that is the
code between two awaits; on worker threads it is one database transaction, one
critical section or one system call. Some choices that a reader of the code should know:

- *Asyncio.* `task.cancel()` cancels a pending future at once but reaches a task whose
  future already has its result only when that task next runs. Both gaps are states of
  their own (`cancelled` and `revoked` in `FairGate`, `late` and `revoked` in
  `LoginGuard`), since `_abandon` and `Lock.acquire` exist for them. Timeouts are
  cancellations that may happen at any time. `asyncio.Lock` itself (`AtOnce`, `Woken`,
  `Left`) is not in the repository and is modelled as the guard uses it.
- *`FairGate`.* `_turn` only orders accounts, so `served` keeps the order and not the numbers, and an account that is not in it has forgotten its turn; a
  `per_key` of None is a `PerKey` of at least `Capacity`.
- *`RequestBudget`.* A minute is `Minute` ticks and a token `Minute` units, so that a tick adds `PerMinute` of them: the
  code counts the same in floating point. `Observe` may start the count of an account's requests at any time, so that what is said of the
  count is said of every stretch of time.
- *`Accounts`.* Passwords stand for their hashes. An entry of the cache and a session carry `raced`,
  read by properties only: whether a change of the account fell between the read of the
  row and the use of it, or an overtaken rehash has written over the row since. The cache
  is an `OrderedDict`, so a credential is in it at most once, and `CacheWithout` drops that one. A request of an administrator acts for the identity it was given
  at the start, which is not looked up again. The side of a request (`Sides`) is given; every
  request passes `AdmitsRoute` and `AdmitsAccount`.
- *`StagingQuota`.* One token (tokens share nothing but the disk), bytes in chunks. A call is told of some of what is staged: `pending` leaves out the
  records of a series that is gone or whose library cannot be reached, and those that do not load (`Told`; any subset, since other requests
  decide which). `list.remove` on dataclass instances compares by value, so `Leave` removes the first entry
  with the same number of bytes; when there is none the removal raises, the call fails, and an entry stays until the process ends.
- *`Ingest`.* One series' directory. A commit makes the directory if it is not there (`mkdir`, `dir = "new"`) and syncs only the directory itself, never
  the parent that names it, so `dir` stays "new" until a power loss decides. `LosePower` may tear what was not synced, take back
  entries that were not synced, the new directory with all that is in it included, and undo the unlinks of the staging directory, which is never synced:
  an archive or a record that was removed may be there again. Expiry after a day is a withdrawal at any time.
- *`LoginGuard`.* A delay is modelled by its exponent; counts stop at `MaxFailures`, as delays do.
- *`Catalog`.* A version stands for modification time, size and content; `Unsafe` versions are those that
  `inspect` refuses, `Breaking` ones those at which it raises what no caller catches (`zlib.error`, `EOFError`, `LookupError`, `ValueError`;
  `catalog.py:349`, `:530`): they end the scan, and every later one. `Tick` is there only if scans are scheduled (`Scheduled`: the interval is not 0).
  Before it chooses, a scan adopts the directories of the original mount as libraries, once (`initialize`). The root is checked, the series are listed, and each archive is looked at and inspected in
  steps of their own, so that anything may change between them. `lately` is history: what befell each
  file since the scan came to its library, which is what the properties compare the result with; `missed` and `unheld` are
  the mounts that were written since a request was validated, and the pairs that were never compared.
  A scan that meets a moved mount or a deleted library ends by an exception, as in the code.
- *`Metadata`.* Time passes in ticks and a reservation is its age; the table of them is a sequence, oldest first, of
  which the window drops a beginning (`Expired`). The limit is read and the reservation made in two transactions (`metadata.py:154-155`): `allowed` is
  the limits that a caller's next reservation may go by, those configured since it began to wait. `MatchCover` ignores a `MetadataError` only; another
  error fails the item, or the request. A merged series is fetched twice. Requests of
  administrators use the same `Match` as the task, as both call `MetadataService.match`. Titles, values
  and the suggestions kept for review are left out: no step decides by them.
- *`Reading`.* Each volume has one page that is asked for. What a request made carries the content it was
  made from; its name carries the revision that was read first. `raced` is history: the file was replaced
  between `archive_path` and the opening of the archive; it stays with the entry when a request that opened it
  validates it later. Of positions only the type is checked: `http_web.py` clamps them where
  they are shown. The pool and the caches are sequences; what an eviction takes and keeps is said by sets of their
  places (`Removable`, `Kept`).
- *`Access`.* Every listing is written as its query is, from the predicates it really uses, not from a
  common definition: `PublicationFilter`, `CatalogSeries`, `SearchSource` and `Grouped` differ as
  `_publication_filter`, `catalog_series`, `_search_source` and `_grouped` do. Accounts and mounts change
  in single steps here, since `Accounts` and `Catalog` have them in full. The trail is a function
  from the time of an entry, given by `clock`, to the entry, and is trimmed with the insert, as the trigger does. A request's libraries are those it
  reaches and that are managed, connected or not (`librarian.libraries`). `ReadPending` has all answers of that route: what is pending, and what the
  trail says of an id that is not, which is given for any id and not recorded (`http_api.py:3236`).

How the modules meet: `Catalog.WriteFile` stands for a volume that `Ingest` placed (whole, under its name at
once: `NamesAreComplete`); `Reading.Index` and `Access.Index` are what `Catalog`'s `Upsert` and `Prune` do to one volume
or series; `Reading.AskSpread` is what the end of a scan, `FinishScan`, starts; `Access`'s `StageUpload` and
`CommitUpload` are let in there and carried out in `StagingQuota` and `Ingest`.

`Ingest` implements `Placement`, which does in whole steps what `Ingest` does in system calls: `staged`, `shelf` and `kept` are the
archives, the names and the synced names, `firm` is `dir = "kept"`, and `copying` is what the calls that passed their copy hold (`Copying`). A name is given only by
`Place`, whole and as the archive was when it was read; a staged archive that is owed goes only when its volume is on disk or somebody
withdraws it. That the archive was itself torn by a power loss, and is placed as it is, is a behaviour of `Placement` too, since
nothing compares it with its digest. What a power loss takes with a directory that was not firm, or from staging, is `exposed` or `struck` in both.

`Metadata` implements `AutoMatch`: the refinement mapping takes the series still to settle to
the pending items (`left <- Pending`), and TLC checks `AutoMatch`'s specification as the property
`JobsAsPromised` through interleaved requests, parked jobs, a job started twice, and restarts.

## 3. Runs

| Run | Bounds | Shows |
|---|---|---|
| `gate_safety` | five requests, four accounts (one with two requests), two slots, one per account, queues of two | slot accounting, queues, no lost wakeup, bounded memory; under fairness no starvation but by accounts that forgot their turn |
| `accounts` | two accounts, two passwords, two sides, one verification, two administrators' requests (the second only beside the first, while nobody signs in and nothing is remembered: `SecondChangeAlone`), old hashes, a cache of one; for the budget three accounts, two remembered, two requests in a minute of three ticks | the last administrator goes only by an overtaken change; staleness only by overlap; passwords kept but for a reset, or by overlap; the public side is for readers; no account passes its rate, none is refused early, forgetting in turn |
| `accounts_two_admins` (violation) | two changes together | *both administrators go* |
| `quota_concurrent` | four uploads, two calls together, two files and two chunks allowed, uploads of two chunks, a disk of six chunks, a reserve of two, writes that fail at any time | the reserve and the ceilings in files and in bytes are missed by a bounded amount |
| `ingest_power` | two uploads, two names (free or taken) in a directory that is there, new or absent, two commits, one withdrawal, crashes and one power loss | nothing overwritten or partial; nothing lost but by a named loss of power; what was answered is durable unless its directory was new; the refinement of `Placement` |
| `logins` | three requests from one address, two credentials, grace 1, a line of two, one disconnect | one at a time, after the delay due, exact line, no lost turn; one verification per credential; everybody is answered |
| `catalog_scan` | two mounts, three directories (one inside another), a library of one series of two files and an empty one, four versions (one refused, one that breaks the scan), one change of the disk or restart, two administrators' requests, together while there is no file (`FewRequests`) | what a scan leaves behind, the search index, eventual indexing, how mounts come to overlap |
| `scan_unplugged` (violation) | the same with two versions and one request at a time | *a disk that goes away during a scan is pruned* |
| `metadata` | two jobs, two series, two requests together, two in all, a window of two ticks, a limit of up to two, one restart | the limit, edits, links, the refinement of `AutoMatch`, jobs finish |
| `reading` | two volumes of two versions, two readers and the spread task, a pool of one, caches of one, three requests, one change or restart | handles, caches, dimensions, the spread queue |
| `access` | three series in two libraries and two categories, one reader, one token, two administrators' requests, one agent, three operations, one restart, a trail of one entry of usage; grants that name a series with and without its category | grants, listings, the trail, the agent |
| `disconnect_hidden` (violation) | the same | *a disconnected mount's series stay in the navigation* |

Why the bounds are enough to be interesting: the gate needs four accounts, two more than slots, for one of them
to be passed over for ever (two that hold the slots while it waits, and two more that come and go in their turn), and a second request of one account to queue behind the first; the
line needs one request that has the lock, one whose turn is cancelled as it is given, and one
behind it; two commits with two names give every race on a name and on a
source, and two of the directory, which one makes and the other finds; two accounts suffice to lose all administrators. One file of a series may go while
the other stays, which is what a search row gets wrong; one change at any step of a scan reaches every gap between
its reads. A batch, a job parked behind it, and a request on the same series need two requests and two series. A pool of
one with two volumes evicts at every turn, and two readers and the spread task fill it with handles in use. Two libraries, two categories and
three series give grants of each width, and one that covers another.
A bucket of two tokens with a minute of three ticks makes the refill a
fraction of a token, and a third account pushes out the oldest of two. Of two mounts one can be moved while the other is disconnected, next
to or into its directory, and two requests can each write what the other was not compared with. Two calls of which each is told of some of four files pass
both ceilings, and two uploads of equal length take each other's entry. Symmetry is used only for passwords, uploads, names, calls, readers, volumes and administrators' requests, in
runs that check no liveness (`accounts` and `ingest_power` check action properties, which say of a step what they say of its images).

`accounts` runs two modules, `Accounts` and `RequestBudget`, as `authenticated` does: who asks, then what the account may still ask
for (`MCAuthenticated`). They share no state, so each of them runs while the other is as it was at the start.

Bounds in guards: `Workers` (threads that store uploads of the token), `PowerLosses`, `MaxFailures` (where delays stop growing), `MaxInterrupts`
(disconnects), `MaxChanges`, `MaxEdits`, `MaxRequests`, `MaxOps`, `MaxRestarts` (what the environment does), `MaxTime` and `MaxTaken` (how far
clock and count go); `QueuePerKey`, `MaxWaiting`, `MaxKeys`, `MaxCache`,
`Capacity`, `Budget`, `TrailBound` are limits of the code. Bounds of an instance only are action constraints in its MC module: `SecondChangeAlone`, `FewRequests`, and
`FirstFree` (`metadata`: the places of administrators' requests are alike, so the second is taken only while the first is). They restrict when administrators begin a request, or which,
and never a step that fairness speaks of. `MCInit` of `catalog_scan` starts from one of the starts that differ in names only, with one damaged archive at most.
Where the environment's bound lets everything end, deadlock is not checked (`metadata`, `reading`, `access`).

Fairness. `FairGate`: `_dispatch` runs to its end, resumed tasks run (the loop's ready
queue is first-in first-out, and a task that is interrupted still runs: strong fairness
of the task's next step), and a slot's body ends. `LoginGuard`: a step that is ready is
taken and timeouts fire. `Catalog`: the scan's thread runs and, if automatic scans
are configured, the scheduler's timer fires (`_scan_scheduler` returns at once if the interval is 0: `Scheduled`). `Metadata`: the
task's threads run, the provider answers or its timeout fires, and time passes. None promises that a client asks, or stays,
that a disk returns, or that a request reserved nothing when the task wants to:
`JobsFinish` rests on requests that end (`MaxRequests`), as the limiter's lock serves no one in turn.

### What does not hold

The violation runs are kept because each shows a statement of the repository that the code
does not keep; `PROJECT.json` quotes the lines.

Several properties say exactly how far a statement holds, by naming the case in which it does not:

- `NoStarvation` (`admission.py:9-12`): an account that goes idle forgets its turn (`_forget_if_idle`, `admission.py:140`) and sorts ahead of one that has
  waited all along. With two accounts more than slots that can go on for ever, until the waiting request times out; TLC finds it in the instance of `gate_safety` when the
  exception (`OvertakenByForgotten`) is taken out of the property. Nothing else starves anybody.
- `AdminLostOnlyIfRaced` ("The final enabled administrator cannot be disabled"): only by a change that another overtook between its count and its update.
- `StaleOnlyIfRaced` ("A cached Basic credential carries the old role for minutes otherwise", `auth.py`) and `PasswordsKept` (a sign-in that rehashes an old hash
  writes the old password over a reset that fell in between, `auth.py:93`): only by a sign-in that overlapped a change, as marked by `raced`.
- `OvershootBounded` and `BytesBounded` ("two concurrent uploads cannot both slip under the ceiling", `librarian.py`): the ceilings are passed by less than the calls
  that run together, and besides by the files that `pending` did not list for some call (`missed`); the bytes of uploads whose entry `list.remove` took for another's
  (`astray`) are no longer added up, and an entry that no removal finds stays (`failed`).
- `NothingLost` and `PlacementAsPromised`: a loss of power may take what is staged, which is never synced (`struck`), and a volume that was answered as placed in a directory that
  a commit had made, whose entry in its parent is never synced (`librarian.py:751`; `exposed`). What was removed from staging may be there again after it.
- `EventuallyIndexed`: only with automatic scans, and unless an archive that can be reached raises what the scan does not expect (`catalog.py:530`), which
  ends every scan at that place (`Poisoned`).
- `MountsApart`: two mounts overlap only if they were never compared as they are (`unheld`): the check and the insert are separate transactions (`storage.py:179-181`),
  and a restart points the original mount at the configured directory without asking.
- `RollingLimit`: the first request after the limit was lowered may go by the old one, if its caller read it before (`metadata.py:154-155`).
- `LinkLostOnlyIfRaced` (jobs "preserve existing links"): unless an administrator made the link while the job was searching for that series.
- `GrantsAsAsked`: a grant that leaves out the category is stored as the whole library, even if it names a series (`authorization.py:84`; `GrantInput` lets it).
- `AgentCurrent`: a request goes on by the scopes of the row it was let in with.
- `RateExact` (an account that was forgotten starts with a full bucket), `KeptTruthful` (an archive replaced while it is opened), `TrailExplains` (two requests changing one token, or a
  process that ends before the entry is made), `ScanSound` (scans that reach their pruning, and files that lay still).

The history variables and fields `raced`, `lately`, `crossed`, `cut`, `stale`, `missed`, `unheld`, `exposed`, `struck`, `most`, `astray` and `failed` exist for this: no guard reads them.

What some properties leave out: an exception in the recording of the trail itself (`TrailExplains`); the metadata of a mount that is
forgotten, whose rows go with it (`EditsKept`); and of the reader page `ListingsAgree` says in one direction only that each series that is listed opens (the other is `HiddenWhenDisconnected`).

Observations made while modelling, which no run is about:

- `active.remove(upload)` compares uploads by value (`librarian.py:630`): with equal lengths the wrong entry goes, and a later removal may raise.
- Two commits of one upload under two names both succeed (`librarian.py:743`).
- The check that no scan runs before a mount is changed (`http_api.py:2712`) can go stale before the mount is written.
- A mount with scanning switched off is not scanned on demand either (`catalog.py:542-551`, against `README.md:239`).
- A commit answers `scanStarted` whether or not the scan was dropped; the scheduler, if there is one, makes up for it (`EventuallyIndexed`).
- The marker that the original mount's directories were adopted is set by the first scan even if they could not be read (`catalog.py:476`, `AdoptLibraries`): then none is adopted later.
- What became of an upload is told from the trail to any token with the scope, whichever libraries it reaches (`http_api.py:3236`, `ReadPending`).
- An auto-match job parked behind another *job* (not a batch) is not started when that one ends, but by the next view of its page or a
  restart; `JobsFinish` is stated for jobs that are run or parked behind a batch.
- Any token that reaches a library may discard and see any upload for it.

## 4. Proofs

Every theorem holds for all values of the constants that the module's assumptions admit (`GateAssumption`, `IngestAssumption`
and so on: finite requests, positive limits, distinct model values), which TLC evaluates in every run. Each proof has the same
shape: an inductive invariant that TLC checked on the runs' instances first, one lemma per action that preserves it, and the
properties as its consequences. What the invariant adds to the properties, and why:

`FairGateProofs`: `TypeCorrect`, `SlotsAlwaysAccounted`, `QueuesAlwaysMatch`, `AlwaysWorkConserving` and
`NothingEverRemembered`. Slots and queues are inductive together:
that a slot is counted when it is handed out needs that the request at the head of a
queue waits and owns nothing (`QueuesMatch`), and that in turn needs that a request is in its queue
once. Work conservation rests on them and on the end of the dispatch loop: a step out of a quiet
state that frees a slot, makes an account eligible or adds a waiter enters the loop. The bound on what is remembered needs to say which
account may be remembered for nothing for a moment (`leaving`, between the end of a request and `_forget_if_idle`), and that the
order of the queues and the queues themselves name the same accounts (`MemoryFits`).

Also there, about `RequestBudget`: `RateAlwaysKept` and `NeverRefusedEarly`, together `RateAlwaysExact`, and `AlwaysForgottenInTurn`, for any rate and any number of
accounts. The first needs what the bucket still holds: admitted requests and the units in the bucket together are at most the full buckets
given and what time has refilled. The second needs the converse balance, which holds until the bucket is full again, and that a full bucket
takes a minute to be spent at most at the rate. The third rests on the order of the buckets being the order of their stamps, each bucket naming
all that come after it, so that whoever is the oldest has as many behind it as are remembered.

`IngestProofs`, with or without power
loss: `TypeCorrect`, `NamesAlwaysComplete`, `PlacedAlwaysDurable`, `NothingEverLost` and
`NeverOverwrites`. The invariant adds what each program counter promises
(`JobsOK`: a call past its copy holds a synced copy of its own upload; past its link, the name holds that upload or
a power loss ended the call; past its directory sync, the upload is on disk; and the directory is there from the time it was made), what a withdrawal has
done (`WithdrawsOK`), that an owed upload keeps its record until it is placed (`NothingLost`: no sweep takes it for an
orphan), that an upload still being staged is known to nobody else (`StagingOK`), that a synced name
exists and none does in a directory that is absent (`SyncedOK`), and that what was answered and is not `exposed` was answered in a directory that is on disk for good (`FirmOK`).
`NothingLost` is not inductive without it: removing the archive is safe
because the remover's own call has seen the name synced, and a power loss either keeps the directory or says what it took.

`CommitsImplementPlacement` is the refinement of `Placement`, step by step. It rests on that invariant in two places: a link gives a name to a
copy that is still what the call read from staging (`JobsOK`), and an archive is removed by a commit or a sweep only if it is not owed or
its name is on disk.

Also there, about `StagingQuota`: `QuotaTypeCorrect`, `ReserveAlwaysKept` and `OvershootAlwaysBounded`. Bytes are counted as the set
of chunks that are on disk, so that the free space is a cardinality and each chunk adds one to it; no fold is needed. The reserve needs that
the writers, each with one accepted chunk to write, are no more than the files a token may have in progress. The ceiling needs a
stronger count than its own (`CountsBounded`): the calls are no more than `Workers`, and the uploads that count and no call has missed, with the calls that were told of fewer than
`MaxFiles` files (`Claims`), stay fewer than `MaxFiles + Workers`. A call that asks marks what it is not told of as missed, and joins the claims only when it was told of fewer than
`MaxFiles`: then all that count are those it was told of or are among the calls; being admitted only moves one of them. That the list has one entry for each upload in
progress and each failed removal (`ListExact`) goes through a removal by value: it takes one entry off, whichever, or none.

`MetadataProofs`: `TypeCorrect`, `TalliesExact`, `WindowKept`, `EditsSurvive`, `LinksSurvive`, and the refinement
`JobsImplementPromise`: every step is a step of `AutoMatch` or a stutter, with `left <- Pending`. That a job completes only when
nothing is left needs that what is pending is in the queue of the task or in its hand from the moment it loaded the job (`TaskOK`), that
only the one running job has items left (`JobsOK`), and that nobody starts a job that was not created (`ParkedOK`, `EditsOK`). The
limit needs that what was sent is what was reserved, a lemma on what a window drops from a sequence of ages, and that no limit a caller may have read is above
the highest one configured since the last reservation (`LimitsOK`).

`CatalogProofs`: `TypeCorrect`, `IndexAlwaysExact`, `ScanAlwaysSound`, `MountsStayApart`. `ScanAlwaysSound` is about a scan that takes many
steps while the world changes: the invariant says at each program counter what the scan knows of a file that lay there all along
(`SteadyOK`: seen once its series is listed, indexed once settled) and of one that never did (`AbsentOK`), so that the
prune that ends a library keeps the first and removes the second. `MountsStayApart` is proved for any number
of requests at once: a request that passed its check overlaps no mount but those that were given a directory since (`AskedApart`), which `missed` names and
a write turns into pairs that were never compared.

`AccessProofs`: `TypeCorrect`, `GrantsMeanWhatWasAsked`, `ListingsAlwaysAgree`, `AgentStaysCurrent`, `TrailAlwaysExplains`.
`Normalize` is shown to cover what the request names for every set of grants (`CoversWhatIsMeant`), where a grant without a category stands for its library, and each listing to show what `CanRead` says. That
a trail which forgets usage still explains every token needs what a request between its transactions still owes the trail
(`DebtsOK`) and that usage entries say nothing about permissions (`UsageIsSilent`).

`ReadingProofs`: `TypeCorrect`, `PoolAlwaysSafe`, `KeptAlwaysTruthful`, `BudgetAlwaysKept`, `SpreadAlwaysAttended`.
Most of it is about places: what an eviction keeps of a sequence, where
a handle is afterwards, and that two handles of one revision never stand in the pool (`PoolFine`). The truth of a file needs what each
request carries at each of its steps, from the row it read to the file it stores (`RequestsOK`), and the budget counts the files being
added as an injection into the readers.

`AccountsProofs`: `TypeCorrect`, `StaleAlwaysRaced`, `PublicAlwaysForReaders`, `PasswordsAlwaysKept`, `AdminAlwaysLostByRace`, with any number of
verifications and changes at a time. Everything built on a verification is vouched for by its
row unless it is marked (`RequestsSound`, `CacheSound`, `SessionsSound`), and what the cache holds of an account between the clear of a
change and its update is marked already (`PendingRaced`): without that clause the update itself would break the property. A rehash that
was not overtaken is vouched for, so it writes the password the row has. `AdminAlwaysLostByRace`
needs that a change past its count that nothing has overtaken leaves another enabled administrator until its update (`AdminInv`).

`LoginGuardProofs`: `TypeCorrect`, `LineAlwaysSound`, `DelayAlwaysPaid` and `VerifiedAlwaysOnce`. The parts of `LineSound` hold only
together (`Sound`): the waiters of a lock are the requests that wait for it, each once (`Linked`); a turn is given to the head of the line
while the lock is free, and to somebody if there is a line (`Turns`); a lock is locked by one request (`Had`); and the count and the lock
object of an address are those of the requests in line (`Lines`). A handler that does several of these at once is put
together from moves that each keep `Sound` - enter, join, take, release, step out, leave - with a request on its way out of the
line as the state between them. That a delay is still enough when it is served rests on one attempt at a time: only the request
with the lock can add to the counts of its address.

The proofs corrected the models where TLC's instances had been too small to tell:

- `KeptTruthful` failed beyond one change: an entry that was opened in a race, validated by another request and evicted passed its race
  on unmarked. The history field now stays with it.
- `StaleOnlyIfRaced` failed with two verifications: an overtaken rehash writes the old password over a reset, and what another sign-in
  remembered in between is stale although it overlapped nothing. The property now names this case; the code is as `auth.py:93` has it.
- `AutoMatch` and `Access` had `SUBSET X \ {{}}` for the non-empty subsets of X, which also admits the empty one.

Only model-checked are liveness under fairness (`NoStarvation`, `Answered`, `EventuallyIndexed`, `JobsFinish`), which is out of the
prover's reach, and `BytesBounded`, whose invariant would have to relate the bytes of several calls, of what each was told and of what the list still adds up. Every other property of a passing run is a theorem. Some theorems say more than a run checks on its own: the types of
every module, and `PlacedAlwaysDurable` and `NeverOverwrites`, which `Placement` already contains: what is kept on its shelf stays
there while its directory does, and `Place` takes a free name only. `AdminRemains` with several changes together and `NoOverlap` with
several requests, or across restarts, are false; what holds instead are `AdminLostOnlyIfRaced` and `MountsApart`.

## 5. Not modelled, and the plan

Left out for good: ZIP and ComicInfo parsing (which archives are refused is a set), image decoding and spread analysis, query parsing and
ranking, feed and page rendering, configuration parsing, the supervised restart, static JavaScript (data and formatting, or third-party code).
Left out because one request decides alone and a unit test reaches it: body limits, the security log
(a table bounded by a trigger, like the librarian's), migrations. Left out of modelled parts: covers (a third cache, made like the smaller copies),
range downloads, expiry of tokens and sessions by time (a revocation or an end at any moment stands for it), how the side of a request is
told from addresses and headers, reader preferences, the values of metadata.

Of the safety properties that the runs check only `BytesBounded` waits for a proof. What could come next is more of the code: the covers, and the
expiry of tokens and sessions as times of their own, each with the runs and theorems it needs.
