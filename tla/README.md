# A verification project for TrafficTwin

TrafficTwin is a Python program that keeps a digital twin of Manchester's traffic: it collects live and
historical feeds, publishes map scenes and aggregates, runs simulations, and keeps registries of what was
planned, approved, run and admitted. Most of it is computation on validated documents. What is hard to get
right is the part that keeps *state across calls*: files that several processes read and replace, locks, logs,
workers, sessions that control an external process, retries towards a public API. This project models that part
in TLA+, checks the models with TLC and proves theorems about them with TLAPS.

Paths below are relative to the repository; `traffictwin/` stands for `src/traffictwin/`.

## 1. The system's components

| Component | State it keeps | Operations | Interacts with | Hard behaviour | What makes it correct |
|---|---|---|---|---|---|
| BODS live control (`traffictwin/integration/manchester/bods_live_control.py`, `bods_live.py`, `transport.py`, `scene_publication.py`) | state file with lifetime totals, last attempt, 24-hour history; scene file; advisory lock | `coordinated_bods_live_refresh`, `load_...state` | provider over HTTP; every caller in every process of a workspace | interleaved callers, crashes between two writes, failed writes, clock changes, retries and redirects inside one attempt | one refresh at a time; attempts on record and spaced; the file always validates; the scene backs the state; a call ends |
| BODS snapshot acquisition (`bods_acquisition.py`) | immutable snapshots, quarantine | `acquire_bods_snapshot` | transport, snapshot store | repeated and partial answers | published once, never changed |
| BODS scheduled sessions (`bods_scheduled_sessions.py`, `scripts/bods_scheduled_runner.py`) | pid file, completion and skip markers, session artifacts | supervisor loop, planning, session, post-steps, retention report | BODS live control, operational archive | supervisors killed and relaunched, two launched at once, windows that overlap, late wake-ups, failing post-steps | two supervisors only after a race for the pid file, and without one: a resolved window is never run again and the record is true; the marker comes first and accounts |
| Private snapshot retention (`bods_retention.py`, the operations page) | directories of the snapshot store, a plan per session | preview, confirm, apply | a live refresh, other sessions; no lock | deletion during publication, failures inside a directory, two sessions at once | what is displayed or in use stays; the newest stays; a receipt is true |
| National Highways live control (`national_highways_live.py`) | state file with totals, last attempt, bounded history; two overlay files; advisory lock | `coordinated_national_highways_refresh` | provider, operators, workers | the outcome is written only at the end: a crash leaves no record; two files replaced one after the other | outcomes never overwritten; attempts keep the interval to those on record; overlays never older than the record |
| Automatic refresh workers (`bods_auto_refresh.py`, `national_highways_auto_refresh.py`) | one worker thread per server process, its status | `ensure_...`, the loop, `..._status` | live controls | due times from a file that others write, a refresh that raises, a clock that is set back | a worker comes back from every failure and keeps its pace |
| Source refresh and map scenes (`source_refresh.py`, `scene_publication.py`, `webtris_*.py`, `tfgm_*.py`, `dft_*.py`) | scene file of each mode | three refreshes of the operations page | snapshot store, scene files; no lock | the scene is read and replaced by two sessions; acquisitions fail half-way | what is on the map is backed; earlier layers stay |
| Snapshot store (`snapshots.py`, `snapshot_registry.py`) | immutable directories of two areas, publication lock files | quarantine, validate, promote | every acquisition | a crash leaves lock file and staging tree | published whole and once; what is left blocks nobody else |
| Operational history (`operational_history.py`) | hash-chained journal, one file for each published UTC day | append, preview, publish | every terminal attempt | appends under a lock, publication without one; late appends; failures after the replacement | the chain verifies; a published day lacks only what came late |
| Historical store (`platform/historical_store.py`, `historical_store_sqlite.py`) | SQLite catalogue, content-addressed payload files, backups | open, register, read, back up | several handles in processes of their own | cleanup after the write lock is gone, reads of three tables outside a transaction, backups beside writers | the catalogue replays; answers are consistent; backups restore |
| Live-twin controller (`traffictwin/platform/live_twin.py`) | ownership of the spec digest, session state, ledger, budgets, terminal receipt | start, read_snapshot, apply_command, apply_aggregate_mobility, stop | control process, event sink, other controllers | process death, lost replies, retries, failing termination, failing events | applied once, within budgets, receipted completely, ended once |
| Local SUMO transport (`local_sumo_transport.py`) | a SUMO process group, its connection | start, commands, terminate | controller | start-up failures, processes that do not die | nothing is done through a process that outlives its session |
| Scenario and run registry (`scenario_registry.py`, `scenario_lifecycle.py`) | append-only event log; timelines in memory | register, append, replay, views | artifacts in an authority directory | half-written lines, retries, two handles on one file, late artifacts | nothing receipted is lost silently; standing means what it says |
| VEC runner, orchestration, SUMO execution (`traffictwin/integration/`) | run directories | batch runs | external programs | interrupted runs | receipts match outputs |
| Experiment registry and caches (`traffictwin/storage/`, `ingestion/cache.py`, `platform/historical_store_activation.py`) | SQLite rows, cached objects | status updates, migrations, one-off activation of the historical store | services | interrupted migrations, stale cache | status only moves forward |
| Governance services, synthesis, metrics, presentation | documents | validation, formatting | — | — | pure; not modelled |

`PROJECT.json` lists every component with its status, and under `hazards` the places in the code where something
can go wrong that a test would hardly reach, with the property that covers each.

## 2. Plan

Order: the busiest shared state first, then what builds on it, then independent cores.

1. *(done)* `SourceGate` (what a controlled refresh promises), `BodsLiveControl` (how the code does it), the
   refinement between them, proofs of both.
2. *(done)* `BodsScheduledSessions` on top of it, with proofs.
3. *(done)* `LiveTwin` and `ScenarioRegistry`, with proofs of all their safety properties.
4. *(done)* `BodsRetention`: deletion of private snapshots against the refresh that publishes them, with proofs.
5. *(done)* `SealedLog` (a log whose days are sealed once) and `OperationalHistory`, which implements it; proofs of both.
6. *(done)* `HistoricalStore`: catalogue, payload files and backups under several handles, with proofs.
7. *(done)* `NationalHighwaysLive`: the controlled refresh and its workers, with proofs. It does not implement `SourceGate`, for it
   records an attempt only when it is over (section 6).
8. *(done)* `SourceRefresh`: the refreshes of the operations page on the snapshot store and the scene files, with proofs.
9. *(left)* The activation of the historical store, with its dry run and rollback; the registry database's status updates; the start of
   the local SUMO transport; closed-loop execution and the batch runners' stage order; the registry of snapshots.
10. *(done)* Induction over ledgers and logs: what `Replay`, `Spent` and `ReplayLog` compute for every length, and with it the
    last safety properties of `LiveTwin` and all of `ScenarioRegistry`.
11. *(done)* A bound on the steps of each call and session that a liveness property is about.
12. *(left)* Proofs: an abstract log of timelines that `ScenarioRegistry` implements, and one of windows, each of which is resolved once, that
    `BodsScheduledSessions` implements for one supervisor.

## 3. Modules

| Module | Models | State and actions |
|---|---|---|
| `SourceGate` | the promise of a controlled live refresh, whatever implements it | totals on record, whether the last attempt is open, the stamps of attempts that asked the source; `Open`, `Ask`, `Succeed`, `Fail` |
| `BodsLiveControl` | `coordinated_bods_live_refresh` and every call it makes that changes shared state | `state` and `scene` are the two files, `lock` the advisory lock, `pc` the caller's position, the rest its locals. One action per step between which another process can act: the clock is read (`Call`), the lock taken or refused, the two refusals, the in_progress record, request, retry, redirect, response, scene replaced, outcome stored; every write may also fail (`BeginRaises`, `PublishRaises`, `OutcomeNotWritten`), and a process may exit anywhere (`ProcessExits`) |
| `BodsScheduledSessions`, `MCBodsScheduledSessions` | supervisor, pid file, plan, skip markers, session loop, completion marker, each post-step | `pidFile`, `marker`, `skipped`, `ledger`, `measurement`, `aggregate`, `record` are files; `phase` and `job` a supervisor's position and locals. Reading the pid file (`ClaimChecked`, `RefuseSecond`) and writing it (`WritePid`) are two steps, and a launch may come at any time; the ghost `raced` is set when one supervisor checks the file between the check and the write of another. `Raises` and `Killed` end it with and without cleaning up |
| `LiveTwin`, `MCLiveTwin` | `LiveTwinController` in full | the controller's fields as variables; a `terminate()` of the process raises, or returns and leaves open whether it is gone (`TerminateProcess`); `performed`, `spent` and `delivered` are ghosts for what the process really did and what that cost. A call is one step (a controller belongs to one thread); starting is two, `ProcessDies` and the other controllers act in between |
| `ScenarioRegistry`, `MCScenarioRegistry` | the event log and its handles | `log` the lines of the file, `broken` whether the last one lacks its break, `view` each handle's timelines; `Open` replays, `AppendLine` writes and then learns, `AppendLineFails` leaves nothing, a fragment, a line without its break, or the line |
| `BodsRetention`, `MCBodsRetention` | preview and apply of the retention, and the part of a refresh between response and scene | `accepted` and `quarantine` say of each family's directory that it is whole, torn or not there, `scene` what is displayed; `step` and `fresh` are the running refresh, `phase`, `plan`, `seen`, `left`, `gone` each operator's session; `preserved` is a ghost. An inventory is two steps and the reading of the scene a third; `RefreshEnds` and `SessionFails` stand for every error and for the end of a process |
| `SealedLog` | the promise of the operational history | a log of entries and the sealed days; `Record`, `Seal` |
| `OperationalHistory`, `MCOperationalHistory` | the journal, its appends and the publication of days | `journal`, `days` and `lock` are files; `phase`, `record`, `previous`, `day` a client's call. Building a record, locking, reading, replacing and returning are steps, and so are preview, reconciliation and link; `late` is a ghost for records written when their day could already be published |
| `HistoricalStore`, `MCHistoricalStore` | the SQLite store and its payload directory | `catalogue`, `contract`, `files`, `backups` are on disk, `writer` is SQLite's write lock; opening, writing (begin, retry or refuse, ensure the payload, commit, roll back, clean up), reading each table, copying and publishing a backup are steps. `raced` is a ghost for payloads removed after another handle took them up |
| `NationalHighwaysLive` | `coordinated_national_highways_refresh` and the worker loop | `state`, `latest`, `live` are files; `pc` and `call` an actor's call; `seen`, `due` a worker's memory and wait; `Acquire` asks for one product, `PublishLatest` and `PublishLive` replace the overlays, `Conclude` stores the outcome; `Plan`, `Wake`, `Return` are the worker's loop |
| `SourceRefresh`, `MCSourceRefresh` | the three source refreshes | `store` and `locks` are the directories and lock files of each area, `scene` the scene files; `phase`, `job`, `base` a refresh. Each publication is lock, placement, release; then `Validate`, `Accepted`, `ReadScene`, `PublishScene`; `RefreshFails` runs the finally clauses and `ProcessDies` does not |
| `...Proofs` (eight modules) | theorems about the module they extend, see section 5 | — |

What is abstracted: a summary of a response is its evaluation time and an identity; a digest stands for the content
it covers, so an event's digest is the timeline it ends; an artifact is its identity and what it names; a
deviation is its kind; a cost is a number; a snapshot id is its selection, product and second; a catalogue row is its candidate. Wording, formatting, paths and schema details are left out.

## 4. Runs

| Run | Instance | Shows |
|---|---|---|
| `bods_control` | two callers, two tries, one redirect, history of two, clock 0..2 that may be set back | the file reconciles, attempts are spaced, the scene backs the state, `CallsReturn` under fairness, and `GateSpec`: the code implements the gate |
| `scheduled` | two supervisors, two windows one tick apart, of three snapshots and of one, refusal limit two, a day of four ticks; what follows a race for the pid file is cut off (`Unraced`) | two supervise only after a race; without one resolved windows rest and records are true, and under fairness late windows get marked and sessions end; over kills, relaunches and failing post-steps |
| `scheduled_two_launches` *(violation)* | the same, with nothing cut off | two launches that both read the pid file before either writes it: both supervise |
| `live_twin` | all commands over three keys, three positions, five kinds; two update ids; command budget two, cost budget three; one other controller | ownership, once-only application, budgets, replay of the ledger, a complete receipt, one end |
| `retention` | two operators, three families, four ticks; a family expires after one tick, at most two are kept, at least the newest | over all interleavings of refresh, previews and applies, with failures anywhere: the scene and the refresh find their snapshots, the newest stays, accepted copies have their quarantine, a receipt is true |
| `scenario_registry` | one handle at a time, a scenario and its revision, nine artifacts, one failed append, seven lines | what was receipted is replayed or the log refuses; views never branch; timelines mean what they say |
| `scenario_two_handles` *(violation)* | two handles, no failure | both appends are receipted, and the log never opens again |
| `operational_history` | two clients, three attempts on both sides of midnight, days of two hours of one tick, a ceiling of two records, clock 0..3 | the chain verifies, a published day lacks only late records, `LogSpec`: the history implements the sealed log |
| `historical_store` | two handles; a dataset and another record under its name, two versions of a feature, a snapshot; two contracts, one backup | the catalogue can always be replayed, payloads of committed rows stay except in the race of the next run, answers and backups are consistent |
| `historical_store_cleanup` *(violation)* | the same | the cleanup of a failed write removes the payload of a row that another handle committed |
| `national_highways` | one operator and one worker whose server is relaunched; interval one (workers two), age and history bound two, clock 0..3 set back by one at most, three attempts | the state file accounts for the attempts, spacing, overlays, and under fairness workers return; no worker calls twice within its interval |
| `source_refresh` | two sessions; two sites, which replace each other, and the signal archive on one map; two seconds, three refreshes, clock set at will | layers are backed, leftovers of crashes are harmless, earlier layers stay |

**Why the bounds are enough.** In `bods_control` two callers give every pair of positions in the critical section, two
tries and a redirect give each transport branch, a history of two makes trimming by count and by age happen, and
two clock steps separate too-soon from due, before and after a reset. In `scheduled` the tolerance (one) is less than
the span of the clock, so windows become late both before and during another's session; three snapshots with a
limit of two let refusals be consecutive or not, and a window of one is too small for a measurement. The constraint `Unraced` stops at each state in
which the pid file has been raced for. No invariant loses anything by it: `raced` stays true (`RaceStays`), three of the four say nothing after a race, and the fourth,
`MarkerAccounts`, is proved for every state. The two liveness properties are thereby checked for the behaviours without a race. Fairness never forces
a behaviour into one: while a step of one supervisor would be a race another is about to write the file, and after that write the first one refuses. In `live_twin` there is one key and one position more than the budget, so each
budget is met and breached, and keys are reused with changes. Seven lines hold a scenario, approval, run,
admission, deviation, new analysis and a second admission; failures are bounded by one because a second one only
adds garbage to a line that already refuses the log.

In `retention` three families
are the fewest with one on display, a newer one in work and an older one to delete; a family goes both for its age and for the
count (one over the bound), and two operators may apply the same plan. A family verified once was whole whenever it was
listed before (a directory is only ever published once), so verification is taken to be at the moment of the listing.

In `operational_history` one attempt is the last tick of a day and one the first of the next, so that a record can be early and late for
its day; the ceiling is one less than the attempts, and there are two sources and both triggers. In `historical_store` all payloads
are the same bytes, because only then does one writer meet the file that another has just made or removes; the items need each other in every
way the code distinguishes. In `national_highways` three attempts trim a history of two, by count and by age, and let an attempt that
left no record lie between two that did; one step back on the clock is as long as the minimum interval. In `source_refresh` two
sessions with three refreshes let a layer be published before, between and after the reading and the replacement by another; a site has
two products, so a refresh may fail after the first was accepted; and two seconds let one retrieval be repeated in its second and another not.
The bounds of attempts, refreshes, backups and ticks are constants that occur in guards only; the proofs hold for any values.

**Histories.** Ghost variables (`ghosts` in each module) only record what happened: no guard reads them, apart from bounds of the model.

**Type invariants** are in no run: `TypeOK` (`RegistryTypeOK` in `ScenarioRegistry`) is proved for every module but `SourceGate` and `SealedLog`, whose types follow from the refinements.

**Sizes** (distinct states): `bods_control` 122,484, `scheduled` 92,700, `live_twin` 248,926 (one of each six that differ in the names of the keys), `scenario_registry` 84,980, `operational_history` 176,838,
`historical_store` 350,270, `national_highways` 798,795, `source_refresh` 2,299,784.

**Deadlock** is checked except in the registry's runs, where the system may really stop: a log that does not replay
admits no operation.

**Fairness.** `BodsLiveControl!FairSpec` assumes weak fairness of a caller's own progress, which includes a
process's exit: the code has no wait without a bound (the lock is non-blocking, requests have timeouts, retries and redirects
are counted). Nothing makes callers call. `BodsScheduledSessions!FairSpec` assumes that a live supervisor
takes its next step; nobody has to launch or to kill one, and `LateWindowsSettle` speaks of a supervisor that keeps working. Both of its properties are checked where nobody raced for the pid file.
`NationalHighwaysLive!FairSpec` assumes that a worker's thread keeps running (`WF_vars(Work(w))`): its wait is timed, the lock is non-blocking and
the transport has a deadline. Nobody has to click, to start a worker or to end a process.

## 5. Proofs

`BodsLiveControlProofs` proves, for every number of callers, interval, history bound, retry and clock bound that the
assumptions allow (`ActorsAssumption`, `BoundsAssumption`, `NoTimeAssumption`):

- `TypeCorrect`, `StateAlwaysReconciles`, `AttemptsAlwaysSpaced`, `SceneAlwaysBacks`: the safety invariants of the run `bods_control`; and
  `HistoryAlwaysBounded`, `MutualExclusion`, `AttemptsOnRecord`, which are in no run any more because the proofs say all of it;
- `GateImplemented`: `Spec => GateSpec`, the refinement of `SourceGate`.

All rest on one inductive invariant, `IInv`, and `SceneAlwaysBacks` on a second one, `SceneInd`, beside it (below). None of the properties is inductive alone. That the record on disk is the one
the caller built (`AttemptOnRecord`) holds only because nobody else writes meanwhile, so `LockHeld` ties the positions in the critical
section to the lock; that the outcome reconciles needs the record it is built from to reconcile
(`StateReconciles`), and the new history to be small and ordered (`HistoryBounded`, with the lemmas on
`BoundedHistory` and `Latest`); `LocalsFit` keeps each caller's stamp and response in range; and the spacing of
requests needs `SentFits`, that no request is younger than the last attempt on record, since the code compares with that
stamp only. `NextPreserves` has one step per action, and actions that only move a caller share `MoveInside`. The refinement
uses `IInv` for the steps in which the record on disk must be the caller's own. `SceneInd` follows a response from its arrival to the file: as long as the
clock is not set back, every response is at least as new as what is retained (`Ordered`), so the newest of the bounded history is the caller's own (`Newest`) and
the scene it published is the one the state then vouches for. It needs `NoSceneAssumption`: having no scene is told from every summary.

`PlatformProofs` proves, for every set of commands and updates, every grant and budget and any number of other
controllers (`LiveTwinAssumption`, `NoReceiptAssumption`):

- `TypeCorrect`, `OneOwner`, `AtMostOnce`, `BudgetsBound`, `LedgerExplains`, `ReceiptIsComplete`: types and the five invariants of the run
  `live_twin`; and `ReceiptIsFinal`, its action property: it holds although the process may outlive the receipt, which does not always tell (section 6).

They share one inductive invariant, in two halves that different steps disturb. `Control` is ownership and the end
of a session: `PhasesFit` says that a live session is owned and has no receipt and that an ended one has one, without
which neither a refused start nor a second stop could be seen to leave the digest and the receipt alone.
`Accounts` ties the ghosts to the ledgers: the process did what is on them, and nothing else as long as the session has
not ended. That is why a command whose key is not on the ledger is new to the process too, and why the budgets, which
the code compares with the ledger, bound what the process did. A step that reaches no process keeps the second half
(`QuietKeepsAccounts`); each of the four that do has a lemma of its own. `LedgerExplains` adds `Story`: every entry of the ledger expected
the state that the entries before it lead to. `ReceiptIsComplete` adds `Balance`: what the process spent is what the ledger sums up to, and while
the session lives nothing was carried out beside the ledger.

**Ledgers and logs of every length.** `Replay`, `Spent` and `ReplayLog` are recursive functions over the positions of a
sequence. The library's induction theorems take an operator as a parameter, but a *set* of numbers is enough: `Counting` says that
a set that holds 0 and every successor is Nat, and follows from the well-foundedness of `<`. With it `ReplaysExist` and
`ReplaysAgree` show that there is exactly one function that replays a log line by line, and that logs with a common beginning
agree on it; so `ReplayOfNewLine` holds: replaying a log with one more line is replaying it and then the line. `States...` and `Sums...` do
the same for a ledger.

The same module proves the registry, for any scenarios, revisions, artifacts, handles, number of failed writes and length of the file, with or without overlapping handles
(`RegistryAssumption`; `ArtifactsAssumption`, an artifact is of one of the types that the table can reach; `MarksAssumption`, a
fragment is no line and a refusal no history):

- `ReceiptsSurvive`, `MemoryIsOnDisk`, `EveryTimelineMeans`: the three invariants of the run `scenario_registry`, there on one handle and one failure; `RegistryTypes`;
- `HistoryOnlyGrows`, an action property: a log that refuses never opens again, and one that opens extends every timeline it told before;
- `OneHandleOpens`: with one handle at a time (`~ Overlap`) and no failed write the log opens and the handle knows exactly what it
  tells. The run `scenario_two_handles` shows that it fails without that assumption.

What the file promises is `OnDisk`: unless some line is garbage, every receipt and every timeline in memory is told by a line that is still
there (`Tells`). It is inductive although a write may be cut off anywhere, because bytes glued to a line without its
break always spoil that line (`WrittenIs`), and a spoiled log is refused (`SpoiledIsRefused`). From a line to the present history leads `ToldIsReplayed`: after line i the log
tells it, and learning only extends (`LearningExtends`, `ReplayOnlyGrows`). That timelines mean what they say needs `ViewsSound`: each event was acceptable
after the ones before it (`Valid`), from which `ValidMeans` derives the readable form: one execution, behind its approval,
the latest analysis at each admission, and nothing after a closure.

`BodsScheduledSessionsProofs` proves for any supervisors, windows and bounds, with launches that come at any time, that markers account (`MarkersAccount`), since the
counts a supervisor keeps (`Counted`) travel with its own job. The pid file does not keep to one supervisor (`scheduled_two_launches`); `OnlyRacesDouble` proves how much it does keep: as long as
nobody has checked the file between another's check and its write, the file names the one process between claim and exit (`PidClaimed`), whatever stale files are found and
whoever is killed, refused and relaunched. In every state that no such race leads to, a plan stays true of the markers until it is carried out (`WindowsOpen`, `ResolvedRest`) and the files
beside a record are those of its session (`FilesFit`, `RecordsTrue`). These are no assumptions on the launches: `raced` records what happened, and `RaceStays` that it is never forgotten.

`BodsRetentionProofs` proves all five invariants of the run `retention`. The idea is `Superseded(f)`: enough newer families have been preserved. It can only become true, so a plan
that calls a family superseded is harmless however old it gets, and no lock is needed. `Stored` says what the directories, the scene and the refresh in work have to
do with each other, `SessionFits` what each operator's plan still knows.

`OperationalHistoryProofs` proves the chain, `ReceiptsHold` (a receipt is of a record in the journal), `TimelyCounted` and the refinement of `SealedLog`. A writer under the lock has
read the present journal; a preview is of an initial part of it (`Partial`), and what it lacks is late (`Timely`), which stays true while others append.

`HistoricalStoreProofs` proves the invariants of the run `historical_store`, and that the catalogue can always be opened, receipts stay (`ReceiptsHold`) and all handles agree on the contract
(`ContractAgreed`). `IInv` says what each position in a write has seen under the lock, what each read has already loaded, and that a snapshot's needs precede it in the catalogue, so that
tables read later contain what tables read earlier refer to: that is why the order of the three SELECTs matters.

`NationalHighwaysLiveProofs` proves all but the liveness of the run `national_highways`. `Guarded`: who holds the lock works on the last attempt and on the file it has read (`InFlightFits`, `Exclusive`);
`Told` with `RecordedSpaced`: what is on record is one chain of attempts, each of which waited for the one before; `TrimmingComposes`: trimming the history at each success
is trimming once at the end; `OverlaysFit` and `PaceInd` are the overlays and the worker's own clock.

`SourceRefreshProofs` proves the properties of the run `source_refresh` and `OneReceipt`, for any sessions, selections, products and modes and any clock. Three strands over the types: `Files` (a session that publishes owns its lock; what
is accepted is in the quarantine), `Traces` (a lock or directory with the id of a retrieval that is the only one of its second is the work of the session that carries it) and the layers (`Backed`, `Retained`: what
a session retains is backed, and contains what has been on display all along).

**How long a call can go on.** `CallsAreFinite` (both live controls) and `SessionsAreFinite` are the safety half of `CallsReturn`, `WorkersReturn` and
`SessionsEnd`: a number of steps that is left, bounded in every state, which each step of the actor itself lowers and no step of another
changes. For a BODS call it is at most `2 * MaxTries * (MaxRedirects + 1) + 5`: the tries that are left before and after each redirect, each of two steps; a
session has two steps for each snapshot of its window, since an early ask may be repeated once, and nine more, also beside a second supervisor; a National Highways call has eleven. `RetryForever` and `RefuseUncounted`, the mutants of the
liveness properties, are what would break them. Fairness is then only needed for the actor to take its steps.

**Model-checked only:** the liveness properties themselves (`CallsReturn`, `LateWindowsSettle`, `SessionsEnd`, `WorkersReturn`), since TLAPS does not reason about
fairness through ENABLED. Every safety invariant and action property of a passing run, and both refinements, are theorems; `OneSupervisor`, `LogOpens` and `CommittedPayloadsPresent`,
the properties of the violation runs, are what the code does not do. No module declares a RECURSIVE operator.

## 6. Disagreements between the code and its documents

Three are shown by a violation run; `findings` in `PROJECT.json` quotes the sentence and the line.

1. *"Every write uses optimistic concurrency"* (`scenario_two_handles`): a handle compares with its own memory, not with the file.
2. *"A failed transaction removes only its own uncommitted staged payload"* (`historical_store_cleanup`): the payload is removed after the rollback gave up the lock.
3. *"Pid-file singleton: a second supervisor refuses to start"* (`scheduled_two_launches`; `bods_scheduled_sessions.py:788`, and much the same in the design document and in what the launcher prints): the check (792-797) and the
   write (802) are two steps with nothing held between them. Both supervisors may then run one window, and the exit of the one that the file names removes the file while the other goes on. Two that write one artifact at the same time would
   also share the temporary file's fixed name (259), which is not modelled (section 7).

These were met while modelling, and no run is kept for them:

4. *"An interruption can only lose post-processing, never the ran-once fact"* (`bods_scheduled_runner_design.md`, section 3): the marker is written after the loop that acquires (467-498).
5. *"At least 60 seconds between attempted source requests"*: the transport repeats a failed request within the same attempt (`transport.py:351`).
6. *Raw snapshots are prunable once the measurement exists* (`bods_scheduled_sessions.py:743`): a measurement file cut off by a crash (554) exists too.
7. *"Create a new preview before trying again"*, after a cleanup that failed inside a directory (`bods_retention.py:354`, `manchester_operations.py:1489`): no preview verifies what it left.
8. A published day is complete (`operational_history.py:943`): an append that has passed its test before the day is linked replaces the journal afterwards (958). `TimelyCounted` bounds what can be missing.
9. *A minimum minute between attempts* (`manchester_national_highways_operational_feeds.md:29-30`): an attempt whose process ends, or whose outcome cannot be written
   (`national_highways_live.py:295-324`), leaves no record and holds off nobody.
10. *"Atomically publish both overlays"* (`national_highways_live.py:220`): they are replaced one after the other (276, 281).
11. *"Scene updates replace only the same source layer and preserve unrelated source-separated layers"* (`manchester_source_refresh.md`): two refreshes that overlap may drop each other's layers, and an older one may
    replace a newer layer of its own source. `EarlierLayersStay` says what is kept.
12. *"A failed scene update leaves the prior scene unchanged"* (same document): the directory's fsync comes after the replacement (`scene_publication.py:305-311`).
13. *"No ... surviving process handle"* (`local_sumo_live_twin_transport_design.md`, section 3): `terminate()` swallows a signal that may not be sent (`local_sumo_transport.py:421-431`) and a process that outlives the kill (750), and the
    controller receipts the session as `completed` with nothing noted (`live_twin.py:841`). The model allows it (`TerminateProcess`), so no property says that a survivor is told of; `TerminalIsFinal` says that nothing is done through it.
14. *"Stale live input triggers fail-safe termination"* (`controlled_live_twin_adapter_design.md`, section 5): an update that is too stale is refused and the session goes on (`live_twin.py:784-786`, `RefuseUpdate`).

## 7. Not modelled, and why

The parts marked `not_modelled` in `PROJECT.json`: the batch runners and the storage layer are left in the plan; governance, synthesis, metrics, reports and user interfaces are computation on
values with no protocol state. Left out inside modelled components:

- a clock set back during a refresh (in `BodsRetention` only: the family in work would then be an old one);
- the staging trees that a killed publication leaves: nobody reads them, and no retention inventory counts them;
- of the source refreshes the policies, the parsing and the replay of a quarantine by hand; a rejection by any of them is `RefreshFails`;
- of the operational history the owner's policy (approved before every call), the London projection, and the limit of 200,000 records, which the ceiling of 128 MiB always precedes; only tests
  call the append so far;
- of the historical store the validation of one candidate alone, the cached core (never observed) and calls that are refused at once and change nothing: a read or an open
  that meets a commit between its SELECTs may be refused as `CATALOGUE_CORRUPT` (`LoadFails`) although nothing is wrong; a crash leaves payload files that no row names. SQLite's locking is modelled from its use
  (`BEGIN IMMEDIATE`);
- of the BODS worker its loop: it is the National Highways worker's around the other coordinator. The stop that tests use and the totals a status shows are left out of both;
- threads inside one controller start (the check and the registration of a digest are one step), and interrupts
  (`KeyboardInterrupt`) in the middle of a call to a factory, which leave the digest registered;
- jumps of the wall clock ahead of the monotonic one, by which waits are timed: in `NationalHighwaysLive` the wall clock is only set back (`back` never falls), so `WorkerPaced` does not speak of them;
- two supervisors that write one file at the same moment: they write to one temporary name (`bods_scheduled_sessions.py:_write_json_atomic`), so that one raises (`Raises`) or a file is cut off;
- daylight-saving changes, on whose nights a window moves by an hour against the clock, and the reuse of process ids;
- artifacts removed from the authority directory, without which the log refuses to open.

Five further observations need no property: a worker whose clock is set back sleeps that much longer; a lock file left by a crash keeps refusing its one snapshot id until someone removes it; a caller delayed between its reading of the clock and the lock is refused as
`CLOCK_REGRESSION`; two operators with different previews may together delete more than the count bound asks for; and the
terminal event of a session is sent after its receipt was built, so a failed delivery is a deviation no receipt shows.
