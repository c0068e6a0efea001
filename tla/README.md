# TLA+ models of the stock research workstation

The repository is a local-first research workstation: a FastAPI process takes
requests, a queue worker runs analyses (an agent pipeline per report mode), and
a scheduler submits due work by itself. State lives in SQLite files, in Redis
(the RQ queue and shared guards), in lock files and in report files. No two of
these are ever updated together, every process may stop between two calls, and
most of the code that keeps them consistent is a read, a decision and a later
write. This directory models that core:

* the life of an analysis job (`AnalysisJobs`, `JobRows`, `JobLifecycle`);
* the durable dispatch of scheduled work (`WatchlistDispatch`, and
  `NightlyDispatch` with the deployment that pauses it);
* the maintenance gate that empties the system (`MaintenanceGate`, `DrainGate`);
* the congestion circuit around the provider of the language model
  (`LlmCongestion`);
* the publication of a report and its index (`ReportPublication`);
* the event log of a job and the stream that tells a page (`EventStream`).

## 1. Inventory

All paths are under `src/backend/`. `PROJECT.json` lists the same components
with their status, and under "hazards" each hard place at its line.

| Component | State it keeps | Operations | What makes it correct | Here |
|---|---|---|---|---|
| Job table: `job_store*.py` | `analysis_jobs` rows (status, `cancel_requested`, `updated_at`), partial unique index on (ticker, pipeline) of active rows without a cancel flag | create or attach, update, cancel, abandon, find, list | one active job per key; a settled row stays settled; cancelled only on request | `JobRows`, `AnalysisJobs` |
| API service: `analysis_job_service.py`, `analysis_job_queue_state.py`, `api.py` | none of its own; reads SQLite, then Redis, then writes SQLite | submit, attach, force, cancel, lookup | a request never closes work somebody else owns; a cancel settles | `AnalysisJobs`, `WatchlistDispatch` |
| Task queue: `task_queue.py`, `task_queue_rq_idempotency.py` | RQ hash, queue list, registries, `retries_left` | enqueue, enqueue once, receipt, cancel, has_task | a task is pushed once; an unknown answer is not a "no" | both |
| Worker run: `analysis_jobs.py`, `analysis_job_retry.py`, `analysis_job_reports.py` | progress through the pipeline sequence, report files, event log | guard, run each pipeline, publish, done, retry, fail, abort | done means every report exists; nothing new begins after a cancel; a promised retry comes; a redelivered task does nothing | `AnalysisJobs` |
| Worker start: `worker_main.py`, `worker_rq_reconciliation.py` | none | read registries, pending dispatches and rows; mark waiting or abandoned | closes what lost its task and nothing else | both |
| Watchlist dispatch: `watchlist_claim_store.py`, `watchlist_dispatch_*.py`, `watchlist_service.py` | `watchlist_dispatches` rows (state, lease token, lease end, receipt) | claim, renew, dispatch, acknowledge, release; manual run and trigger monitor, which create and push without a slot | no due slot is dropped or run twice | `WatchlistDispatch`; the producers without a slot in `AnalysisJobs` |
| Nightly dispatch: `nightly_analysis*.py` | session rows with lease, attempts, prepared input | seed, claim, fetch, prepare, create, push, mark | no row is acknowledged without its work, one push, one input | `NightlyDispatch` |
| Deployment: `nightly_deployment_gate.py`, `deployment_rq_pause.py`, `scripts/paused_runtime_deploy.py` | RQ suspension key, fence, baseline on disk | pause, fence, baseline, resume, recover | nothing moves between baseline and resume | `NightlyDispatch` |
| Maintenance gate: `maintenance_guard.py`, `maintenance_state.py`, `maintenance_rq_worker.py` | bootstrap anchor, private directory, phase file, two lock files | initialize, admission, arm, wait_drained, gated worker | nothing is admitted into a drained system | `MaintenanceGate`, `DrainGate` |
| LLM congestion: `llm_congestion.py`, `llm_congestion_store.py` | circuit per model in Redis (generation, stage, cool-down, probe lease, failures), a mirror per process | peek, admit, success, failure, server failure, release, quarantine | one probe; late outcomes are not heard; no cool-down is cut short | `LlmCongestion` |
| LLM limits: `shared_runtime_guards.py`, `llm_rate_limits.py`, `llm_daily_budget.py` | rolling windows and daily counters in Redis, SQLite and memory | reserve, penalise, settle | limits hold across processes | not modelled |
| Report storage and index: `report_persistence.py`, `report_index*.py`, `report_history_storage.py`, `storage/` | three artifacts and a row per report, receipts of create-only publications | publish, recover, synchronise, load | no partial bundle is shown; failure restores; the index heals | `ReportPublication` |
| Event log and SSE: `job_store_event_writer.py`, `api_routes/analysis_sse.py` | `analysis_events`, the cursor of each stream, the last id of each page | append, read since, stream, say the end, connect again | each event heard once; the end is told, and agrees with the row | `EventStream` |
| Provider guards, agent runtime, workflow graph, rerun, watchlist items | see section 6 | | | not modelled |
| Data acquisition, evidence checks, rendering, decision tracking, research, UI | caches and files | parsing, validation, I/O | values, not orders of events | not modelled |

Processes. The web process submits and cancels jobs on one event loop and the
service calls are synchronous, so that the loop runs one such request to its end
before the next. Beside it the process has threads: a manual watchlist run
(`asyncio.to_thread` in `api_routes/watchlist.py`) looks a job up, creates one
and pushes it, and a stream whose page has left marks a cancel. The scheduler
process ticks, and its trigger monitor looks jobs up, creates and pushes as the
manual run does. These two producers push without asking Redis for the task
first, whatever a request that attached to their new row has done meanwhile. The
queue worker is an RQ `SimpleWorker`: it runs tasks in its own process, so that
its death ends the task, and it reconciles SQLite with Redis each time it starts.
`worker_main --role all` starts one of each beside the web process. All of them
ask the maintenance gate before they create, claim or take work.

What is hard. Every store function except `create_or_attach_active_job` reads
its row before it opens a transaction; Redis answers may be lost after the
command was applied; RQ delivers a task again after a crash or a retry; leases
lapse while their holder is only slow; start-up reconciliation reads three
sources at three moments; the gate is two locks and three files; the circuit
hears of a request long after it was admitted; a synchronisation of the index
acts on listings it made earlier; a row and the event that tells of it are two
transactions, and the process may die between them.

## 2. Modules

### JobRows
One row of `analysis_jobs` and the statements that run on it. A row is reduced
to status, cancel flag, staleness and whether a filename is stored. A store
function that reads first is two operators: the choice it makes from the row it
read (`UpdateChoice`, `CancelChoice`, `AbandonChoice`) and the effect of its
UPDATE on the row as it is by then (`Applied`), which has no condition on the
status in the code either.

### AnalysisJobs (EXTENDS JobRows)
All processes that touch a job.

* *Clients* (`cpc`, `cjob`, ...): `Attach`, `Create`, `Supersede`, `Conflict` are
  the four outcomes of `create_or_attach_active_job`; `Probe`, `Enqueue`,
  `EnqueueFails`, `RecordEnqueueFailure` the rest of the submission; `Cancel`,
  `Unqueue`, `MarkCancel` a cancel; `LookUp`, `ProbeOrphan`, `AbandonOrphan` the
  active-job lookup. A client in `Web` is the event loop of a web process. The
  others are a thread of it, or of the scheduler: they look jobs up, mark
  cancels, and are the producers of `watchlist_service.py`, which insert a row
  (`CreateDirect`, which takes its ids from `Direct`) and push its task unasked
  (`Push`). (The ticks of due slots and of nightly rows push with `enqueue_once`
  and have modules of their own.) Left out is the branch of a failed enqueue that
  takes an exception for a duplicate by its wording and leaves the row queued:
  RQ's `enqueue_call` overwrites the hash and raises nothing of the kind.
* *Workers* (`wpc`, `wjob`, `wseg`, ...): `ReadQueues` to `MarkAbandoned` are the
  start-up reconciliation, `Dequeue` to `Raise` one execution of
  `run_stock_analysis_job_async`, with every cancellation check as a guard and
  every `update_job` as a SELECT step and an UPDATE step (`UpdateByRun`).
* *RQ* (`rq`): hash status, entries in the list, entry in the scheduled registry,
  retries left. `RetryDue` and `CleanRegistry` are RQ's own.
* *Environment*: `Env` chooses which of force, cancel, lost Redis replies, death
  of a client, an idle period, refusals, quota errors, exceptions and a locked
  database may happen. `GoStale` needs an idle period of
  `ANALYSIS_JOB_STALE_SECONDS` (6 h), which is longer than the RQ time limit (4
  h), so that no worker is still on the job.

A pipeline, with its agents, is one stage; publishing is idempotent because
`stable_report_filename` is a function of job and pipeline.

### JobLifecycle
What a client may rely on, seen only through status, cancel flag and reports:
the state diagram of `docs/architecture.md`, weakened where the code does not
keep it. `AnalysisJobs` implements it under the mapping at its end
(`ImplementsLifecycle`).

### WatchlistDispatch
A slot of the watchlist: `disp` is its dispatch row. A tick (`spc`, `todo`,
`item`) follows `claim_due_watchlist_items`, the loop of
`enqueue_watchlist_items` and `dispatch_item` call by call: `Claim`,
`NextItem`, `Stop`, `Renew`, `Find`, `Probe`, `Orphan`, `Receipt`, `CreateJob`,
`Read`, `Watch`, `Exec`, `Acknowledge`, `Release`. It meets a reduced API
(`Submit`, `Attach`, `Cancel`, `Lookup`, ...) and a reduced worker. `queued`
remembers the jobs whose task was ever pushed, by a tick or by a request, and
`dropped` those a user cancelled or replaced: an acknowledged slot must be one of
these. `popped` is the moment when RQ has taken an id off the list and has not yet written
that the task started, for which `dispatch_receipt` makes its second look.

It does not extend `JobRows`: here each UPDATE is one step, since what
`AnalysisJobs` says of split UPDATEs would only multiply the states.

### NightlyDispatch
A row of `nightly_analysis_work_v1` per session. A tick (`tpc`, `session`,
`item`) is `process_one` call by call: it takes the fence shared, seeds the
session, claims a row with a token, looks for an active job, fetches its input
(an await of minutes, during which its lease may lapse or its waiter be
cancelled), stores the input with `prepare`, creates the job of the row's id,
pushes it once, and marks the row. `Due` and `Lapse` are time, `NightBegins` and
`NightEnds` the window of a session. The deployment (`ctl`, `base`, `paused`)
sets RQ's suspension key, takes the fence exclusively, writes its baseline,
compares, and resumes; it may die at each step and be recovered from what is on
disk. API and worker are reduced to what a row meets: a request of the same key,
a cancel, the run of the job, reconciliation. Each step of a tick that asks Redis
may be refused (`TickFails`, by an unavailable pause or an error). `Enqueue` also
allows a refusal while a task of the id is there that a request pushed, since
that one lies in another queue (`task_queue_rq_idempotency.py:51`); it does so in
a few more states than the code, which only adds behaviours.

### MaintenanceGate, DrainGate
`MaintenanceGate` has one action per system call of `initialize` (anchor,
fill, directory, locks, link, unlink), `arm` and `wait_drained`, with the death
of any process between two of them. A thread takes `admission.lock` shared,
*then* reads the phase, works, may leave its descriptor to a child (`heirs`),
and drops the lock. A queue worker pops a task under the lock; an id whose task
is gone sends it to look for another.

`DrainGate` is the promise: work moves only inside, nobody enters once the gate
is closing, "drained" is said when all are out, and a lost gate stays lost.
`MaintenanceGate` implements it under the mapping `Mode`, `Occupants`, `Moved`
(`ImplementsDrainGate`).

### LlmCongestion
`After` is the Lua script of `llm_congestion_store.py`, operation by operation,
and its twin in Python. `Operate` is `CongestionStore.operate` in one process:
Redis answers (`OperateShared`), the call fails and the process forgets its
client for ever, whether or not the script ran (`OperateLosing`), or it works
with its mirror alone (`OperateAlone`) after one quarantine. An attempt (`at`)
is a `provider_attempt_scope`: admitted with the generation of the circuit,
possibly as its probe, it ends later with an answer, a 503, a 429 or something
else, or is lost with its process (`Restart`).

### ReportPublication
A report is three artifacts and a row of the index. `Overwrite` is
`persist_report_bundle` of an ordinary job: what it found is kept in memory, and
if a save or the index raises, *before or after it took effect*, `Recover` puts
it back artifact by artifact, which may fail too. `CreateOnly` is the publication
under the root lock with its two receipts; it never removes anything, and a
report with the first receipt and without the second is hidden (`Pending`).
`Synchronise` is the synchronisation of the index, with its listing, its read of
the rows, the stamp, the build and the upsert or delete as separate steps, and
`Read` the guarded load of an artifact. Three abstractions: the check whether a
row is outdated and the stamp that the build reads for itself are one read
(`SyncStamp`); a stamp is a counter that every write moves, where the code
compares modification times with a tolerance of a millisecond; and the build
reads the three files in one step (`SyncBuild`).

### EventStream (with JobRows for its one job)
`log` is the sequence of the event types of a job; an id is a place in it, as
SQLite gives ids in the order of commits. The worker (`wpc`, `goal`, `set`)
follows the code in how it ends: it reads the row (`Select`), updates it
(`Update`) and tells the log (`Tell`), and may die between any two
(`Crash`), after which `Reconcile` looks at rows that are still active and at no
others. Requests (`CancelSelect`, `CancelUpdate`, `Supersede`,
`RequestTells`) do the same from the API process; a stream whose page has left
may ask for a cancel too (`Abandoned`, for pages in `Impatient`, the query
parameter `cancel_on_disconnect`). `Connect` to `Say` are the page and
`analysis_event_generator`, one action per await: `ReadLog`, `Send` for each
event, `ReadRow`, and `Look`, `Persist`, `Say` for the terminal event that a
stream makes up if the log has none. Connections fail (`Disconnect`, and under
way in `Send`), and SQLite may raise (`LoopRaises`, `PersistRaises`).

The read of the log that follows the append of a synthetic event is folded into
the append (`Persist`), and the first status event is written with the row,
though it is a transaction of its own. One worker is there at a time, as
deployments start one. An enqueue whose reply was lost, after which the row says
`error` and a worker still takes the task, is left to `AnalysisJobs`.

### Proof and MC modules
`AnalysisJobsProofs`, `AnalysisRunsProofs`, `WatchlistDispatchProofs`,
`NightlyDispatchProofs`, `MaintenanceGateProofs`, `LlmCongestionProofs`,
`ReportPublicationProofs` and `EventStreamProofs` hold the theorems of section 5.
The `MC` modules give TLC the values and symmetry sets of its instances.
Definitions commented "mutant" are wrong on purpose: each is a plausible bug in
the definition that follows it, and with it in place the property it belongs to
must fail. No specification uses them.

## 3. Runs

| Run | Instance | Checks |
|---|---|---|
| `AJ_requests` | 2 jobs of one key, the event loop and a producer beside it, 1 worker, 1 pipeline; force, cancel, refusals, death of a client | `OneActivePerKey`, `CancelledWasRequested`, `OnlyCancelledRevive`, `ImplementsLifecycle` |
| `AJ_one_job` | 1 job of the API, the event loop and another client, 2 workers, 2 pipelines, 2 pushes; cancel, quota, exceptions, refusals, lost Redis replies, locked database | `TypeOK`, `ExclusiveRun`, `NoStageAfterCancel` |
| `AJ_progress` | 1 job, of the API or pushed unasked, fair processes, 1 worker, 2 pipelines, 1 worker death; quota, exceptions, refusals, idle gap | `DoneHasEveryReport`, `StartedHasOwner`, `RetryPromiseKept`, `ActiveSettles`, `NoReportAfterSettling` |
| `WD_dispatch` | 1 slot, 2 schedulers, a manual request, 1 fault | `TypeOK`, `NoSlotDropped`, `OnePush`, `LeaseRespected` |
| `WD_progress` | 2 slots of one key, 1 scheduler, 1 fault, fair processes | `DispatchSettles` |
| `ND_dispatch` | 1 session, 2 ticks, 1 manual job, 1 failed acquisition, 1 fault; requests and deployments | `NoRowDropped`, `OnePush`, `InputFixed`, `LeaseRespected`, `BaselineHeld` |
| `ND_progress` | 2 sessions, 1 fair tick, 2 acquisitions, 1 fault, deployments | `RowSettles` |
| `MG_gate` | 1 thread, 1 worker, 2 controllers with 2 plans, 1 task, 1 crash, fair processes | `QuietOnceDrained`, `OneLateWork`, `ImplementsDrainGate`, `PlanFixed`, `DrainCompletes` |
| `LC_circuit` | 2 processes, 2 attempts, 2 keys, clock up to 4, 1 restart, loss of Redis | `OneLiveProbe`, `RecoveredByProbe`, `OpenedOnEvidence`, `CooldownNeverShortened` |
| `RP_publish` | 2 publications, ordinary or create-only, 2 faults, a reader, synchronisations | `TypeOK`, `VisibleIsWhole`, `ReadsWhole`, `FailedRestores`, `IndexHeals` |
| `ES_stream` | 1 page whose stream cancels when it leaves, a user, 1 retry, 2 faults (deaths, lost connections, errors of the store) | `ReplayExact`, `TellsTheRow`, `EveryPageIsTold` |
| `WD_v_abandon` | the smallest instance | a finding, section 4 |

The type invariants of `NightlyDispatch`, `MaintenanceGate`, `LlmCongestion` and
`EventStream` are theorems (section 5), so that no run repeats them.

**Bounds.** Two jobs of one key are what attach, force and the unique index
distinguish; keys do not interact. Two pipelines, in `AJ_one_job` and
`AJ_progress`, have a "between", which is where a cancel, a retry and a crash
bite; a third adds nothing that the loop tells apart. One client beside the event
loop already acts between any two of its calls. One retry gives a first, a last
and a used-up attempt. `MaxPushes` = 2 is a task pushed again while its first
entry is still in the list. One crash (or fault) already interleaves with every
step; the dispatchers allow one of any kind, so that a slot is never rescued by a
second one. Two ticks are a slow holder and its successor. Two sessions are a
night and the one that forgets it. Two controllers race for the gate; a thread
and a worker are the two ways to hold its lock. In `LC_circuit` a lease, a window
and a cool-down of 2 on a clock of 4 let a probe be late, a failure leave the
window and a cool-down end and begin again; a reply that asks for 3 outlasts the
cool-down, and the circuit may be found open by earlier processes, so that two
attempts are enough for a replaced probe. Two faults in `RP_publish` are an error
and an error, or a death, in the recovery from it. In `ES_stream` two faults are
a death of the worker before it told and a connection that fails while the stream
tells instead, or an error of the store at that moment; pages meet only in the
log, to which each of them can add the end once, and the theorems are about any
number of them. Where it matters the theorems of section 5 hold for every value
of these bounds.

`CHECK_DEADLOCK FALSE` is set where the system really stops: all work settled
and no request, or the last night over.

**What some runs leave out, on purpose.** Under `Env = {}` the watchlist runs
exclude two behaviours that break the promise: the API's lookup of a slot's job
(`WD_v_abandon`) and other processes acting while a starting worker reads
(`boot_race`, section 4). So `NoSlotDropped` holds *up to these two*.
`AJ_requests` excludes lost Redis replies: after an enqueue whose reply was lost
the row is `error` and a worker may still publish for it, so that
`OnlyCancelledRevive`, `NoReportAfterSettling` and the contract do not hold
there; a hazard says so. Quota errors and exceptions are in the other two runs,
stale rows in `AJ_progress`. `ExclusiveRun` is about jobs that the API created
and is checked without the death of a client; section 4 tells what happens
otherwise. The death of a worker is in `AJ_progress` and not in `AJ_one_job`,
where it would multiply the states of two workers and two clients (by four with
one pipeline); `ExclusiveRunAlways` has it.

**Fairness.** No run assumes fairness of requests, faults or crashes.

* `AnalysisJobs`: weak fairness of a client's request once it has begun, of a
  worker's start and run, of RQ moving due retries and cleaning its registries;
  strong fairness of taking a given queued id, since a worker alternates between
  being busy and idle and RQ serves its list in order.
* `WatchlistDispatch`, `NightlyDispatch`: ticks repeat (the scheduler loop), a
  lease whose tick is gone lapses and a row becomes due again (time passes), a
  begun request and the worker proceed.
* `MaintenanceGate`: operations, jobs and children end and a begun call of a
  controller goes on (weak); the two polls of `wait_drained` are strongly fair,
  because the operator repeats the call until one of its polls finds the lock
  free. A thread that is refused holds the lock while it reads the phase, so that
  a stream of them can starve the polls: `DrainCompletes` says "drained" only if
  the asking ends, and "empty" without that condition.
* `ReportPublication`: every listing of the history synchronises again;
  publishers may stop at any step.
* `EventStream`: a page connects again and its stream goes on (weak), as the
  timer of the page and the event loop see to. Nothing is assumed of the worker
  or of requests: the page is told though nobody else ever tells the log.

## 4. Findings and known weaknesses

The violation run ends in a counterexample to a sentence of the repository.

* `WD_v_abandon`: the API's lookup closes the job of a pending slot, which is
  then acknowledged as "terminal" though its work never ran.

Other limits of the code that the models show and that no run claims away:

* A cancel that read "queued" deletes the retry that RQ scheduled meanwhile and
  then only flags the row (`Unqueue`, `MarkCancel` of `AnalysisJobs`); it stays
  `waiting_retry`, though `docs/architecture.md` has it cancelled. The window is
  narrow: the job must be taken, fail and be rescheduled between two reads of one
  request.
* The manual watchlist run and the trigger monitor push the task of the row they
  created without asking for it (`CreateDirect`, `Push`). A request may find that
  row in between, queued and without a task, and push it; if several workers run,
  one may then be inside the run when the second entry is taken by another, since
  "running" does not stop a worker at its guard. Hence the exception of `Direct`
  in `ExclusiveRun`: without it TLC finds this trace with no crash and no Redis
  error. `start_mac.command` starts one worker (line 533), which takes the
  entries one after the other and finds a finished row the second time.
* With a cancel *and* the death of the process between `Unqueue` and `MarkCancel`
  a job is left without a task and without a flag; an attaching request pushes it
  again while the worker that took the first entry still runs it. `ExclusiveRun`
  is checked, and proved, without the death of a client.
* A stale active row keeps the unique index, is skipped by the lookup, and so
  refuses every request for its key, `force=true` included (`Conflict`).
* The UPDATE of a worker makes a superseded job active again.
  `OnlyCancelledRevive` states what is left: the flag stays, the key is free and
  the run stops at its next check.
* The done event of a run is appended even if a cancel between its last check and
  its UPDATE leaves the row cancelled: a page may be told "done" of a row that
  says cancelled (the exception in `TellsTheRow`).
* Start-up reconciliation may close the job of a slot that was claimed between
  its reads (`boot_race` of `WatchlistDispatch`).
* A nightly row that its own night does not settle is never served again, and if
  its job was created and not pushed it stays exempt from abandonment.
* A request that attaches to the job of a nightly row pushes it too, since only
  watchlist dispatches are exempt; `OnePush` of `NightlyDispatch` is about ticks.
* If the recovery of a publication fails too, the index may keep a row of an
  incomplete bundle: the stamp of a row is the latest of its files and does not
  tell a removal (`IndexHeals` is about complete bundles).

## 5. Proofs

All theorems hold for any sets of processes, jobs, keys, tasks and so on, and any
bounds on retries, crashes, faults and time. They rest only on the named
assumptions in the modules: the constants are of their kind, sets of different
kinds of ids do not overlap, a "nobody" is nobody, there is at least one
pipeline. The theorems of `AnalysisRunsProofs`, and `NoSlotDroppedAlways` and
`OnlyTheLookupTerminalizes` of the watchlist, also have hypotheses of their own,
each stated in the theorem and explained below.

| Module | Theorems |
|---|---|
| `AnalysisJobsProofs` | `TypesAlways` (`TypeOK`), `ShapeAlways` (`Shape`), `OneActiveAlways` (`OneActivePerKey`), `CancelledWasRequestedAlways`, `DoneHasEveryReportAlways`, `NoStageAfterCancelAlways` |
| `AnalysisRunsProofs` | `ExclusiveRunAlways`, `OnlyCancelledReviveAlways`, `NoReportAfterSettlingAlways`, `ImplementsLifecycleAlways`, `StartedHasOwnerAlways`, `RetryPromiseKeptAlways` |
| `NightlyDispatchProofs` | `TypesAlways` (`TypeOK`), `OnePushAlways`, `NoRowDroppedAlways`, `InputFixedAlways`, `LeaseRespectedAlways`, `BaselineHeldAlways` |
| `MaintenanceGateProofs` | `SoundAlways` (`Sound`), `TypesAlways` (`TypeOK`), `QuietAlways` (`QuietOnceDrained`), `OneLateWorkAlways`, `PlanFixedAlways`, `GateImplementsDrainGate` (`ImplementsDrainGate`) |
| `LlmCongestionProofs` | `TypesAlways` (`TypeOK`), `CooldownNeverShortenedAlways`, `OneLiveProbeAlways`, `RecoveredByProbeAlways`, `OpenedOnEvidenceAlways` |
| `WatchlistDispatchProofs` | `TypesAlways` (`TypeOK`), `LeaseRespectedAlways`, `OnePushAlways`, `NoSlotDroppedAlways`, `OnlyTheLookupTerminalizes` (`PendingNotTerminalized`) |
| `ReportPublicationProofs` | `TypesAlways` (`TypeOK`), `VisibleIsWholeAlways`, `ReadsWholeAlways`, `FailedRestoresAlways`, `NothingReplacedAlways`, `DoneIsPublishedAlways` |
| `EventStreamProofs` | `TypesAlways` (`TypeOK`), `ReplayExactAlways`, `TellsTheRowAlways` |

### AnalysisJobs
None of the invariants is inductive by itself, because an UPDATE that was
chosen earlier runs later. The strengthening comes in layers:

1. `Shape`: types; a process that works on a job holds one (`Holding`); an
   UPDATE is pending exactly in the states that lead to one, and only with the
   statements its code can choose (`ClientPending`, `WorkerPending`); in the
   loop the counter is at a pipeline (`InLoop`). One lemma per actor.
2. `Unique(rows)`: only `Create` and `Supersede` add a holder of a key; every
   other writer either leaves fewer holders (`FewerHolders`) or is checked by
   the index. `RowWriters` and `RowWrites` reduce all actions to the few ways in
   which a row can change.
3. `Existing` (what is about to be written exists) and `Requested` (a pending
   "cancelled" belongs to a flagged row, and flags are never taken back, `Stays`)
   give `CancelledWasRequested`.
4. `Published`: a worker whose counter is at *n* has published 1..*n*-1 and a
   pending "done" has published all. Reports only grow (`ReportsGrow`), so that
   neither a crash nor a second run takes it back. This gives
   `DoneHasEveryReport`.
5. `NoStageAfterCancel` is an action property: each step into a stage goes
   through a check of the flag.

### AnalysisJobs as it is deployed (AnalysisRunsProofs)
These speak of RQ, the workers and the rows together, and need hypotheses.
`start_mac.command` starts one web process (line 545), which has one event loop,
and one queue worker (533), so that two of them are facts of the deployment; the
rest name the faults that a result does not cover. TLC finds each property
violated on a small instance when a hypothesis is dropped: `ExclusiveRun` with
two event loops, with a web process that dies between `Unqueue` and `MarkCancel`,
or of a job that was pushed unasked; `OnlyCancelledRevive` with two workers;
`StartedHasOwner` with two workers, a cancel, a lost Redis reply or a locked
database.

1. `Base` holds of every behaviour: the invariants above, and `Present`, that a
   process or RQ has nothing of a job before its row is inserted. `Runs` and
   `QueueSteps` sum up all actions: who enters, stays in and leaves a run, and
   who changes the task of a job.
2. `ExclusiveRun` (`OneWeb`, no `client_crash`; any number of workers, and of
   threads and other processes that look up, cancel, create and push). It is
   about jobs that the API created, those not in `Direct`. The task of such a job
   is in the list at most once, and not while a run of it goes on (`QueuedOnce`):
   only the event loop pushes it or takes it out (`Asked`). What makes this
   inductive is the hash: during a run it is "started", or a cancel has taken it
   and is recorded or on its way to be (`Withdrawn`); so a request that sees no
   hash and no flag knows that nothing runs, and a request between its probe and
   its push finds that still so (`Asked`, `Undisturbed`).
3. `OnlyCancelledRevive`, `NoReportAfterSettling` and `ImplementsLifecycle`
   (`OneWorker`, no `redis_error`). `Life`: a run past its guard, and an UPDATE
   that waits in a worker, is of a job that is active or flagged (`Ours`), or of
   one whose "done" that run has just written (`Past`), and past the first UPDATE
   of one that left the queue (`Begun`). No request breaks it, because whatever a
   request stores over an active row also sets the flag (`OtherRows`); a failed
   push would not, hence the hypothesis. The refinement then maps each writer of
   a row to one step of `JobLifecycle` (`RunDocuments`, `PersistDocuments`,
   `BootDocuments`, `ClientDocuments`), and all other steps to stuttering.
4. `StartedHasOwner` and `RetryPromiseKept` (`Calm`: moreover no cancel and no
   locked database). `Backs` says where the worker must be for every row that
   left the queue: consuming, all but its own are queued or scheduled;
   reconciling, they are so or on its list of lost ones; and it leaves its own
   row settled, or RQ with a retry left. The index never refuses an UPDATE
   (`NotRefused`), so that no step on that way is skipped. What is proved is more
   than the properties ask: once the worker consumes, RQ tracks each such row
   without waiting for a clean-up of its registries.

### WatchlistDispatch
`Shape` says more than the types: what a tick, a request or the worker holds in
its hands fits where it stands, and a row names its holder exactly while it is
leased. Actions are summed up per table (`RowSteps`,
`QueueSteps`, `JobSteps`: who may write a row, a task, a job, and how), so that
each invariant is shown once per kind of step and once per actor.

* `LeaseRespected` follows from `Shape`: every tick that writes a row first
  looks at the token.
* `OnePush` needs `CountedAt`: a slot's task was pushed at most once since a
  cancel deleted it, and not at all while there is no hash; `Exec` pushes only
  where it finds none.
* `NoSlotDropped` needs `Evidence`. Whatever a tick may acknowledge by (a task
  in Redis, a row that left "queued", a job it attached to) came from a push or
  from a user, and this is recorded for every process in the middle of a call:
  for the job it found, the row it read, the queues a starting worker saw. The
  theorem holds with every fault the model has, a death between a pop and its
  hash (`pop_crash`) included, but assumes `"boot_race" \notin Env` and
  `"api_lookup" \notin Env`: with either, TLC finds a slot dropped (section 4),
  so that both hypotheses are needed. The instance of `WD_dispatch` meets them.
* `OnlyTheLookupTerminalizes` is the converse of the finding: with the API's
  lookup left out nothing but a user ends the job of a pending dispatch, so the
  lookup is the only cause of `WD_v_abandon`.

### NightlyDispatch
`Typed` is the shape of tables and processes. On it rest `Counts` (a row whose
job has no task was not pushed, hence `OnePush`, since a push is conditional on
the absence of the task), `Existing` (a job is of a recorded row, a task of a
job), `Evidence` (whatever makes a tick acknowledge, a task, a terminal row, an
answer of Redis, came from a push, a worker or a request: `NoRowDropped`),
`Inputs` (a job exists only for a row whose input is stored, and the copy a tick
works on is the row's as long as its token is in it: `InputFixed`) and
`Quiesced` (while a baseline is on disk the queue is paused, and no tick is past
its checks and no worker at a job, whether or not the controller lives:
`BaselineHeld`).

### MaintenanceGate
"Drained means quiet" is not inductive. `Sound` adds to it who holds which lock
(`Ownership`), what a controller may assume of the phase it read before
(`Phases`), and that a lease is for one piece of work because the phase never
returns to "normal" (`Leased`). For the refinement each step of the gate is
shown to be a step of `DrainGate` or a stutter under the mapping; the two cases
that need the invariant are "drained", which needs everybody out, and work,
which needs somebody inside.

### LlmCongestion
`Transition` lists the few ways in which an operation changes a circuit and
`AfterMoves` shows that every operation of the script, and of its twin, is one
of them; `NextSteps` reduces the actions to transitions of the circuit in Redis,
of a mirror, or a quarantine. Then

* `Lagging`: what a process in touch with Redis remembers of a cool-down is not
  longer than the one in Redis, or it is over; with the wait that a quarantine
  keeps this gives `CooldownNeverShortened`;
* `Probes`: the probe that Redis admitted owns the circuit as long as its lease
  runs; its process remembers this too, or has lost Redis and is closed for
  longer than the lease. This gives `OneLiveProbe` and `RecoveredByProbe`;
* `Evidence`: every remembered 429 is of an attempt of this generation that
  ended then, and the hint covers what it asked for; this gives
  `OpenedOnEvidence`.

### ReportPublication
The two kinds of publication share the storage but not their argument, and
`mode` never changes. For an ordinary report `Ordinary` says that one publication
at a time is under way and that, in its recovery, every artifact behind the
cursor is what it found and every artifact not yet attempted was never touched:
`FailedRestores`. For a create-only report `Campaign` says who holds the root
lock, which artifacts its publication has written by its counter, that an
attempt receipt precedes every artifact and a completion receipt follows all,
and what a synchronisation or a reader in the middle of its calls may have seen.
Then a report that is not hidden is nobody's or whole (`VisibleIsWhole`), and
because nothing in the storage is replaced (`NothingReplaced`) what a reader
loaded is hidden for good at its second look, or whole (`ReadsWhole`). The
synchronisation of the index writes rows only.

### EventStream
`Replay` says that the cursor of an open stream is what its page has heard, and
that what a stream still sends is in the log, which only grows; with it
`ReplayExact` is inductive. `TellsTheRow` is not, because the row goes on
changing after an event was chosen. `Truth` adds where the worker is when the
row has ended (`RowEnded`), what an UPDATE under way can be (`Pending`: one that
was skipped was chosen for a cancelled row, a "cancelled" for a flagged one),
and that whatever was said, in the log, by a stream or in a request that has
still to tell, is so (`Truthful`). The core of it: once "done" was said, the
worker is past its last UPDATE, and a flag is never taken back.

### Only model-checked
Liveness (`ActiveSettles`, `DispatchSettles`, `RowSettles`, `DrainCompletes`,
`IndexHeals`, `EveryPageIsTold`), which with its fairness and `ENABLED` is out of
the prover's reach. Every invariant and every other action property of the
passing runs is stated by a theorem. That the operators of `LlmCongestion` agree
with the script for every input is by reading; the exponent of the back-off is
only bounded, not evaluated, in the proofs.

## 6. Not modelled

* **Rolling-window limits and the daily budget** (`shared_runtime_guards.py`,
  `llm_daily_budget.py`): sums over clocks and counters in three stores. What is
  order of events in them, the loss of Redis in one process, has the shape of
  `LlmCongestion`; the rest is arithmetic over dates.
* **Provider throttle and circuit breaker**: an interval and a failure counter in
  one process, best effort.
* **Agent runtime and repair loop**: one process repairs one analysis in
  sequence; prompts and validators are data. **Workflow graph**: LangGraph and its
  saver; a pipeline is one stage of `AnalysisJobs`.
* **Rerun of a report**: the shape of a run with one stage, its own key and no
  attach.
* **Of the SSE stream**: events that do not parse, which are shown as warnings; a
  job whose row retention has deleted; the twin generator of report reruns.
* **Watchlist items and triggers**: which items exist and what makes them due is an
  input; items edited, disabled or removed while a dispatch is pending are a
  listed hazard.
* `LocalAsyncQueue` and ARQ (not started by the shipped roles),
  `touch_worker_claim`, deletion of jobs and reports, sidecars and query filters of
  the history, the permission checks of the gate's directory, the switch of
  releases and containers.
* A worker that dies between taking an id off the list and writing that it
  started: an action of `WatchlistDispatch` (`pop_crash`) that no run enables,
  since what happens next is RQ's doing and differs between its versions. Two
  queue workers are in `AJ_one_job`; deployments start one.
* What analyses compute, prompts, validators, adapters, rendering, the UI: most of
  the source by size, and no order of events.

## 7. Plan

1. Proofs: weaker hypotheses for what `AnalysisRunsProofs` shows (what is left of
   the promise of a retry under cancels; several workers).
2. `RollingWindow`: the reservations of the limiter, with the abstract
   specification "at most *n* admissions in any window", and the day change of
   the daily budget.
3. `RepairTransaction`: commit or restore of a repair round, with its circuit.
