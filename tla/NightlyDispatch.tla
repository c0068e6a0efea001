--------------------------- MODULE NightlyDispatch ---------------------------
(***************************************************************************)
(* The overnight dispatcher (nightly_analysis*.py) and the deployment that *)
(* pauses it (nightly_deployment_gate.py, deployment_rq_pause.py,          *)
(* scripts/paused_runtime_deploy.py).  Each session has one row per        *)
(* (ticker, pipeline) in nightly_analysis_work_v1; a tick leases a row,    *)
(* fetches its input for minutes, stores it, creates the job of the row's  *)
(* own id and pushes its task.  A tick holds the admission fence shared    *)
(* from its first read to its last write; a deployment sets the RQ pause,  *)
(* waits for the fence exclusively and then compares two snapshots.        *)
(*                                                                         *)
(* All rows and manual jobs here are of one (ticker, pipeline): row r      *)
(* belongs to session r.  API and worker are reduced to what a row meets   *)
(* (AnalysisJobs and WatchlistDispatch have the rest).                     *)
(***************************************************************************)
EXTENDS Naturals, FiniteSets

CONSTANTS Nights,      \* number of sessions
          Manual,      \* ids of jobs that requests create
          Ticks,       \* scheduler processes
          None,        \* nobody, nothing
          MaxAttempts, \* failed acquisitions of a row before it is given up
          MaxFaults,   \* bound: crashes, slow ticks, cancellations, Redis errors
          Requests, Deployments \* whether there are requests, and deployments

ASSUME NightsAssumption == Nights \in Nat /\ MaxAttempts \in Nat /\ MaxFaults \in Nat
ASSUME ActorsAssumption  == Requests \in BOOLEAN /\ Deployments \in BOOLEAN
ASSUME NoneAssumption   == None \notin Ticks \cup Manual \cup (1..Nights) /\ Manual \cap (1..Nights) = {}

Rows == 1..Nights
Jobs == Rows \cup Manual

VARIABLES work,      \* nightly_analysis_work_v1
          night, open,    \* the current session, and whether its window is open
          status, task,   \* analysis_jobs; RQ: each job's task
          pushes,    \* pushes of a row's task by ticks, since a cancel deleted it
          reached,   \* jobs a worker executed, or that a request pushed, closed or cancelled
          tpc, session, item, stopping,  \* a tick, its session (the row it serves), what it
                     \* read of the row, and whether its waiter was cancelled
          api,       \* the row whose task a request is about to push again
          wpc, wjob, \* the queue worker
          paused,    \* the suspension key of a deployment
          ctl, base, \* the deployment, and its baseline on disk
          faults

jobVars  == <<status, task, pushes, reached>>
tickVars == <<tpc, session, item, stopping>>
workerVars == <<wpc, wjob>>
deployVars == <<paused, ctl, base>>
vars == <<work, night, open, jobVars, tickVars, api, workerVars, deployVars, faults>>

Active == {"queued", "running"}
Ended  == {"done", "error", "cancelled"}

(* A row of the table: its state, its lease, and the tick whose input it stores. *)
WorkRow == [state : {"absent", "pending", "prepared", "dispatched"}, attempts : 0..MaxAttempts, due : BOOLEAN,
            holder : Ticks \cup {None}, lapsed : BOOLEAN, data : Ticks \cup {None}]

Absent  == [state |-> "absent", attempts |-> 0, due |-> TRUE, holder |-> None,
            lapsed |-> FALSE, data |-> None]
Nothing == [data |-> None, attempts |-> 0]

Init ==
    /\ work = [r \in Rows |-> Absent] /\ night = 0 /\ open = FALSE
    /\ status = [j \in Jobs |-> "absent"] /\ task = [j \in Jobs |-> "none"]
    /\ pushes = [r \in Rows |-> 0] /\ reached = {}
    /\ tpc = [t \in Ticks |-> "idle"] /\ session = [t \in Ticks |-> 0]
    /\ item = [t \in Ticks |-> Nothing] /\ stopping = {}
    /\ api = None /\ wpc = "boot" /\ wjob = None
    /\ paused = FALSE /\ ctl = "none" /\ base = <<>> /\ faults = 0

Fault == faults < MaxFaults /\ faults' = faults + 1

(* find_active_job: the row that holds the unique index of the key. *)
Holders == {j \in Jobs : status[j] \in Active}

(* Mutant: a prepared row no longer protects its job. *)
PendingJobsUnprepared == {r \in Rows : work[r].state = "pending"}

(* pending_job_ids: rows of every session that nobody acknowledged. *)
PendingJobs == {r \in Rows : work[r].state \in {"pending", "prepared"}}

HasTask(j) == task[j] \in {"queued", "popped", "started"}

-----------------------------------------------------------------------------
(* Time. *)

NightBegins ==
    /\ ~open /\ night < Nights
    /\ night' = night + 1 /\ open' = TRUE
    /\ UNCHANGED <<work, jobVars, tickVars, api, workerVars, deployVars, faults>>

NightEnds ==
    /\ open /\ open' = FALSE
    /\ UNCHANGED <<work, night, jobVars, tickVars, api, workerVars, deployVars, faults>>

(* next_attempt (300 or 900 s after a refusal or failure) has come. *)
Due(r) ==
    /\ ~work[r].due
    /\ work' = [work EXCEPT ![r].due = TRUE]
    /\ UNCHANGED <<night, open, jobVars, tickVars, api, workerVars, deployVars, faults>>

(* The tick that claimed the row is still at work on it. *)
Served(r) ==
    \E t \in Ticks :
        /\ session[t] = r /\ work[r].holder = t
        /\ tpc[t] \notin {"idle", "fenced", "seed", "check", "claim"}

(* 600 s passed since the claim: a fault while the tick is only slow, since *)
(* an acquisition is bounded to 240 s; certain once the tick is gone.       *)
Lapse(r) ==
    /\ work[r].holder # None /\ ~work[r].lapsed
    /\ IF Served(r) THEN Fault ELSE UNCHANGED faults
    /\ work' = [work EXCEPT ![r].lapsed = TRUE]
    /\ UNCHANGED <<night, open, jobVars, tickVars, api, workerVars, deployVars>>

-----------------------------------------------------------------------------
(* A tick.  update_owned writes only for the tick whose token is in the row. *)

Row(t)  == session[t]
Mine(t) == work[Row(t)].holder = t

(* Mutant: the lease token is not compared. *)
OwnedByClock(t) == work[Row(t)].holder # None /\ ~work[Row(t)].lapsed

(* The token is this tick's, and the lease has not expired by the clock. *)
Owned(t) == Mine(t) /\ ~work[Row(t)].lapsed

Write(t, owns, row) == work' = IF owns THEN [work EXCEPT ![Row(t)] = row] ELSE work

Released(row) == [row EXCEPT !.holder = None, !.lapsed = FALSE]
Deferred(row) == [Released(row) EXCEPT !.due = FALSE]
Counted(t)    == IF item[t].attempts < MaxAttempts THEN item[t].attempts + 1 ELSE MaxAttempts

Tick(t, pc) == tpc' = [tpc EXCEPT ![t] = pc] /\ UNCHANGED <<session, item, stopping>>

(* process_one returns or raises; the fence is closed with it. *)
Return(t) ==
    /\ tpc' = [tpc EXCEPT ![t] = "idle"] /\ session' = [session EXCEPT ![t] = 0]
    /\ item' = [item EXCEPT ![t] = Nothing] /\ stopping' = stopping \ {t}

Elsewhere == UNCHANGED <<night, open, api, workerVars, deployVars>>
TickOnly  == Elsewhere /\ UNCHANGED <<work, jobVars, faults>>
RowOnly   == Elsewhere /\ UNCHANGED <<jobVars, faults>>

(* The exception handler of _process_admitted. *)
FailItem(t) == Write(t, Owned(t), [Deferred(work[Row(t)]) EXCEPT !.attempts = Counted(t)]) /\ Return(t)

(* NightlyWorkFence, shared: refused while a deployment holds it. *)
Enter(t) ==
    /\ tpc[t] = "idle" /\ open
    /\ ctl \notin {"fenced", "drained"}
    /\ Tick(t, "fenced") /\ TickOnly

(* _pause_status and session_for_acquisition. *)
Admit(t) ==
    /\ tpc[t] = "fenced"
    /\ IF paused \/ ~open THEN Return(t)
       ELSE /\ session' = [session EXCEPT ![t] = night] /\ tpc' = [tpc EXCEPT ![t] = "seed"]
            /\ UNCHANGED <<item, stopping>>
    /\ TickOnly

(* seed: the rows of a session once, in one transaction, if the calendar is *)
(* known and names it a trading day.                                        *)
Seed(t) ==
    /\ tpc[t] = "seed"
    /\ \/ work[Row(t)].state # "absent" /\ Tick(t, "check") /\ UNCHANGED work
       \/ /\ work[Row(t)].state = "absent"
          /\ work' = [work EXCEPT ![Row(t)].state = "pending"] /\ Tick(t, "check")
       \/ work[Row(t)].state = "absent" /\ Return(t) /\ UNCHANGED work
    /\ RowOnly

Check(t) ==
    /\ tpc[t] = "check"
    /\ IF paused THEN Return(t) ELSE Tick(t, "claim")
    /\ TickOnly

(* Mutant: a row is not claimed again once its input is stored. *)
ClaimableOnce(row) ==
    /\ row.state = "pending" /\ row.due
    /\ row.holder = None \/ row.lapsed
    /\ row.attempts < MaxAttempts

Claimable(row) ==
    /\ row.state \in {"pending", "prepared"} /\ row.due
    /\ row.holder = None \/ row.lapsed
    /\ row.data # None \/ row.attempts < MaxAttempts

(* Mutant: the query forgets lease_until. *)
ClaimHeld(t) ==
    /\ tpc[t] = "claim"
    /\ work[Row(t)].state \in {"pending", "prepared"} /\ work[Row(t)].due
    /\ work' = [work EXCEPT ![Row(t)].holder = t, ![Row(t)].lapsed = FALSE]
    /\ item' = [item EXCEPT ![t] = [data |-> work[Row(t)].data, attempts |-> work[Row(t)].attempts]]
    /\ tpc' = [tpc EXCEPT ![t] = "claimed"] /\ UNCHANGED <<session, stopping>>
    /\ RowOnly

(* claim: the tick works on the copy of the row that it read here. *)
Claim(t) ==
    /\ tpc[t] = "claim"
    /\ IF Claimable(work[Row(t)])
       THEN /\ work' = [work EXCEPT ![Row(t)].holder = t, ![Row(t)].lapsed = FALSE]
            /\ item' = [item EXCEPT ![t] = [data |-> work[Row(t)].data, attempts |-> work[Row(t)].attempts]]
            /\ tpc' = [tpc EXCEPT ![t] = "claimed"] /\ UNCHANGED <<session, stopping>>
       ELSE Return(t) /\ UNCHANGED work
    /\ RowOnly

(* _pause_status again, before the search and before the dispatch; TickFails *)
(* has the look that Redis does not answer. *)
Recheck(t) ==
    /\ tpc[t] \in {"claimed", "fetched"}
    /\ IF paused THEN Write(t, Owned(t), Released(work[Row(t)])) /\ Return(t)
       ELSE Tick(t, IF tpc[t] = "claimed" THEN "find" ELSE "create") /\ UNCHANGED work
    /\ RowOnly

(* An active job of the key that is not this row's: wait, never attach.  The *)
(* clock of this write is the start of the tick, before the lease can end.   *)
Find(t) ==
    /\ tpc[t] = "find"
    /\ IF Holders \ {Row(t)} # {}
       THEN Write(t, Mine(t), Deferred(work[Row(t)])) /\ Return(t)
       ELSE Tick(t, "read") /\ UNCHANGED work
    /\ RowOnly

(* get_job: execution or an end in SQLite acknowledges the row. *)
Read(t) ==
    /\ tpc[t] = "read"
    /\ IF status[Row(t)] \in Ended \cup {"running"}
       THEN Write(t, Mine(t), [Released(work[Row(t)]) EXCEPT !.state = "dispatched"]) /\ Return(t)
       ELSE Tick(t, IF item[t].data = None THEN "fetch" ELSE "fetched") /\ UNCHANGED work
    /\ RowOnly

(* The waiter is cancelled; the accepted fetch is settled all the same. *)
CancelWaiter(t) ==
    /\ tpc[t] = "fetch" /\ t \notin stopping /\ Fault
    /\ stopping' = stopping \cup {t}
    /\ Elsewhere /\ UNCHANGED <<work, jobVars, tpc, session, item>>

(* The acquisition ends with sources that are not ready yet ... *)
FetchRefused(t) ==
    /\ tpc[t] = "fetch"
    /\ Write(t, Owned(t), [Deferred(work[Row(t)]) EXCEPT !.attempts = Counted(t)])
    /\ Return(t) /\ RowOnly

(* ... or with an input, which is stored before anything else is decided; a  *)
(* cancelled tick then releases the row and goes no further.                 *)
FetchEligible(t) ==
    LET prepared == [work[Row(t)] EXCEPT !.state = "prepared", !.data = t, !.attempts = Counted(t)]
    IN /\ tpc[t] = "fetch"
       /\ Write(t, Owned(t), IF t \in stopping THEN Released(prepared) ELSE prepared)
       /\ IF ~Owned(t) \/ t \in stopping THEN Return(t) ELSE Tick(t, "fetched")
       /\ RowOnly

(* The acquisition raises, or the gates on the stored input, or SQLite do, or *)
(* Redis cannot say whether a deployment pauses the queue, which counts as   *)
(* paused (before the claim there is only the tick to end, as in TickCrash). *)
(* That look, and a cancelled tick, give the row back and count no attempt.  *)
TickFails(t) ==
    /\ tpc[t] \in {"claimed", "fetch", "fetched", "create"} /\ Fault
    /\ IF t \in stopping \/ tpc[t] \in {"claimed", "fetched"}
       THEN Write(t, Owned(t), Released(work[Row(t)])) /\ Return(t)
       ELSE FailItem(t)
    /\ Elsewhere /\ UNCHANGED jobVars

(* create_job under the row's id; another active job of the key refuses it. *)
CreateJob(t) ==
    /\ tpc[t] = "create"
    /\ \/ status[Row(t)] # "absent" /\ Tick(t, "enqueue") /\ UNCHANGED <<work, status>>
       \/ status[Row(t)] = "absent" /\ Holders # {} /\ FailItem(t) /\ UNCHANGED status
       \/ /\ status[Row(t)] = "absent" /\ Holders = {}
          /\ status' = [status EXCEPT ![Row(t)] = "queued"]
          /\ Tick(t, "enqueue") /\ UNCHANGED work
    /\ Elsewhere /\ UNCHANGED <<task, pushes, reached, faults>>

Push(r) == task' = [task EXCEPT ![r] = "queued"] /\ pushes' = [pushes EXCEPT ![r] = @ + 1]

(* Mutant: the task hash is not looked at. *)
EnqueueAgain(t) ==
    /\ tpc[t] = "enqueue"
    /\ Push(Row(t)) /\ Tick(t, "mark")
    /\ Elsewhere /\ UNCHANGED <<work, status, reached, faults>>

(* enqueue_once, whose WATCH makes the look and the push one step; a task in *)
(* a worker's hands confirms nothing (WatchlistDispatch has both halves), and *)
(* one that a request pushed, to another queue, is different work (reached   *)
(* holds more than these: the refusal may come more often than in the code). *)
Enqueue(t) ==
    /\ tpc[t] = "enqueue"
    /\ \/ task[Row(t)] = "none" /\ Push(Row(t)) /\ Tick(t, "mark") /\ UNCHANGED work
       \/ /\ task[Row(t)] \in {"queued", "started", "finished"}
          /\ Tick(t, "mark") /\ UNCHANGED <<work, task, pushes>>
       \/ /\ task[Row(t)] = "popped" \/ (task[Row(t)] # "none" /\ Row(t) \in reached)
          /\ FailItem(t) /\ UNCHANGED <<task, pushes>>
    /\ Elsewhere /\ UNCHANGED <<status, reached, faults>>

(* Redis fails; the push may have happened. *)
EnqueueFails(t) ==
    /\ tpc[t] = "enqueue" /\ Fault
    /\ UNCHANGED <<task, pushes>> \/ (task[Row(t)] = "none" /\ Push(Row(t)))
    /\ FailItem(t)
    /\ Elsewhere /\ UNCHANGED <<status, reached>>

(* The row is acknowledged if it is still leased; nobody looks at the result. *)
Mark(t) ==
    /\ tpc[t] = "mark"
    /\ Write(t, Owned(t), [Released(work[Row(t)]) EXCEPT !.state = "dispatched"])
    /\ Return(t) /\ RowOnly

(* The process dies: its lock goes, its lease stays. *)
TickCrash(t) ==
    /\ tpc[t] # "idle" /\ Fault
    /\ Return(t) /\ Elsewhere /\ UNCHANGED <<work, jobVars>>

-----------------------------------------------------------------------------
(* Requests, reduced to what they do to a job in one step; an attach looks  *)
(* at the task and pushes it later.                                         *)

ByRequest == UNCHANGED <<work, night, open, tickVars, workerVars, deployVars>>

(* A new job of the key; with force it supersedes the active one. *)
Submit(j) ==
    /\ j \in Manual /\ status[j] = "absent"
    /\ status' = [i \in Jobs |-> IF i = j THEN "queued"
                                 ELSE IF i \in Holders THEN "cancelled" ELSE status[i]]
    /\ task' = [task EXCEPT ![j] = "queued"] /\ reached' = reached \cup Holders
    /\ ByRequest /\ UNCHANGED <<pushes, api, faults>>

(* Only watchlist dispatches are exempt here: a row's job is not. *)
Attach(r) ==
    /\ api = None /\ r \in Rows /\ status[r] = "queued" /\ ~HasTask(r)
    /\ api' = r
    /\ ByRequest /\ UNCHANGED <<jobVars, faults>>

AttachPush ==
    /\ api # None /\ api' = None
    /\ \/ task' = [task EXCEPT ![api] = "queued"] /\ UNCHANGED <<status, faults>>
       \/ /\ Fault /\ UNCHANGED task
          /\ status' = [status EXCEPT ![api] = IF @ \in Ended THEN @ ELSE "error"]
    /\ reached' = reached \cup {api}
    /\ ByRequest /\ UNCHANGED pushes

(* A person cancels a queued job: its task is deleted. *)
Cancel(j) ==
    /\ status[j] = "queued"
    /\ status' = [status EXCEPT ![j] = "cancelled"] /\ task' = [task EXCEPT ![j] = "none"]
    /\ pushes' = [r \in Rows |-> IF r = j THEN 0 ELSE pushes[r]]
    /\ reached' = reached \cup {j}
    /\ ByRequest /\ UNCHANGED <<api, faults>>

(* The API's lookup closes an active row without a task; it knows no exemption. *)
ApiLookup(j) ==
    /\ j \in Holders /\ ~HasTask(j)
    /\ status' = [status EXCEPT ![j] = "error"] /\ reached' = reached \cup {j}
    /\ ByRequest /\ UNCHANGED <<task, pushes, api, faults>>

(* The scheduler's lookup leaves the jobs of pending rows alone. *)
SchedulerLookup(j) ==
    /\ j \in Holders \ PendingJobs /\ ~HasTask(j)
    /\ status' = [status EXCEPT ![j] = "error"]
    /\ ByRequest /\ UNCHANGED <<task, pushes, reached, api, faults>>

-----------------------------------------------------------------------------
(* The queue worker. *)

ByWorker == UNCHANGED <<work, night, open, pushes, tickVars, api, deployVars>>

(* reconcile_abandoned_rq_jobs, in one step. *)
Boot ==
    /\ wpc = "boot" /\ wpc' = "free"
    /\ status' = [j \in Jobs |-> IF j \in Holders \ PendingJobs /\ ~HasTask(j) THEN "error" ELSE status[j]]
    /\ ByWorker /\ UNCHANGED <<task, reached, wjob, faults>>

(* RQ looks for a suspension before it waits for work, not while it waits. *)
Suspend ==
    /\ \/ wpc = "free" /\ wpc' = IF paused THEN "suspended" ELSE "waiting"
       \/ wpc = "suspended" /\ ~paused /\ wpc' = "free"
       \/ wpc = "waiting" /\ wpc' = "free"
    /\ ByWorker /\ UNCHANGED <<status, task, reached, wjob, faults>>

Pop(j) ==
    /\ wpc = "waiting" /\ task[j] = "queued"
    /\ wpc' = "popped" /\ wjob' = j /\ task' = [task EXCEPT ![j] = "popped"]
    /\ ByWorker /\ UNCHANGED <<status, reached, faults>>

Start ==
    /\ wpc = "popped" /\ wpc' = "running"
    /\ task' = [task EXCEPT ![wjob] = "started"]
    /\ IF status[wjob] \in Ended THEN UNCHANGED <<status, reached>>
       ELSE status' = [status EXCEPT ![wjob] = "running"] /\ reached' = reached \cup {wjob}
    /\ ByWorker /\ UNCHANGED <<wjob, faults>>

Finish ==
    /\ wpc = "running" /\ wpc' = "free" /\ wjob' = None
    /\ task' = [task EXCEPT ![wjob] = IF @ = "started" THEN "finished" ELSE @]
    /\ \E s \in {"done", "error"} :
          status' = [status EXCEPT ![wjob] = IF @ \in Ended THEN @ ELSE s]
    /\ ByWorker /\ UNCHANGED <<reached, faults>>

WorkerCrash ==
    /\ wpc # "popped" /\ Fault
    /\ wpc' = "boot" /\ wjob' = None
    /\ ByWorker /\ UNCHANGED <<status, task, reached>>

(* RQ pushes a started task whose worker is gone back, or gives it up. *)
CleanRegistry(j) ==
    /\ task[j] = "started" /\ wjob # j
    /\ \E s \in {"queued", "finished"} : task' = [task EXCEPT ![j] = s]
    /\ ByWorker /\ UNCHANGED <<status, reached, workerVars, faults>>

-----------------------------------------------------------------------------
(* A deployment (paused_runtime_deploy.py). *)

ByDeployment == UNCHANGED <<work, night, open, jobVars, tickVars, api, workerVars>>

(* OwnedRqPause.acquire; after a crash the recorded token is checked instead. *)
Pause ==
    /\ \/ ctl = "none" /\ ~paused
       \/ ctl = "gone" /\ paused
    /\ ctl' = "pausing" /\ paused' = TRUE
    /\ ByDeployment /\ UNCHANGED <<base, faults>>

(* Mutant: the exclusive lock is not waited for. *)
FenceAtOnce ==
    /\ ctl = "pausing" /\ ctl' = "fenced"
    /\ ByDeployment /\ UNCHANGED <<paused, base, faults>>

(* The fence, exclusively: no tick is under way. *)
Fence ==
    /\ ctl = "pausing" /\ \A t \in Ticks : tpc[t] = "idle"
    /\ ctl' = "fenced"
    /\ ByDeployment /\ UNCHANGED <<paused, base, faults>>

(* workers(drained), no_active_jobs and the registries of started work. *)
Drained ==
    /\ wpc = "suspended"
    /\ \A j \in Jobs : status[j] # "running" /\ task[j] # "started"
    /\ \A r \in Rows : work[r].holder = None \/ work[r].lapsed

(* The baseline of the first attempt stays the baseline of every recovery. *)
Baseline ==
    /\ ctl = "fenced" /\ Drained
    /\ base' = IF base = <<>> THEN task ELSE base
    /\ ctl' = IF base'= task THEN "drained" ELSE "gone"
    /\ ByDeployment /\ UNCHANGED <<paused, faults>>

(* The comparison of the two snapshots decides whether the pause ends. *)
Resume ==
    /\ ctl = "drained"
    /\ IF Drained /\ task = base
       THEN ctl' = "none" /\ paused' = FALSE /\ base' = <<>>
       ELSE ctl' = "gone" /\ UNCHANGED <<paused, base>>
    /\ ByDeployment /\ UNCHANGED faults

(* It dies or gives up: the locks go, the suspension and the files stay. *)
DeploymentCrash ==
    /\ ctl \in {"pausing", "fenced", "drained"} /\ Fault
    /\ ctl' = "gone"
    /\ ByDeployment /\ UNCHANGED <<paused, base>>

-----------------------------------------------------------------------------
TickStep(t) ==
    \/ Enter(t) \/ Admit(t) \/ Seed(t) \/ Check(t) \/ Claim(t) \/ Recheck(t) \/ Find(t) \/ Read(t)
    \/ FetchRefused(t) \/ FetchEligible(t) \/ CreateJob(t) \/ Enqueue(t) \/ Mark(t)

TickFault(t) == CancelWaiter(t) \/ TickFails(t) \/ EnqueueFails(t) \/ TickCrash(t)

WorkerStep == Boot \/ Suspend \/ Start \/ Finish \/ \E j \in Jobs : Pop(j) \/ CleanRegistry(j)

Request ==
    \/ AttachPush
    \/ \E j \in Jobs : Submit(j) \/ Attach(j) \/ Cancel(j) \/ ApiLookup(j) \/ SchedulerLookup(j)

Deployment == Pause \/ Fence \/ Baseline \/ Resume \/ DeploymentCrash

Next ==
    \/ NightBegins \/ NightEnds \/ \E r \in Rows : Due(r) \/ Lapse(r)
    \/ \E t \in Ticks : TickStep(t) \/ TickFault(t)
    \/ WorkerStep \/ WorkerCrash
    \/ Requests /\ Request
    \/ Deployments /\ Deployment

Spec == Init /\ [][Next]_vars

(* The scheduler loop repeats its ticks, time passes, the worker works; no  *)
(* night has to begin or end, nobody has to ask or deploy anything.         *)
FairSpec ==
    /\ Spec
    /\ \A t \in Ticks : WF_vars(TickStep(t))
    /\ \A r \in Rows : WF_vars(Due(r)) /\ WF_vars(Lapse(r) /\ ~Served(r))
    /\ WF_vars(WorkerStep)

-----------------------------------------------------------------------------
(* Each variable has its type; a row has its input from the moment it is    *)
(* prepared and not before, and a tick past its checks serves a session.    *)
TypeOK ==
    /\ work \in [Rows -> WorkRow]
    /\ \A r \in Rows :
          /\ work[r].state = "pending" => work[r].data = None
          /\ work[r].state = "prepared" => work[r].data # None
    /\ night \in 0..Nights /\ open \in BOOLEAN
    /\ status \in [Jobs -> {"absent"} \cup Active \cup Ended]
    /\ task \in [Jobs -> {"none", "queued", "popped", "started", "finished"}]
    /\ pushes \in [Rows -> Nat] /\ reached \subseteq Jobs
    /\ session \in [Ticks -> 0..Nights] /\ stopping \subseteq Ticks
    /\ \A t \in Ticks : tpc[t] \notin {"idle", "fenced"} => session[t] # 0
    /\ api \in Rows \cup {None} /\ wjob \in Jobs \cup {None}
    /\ paused \in BOOLEAN /\ faults \in 0..MaxFaults

(* A row is acknowledged only for work that reached the queue, or whose job *)
(* a request took over: no crash, lapsed lease, cancelled waiter or restart *)
(* of the worker between fetch and push turns a row into "dispatched".      *)
NoRowDropped == \A r \in Rows : work[r].state = "dispatched" => pushes[r] > 0 \/ r \in reached

(* "One paid analysis job": however many ticks overlap and whatever reply   *)
(* was lost, they push a row's task once, unless a cancel deleted it.       *)
OnePush == \A r \in Rows : pushes[r] <= 1

(* An input once stored is the input of the row: a tick that was slow or    *)
(* cancelled during its fetch never replaces what its successor stored, and *)
(* what a worker executes for a row was fetched and stored before.          *)
InputFixed ==
    [][\A r \in Rows :
          /\ work[r].data # None => work'[r].data = work[r].data
          /\ (status[r] # "running" /\ status'[r] = "running") => work[r].data # None]_vars

(* Only the tick whose token is in a row changes the row, but for time and  *)
(* for a claim of a row whose lease is over.                                *)
LeaseRespected ==
    [][\A r \in Rows : LET was == work[r] IN
          /\ was.state = "dispatched" => work'[r] = [was EXCEPT !.due = work'[r].due, !.lapsed = work'[r].lapsed]
          /\ (was.holder # None /\ ~was.lapsed /\ work'[r].holder # was.holder)
                => tpc'[was.holder] # tpc[was.holder]]_vars

(* From the baseline of a deployment to its resume no tick leases, prepares *)
(* or pushes anything and no worker takes a task, though the controller may *)
(* die in between, losing its locks, and be recovered later.                *)
Untimed(r) == [work[r] EXCEPT !.due = TRUE, !.lapsed = FALSE]

BaselineHeld ==
    [][(base # <<>> /\ base' = base) =>
          /\ \A r \in Rows : Untimed(r)' = Untimed(r) /\ pushes'[r] <= pushes[r]
          /\ wjob' = wjob]_vars

(* While its night lasts a seeded row is dispatched or its attempts are     *)
(* used up, unless another job of the key is active or a deployment pauses  *)
(* the system.  (A later night does not come back to it.)                   *)
RowSettles ==
    \A r \in Rows :
        (night = r /\ r \in PendingJobs) ~>
            \/ work[r].state = "dispatched"
            \/ work[r].data = None /\ work[r].attempts = MaxAttempts
            \/ night # r \/ ~open \/ paused \/ Holders \ {r} # {}
=============================================================================
