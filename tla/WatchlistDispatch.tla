-------------------------- MODULE WatchlistDispatch --------------------------
(***************************************************************************)
(* The durable dispatch of scheduled analyses: a row of                    *)
(* watchlist_dispatches per due slot is leased by a scheduler tick, turned *)
(* into an analysis job with the same id, pushed to RQ once, and only then *)
(* acknowledged.  A tick may die, lose its lease or lose a Redis reply at  *)
(* any step; the next tick must recover the slot from what is left.        *)
(*                                                                         *)
(* All slots and manual jobs here are of one (ticker, pipeline), so that   *)
(* they meet in find_active_job and in the unique index.  The rows of the  *)
(* job table are those of JobRows, reduced to the status and the cancel    *)
(* flag ("running" stands for waiting_retry too); the worker is reduced to *)
(* start, end and its start-up reconciliation (AnalysisJobs has the rest). *)
(***************************************************************************)
EXTENDS Naturals, FiniteSets, FiniteSetsExt

CONSTANTS Slots,       \* number of slots, in the order a tick serves them
          Manual,      \* ids of jobs that requests create
          Schedulers,  \* processes that tick
          None,        \* nobody, no job
          MaxFaults,   \* bound: crashes, shutdowns, lapsed leases, Redis errors
          Env          \* which actors of the environment are there

ASSUME SlotsAssumption  == Slots \in Nat \ {0} /\ MaxFaults \in Nat
ASSUME ManualAssumption == Manual \cap (1..Slots) = {} /\ None \notin Manual \cup (1..Slots)
ASSUME SchedulersAssumption == None \notin Schedulers

Dispatches == 1..Slots
Jobs       == Dispatches \cup Manual

VARIABLES disp,      \* watchlist_dispatches
          status, cancel,        \* analysis_jobs
          task, pushes, \* RQ: each job's task, and its pushes since a cancel deleted it:
                        \* those of ticks for a slot, those of requests for a manual job
          queued,    \* jobs whose task was ever pushed, by a tick or by a request
          dropped,   \* jobs that somebody cancelled or superseded
          spc, todo, item, act, kind,   \* a tick: where it is, what it leased
          api, target,           \* the API process
          wpc, wjob, seen, kept, \* the queue worker
          faults

schedVars  == <<spc, todo, item, act, kind>>
apiVars    == <<api, target>>
workerVars == <<wpc, wjob, seen, kept>>
jobVars    == <<status, cancel>>
rqVars     == <<task, pushes, queued>>
vars == <<disp, jobVars, rqVars, dropped, schedVars, apiVars, workerVars, faults>>

Active == {"queued", "running"}
Ended  == {"done", "error", "cancelled"}

Row(state, holder, receipt) ==
    [state |-> state, holder |-> holder, lapsed |-> FALSE, receipt |-> receipt]

NoLease == Row("pending", None, "none")

Init ==
    /\ disp = [d \in Dispatches |-> Row("absent", None, "none")]
    /\ status = [j \in Jobs |-> "absent"] /\ cancel = [j \in Jobs |-> FALSE]
    /\ task = [j \in Jobs |-> "none"] /\ pushes = [j \in Jobs |-> 0]
    /\ queued = {} /\ dropped = {}
    /\ spc = [s \in Schedulers |-> "idle"] /\ todo = [s \in Schedulers |-> {}]
    /\ item = [s \in Schedulers |-> None] /\ act = [s \in Schedulers |-> None]
    /\ kind = [s \in Schedulers |-> "none"]
    /\ api = "idle" /\ target = None
    /\ wpc = "boot" /\ wjob = None /\ seen = {} /\ kept = {}
    /\ faults = 0

Fault == faults < MaxFaults /\ faults' = faults + 1

(* find_active_job: the row that holds the unique index of the key. *)
Holders == {j \in Jobs : status[j] \in Active /\ ~cancel[j]}

(* Mutant: a released dispatch no longer counts as pending. *)
PendingJobsLeased == {d \in Dispatches : disp[d].state = "leased"}

(* pending_job_ids: the jobs whose dispatch nobody acknowledged yet. *)
PendingJobs == {d \in Dispatches : disp[d].state \in {"pending", "leased"}}

(* task_queue_has_task, and the confirmation that dispatch_receipt asks for: *)
(* a hash that says queued but is in no list may be in a worker's hands.     *)
HasTask(j)   == task[j] \in {"queued", "popped", "started"}
Confirmed(j) == task[j] \in {"queued", "popped", "started", "finished"}

(* The rows that mark_jobs_abandoned closes. *)
Abandoned(js) ==
    /\ status' = [j \in Jobs |-> IF j \in js /\ status[j] \in Active THEN "error" ELSE status[j]]
    /\ cancel' = [j \in Jobs |-> cancel[j] \/ (j \in js /\ status[j] \in Active)]

-----------------------------------------------------------------------------
(* claim_due_watchlist_items and enqueue_watchlist_items.                   *)

(* A tick still has the slot before it or in its hands. *)
Served(d) == \E s \in Schedulers :
                /\ disp[d].holder = s
                /\ d \in todo[s] \/ item[s] = d

(* 600 s passed since the lease was taken or renewed: certain once its tick *)
(* is gone, a fault while the tick is only slow.                            *)
Lapse(d) ==
    /\ disp[d].state = "leased" /\ ~disp[d].lapsed
    /\ IF Served(d) THEN Fault ELSE UNCHANGED faults
    /\ disp' = [disp EXCEPT ![d].lapsed = TRUE]
    /\ UNCHANGED <<jobVars, rqVars, dropped, schedVars, apiVars, workerVars>>

(* Mutant: a lapsed lease is not taken over. *)
FreePending == {d \in Dispatches : disp[d].state = "pending"}

Free == {d \in Dispatches : disp[d].state = "pending" \/ (disp[d].state = "leased" /\ disp[d].lapsed)}

(* The lease token in the row is the one this tick was given. *)
Mine(s) == disp[item[s]].state = "leased" /\ disp[item[s]].holder = s

To(s, pc) == spc' = [spc EXCEPT ![s] = pc]

(* The tick has nothing in its hands. *)
Rest(s, pc) ==
    /\ To(s, pc)
    /\ item' = [item EXCEPT ![s] = None]
    /\ act' = [act EXCEPT ![s] = None] /\ kind' = [kind EXCEPT ![s] = "none"]

(* One transaction inserts the rows of the slots that came due and leases *)
(* them with every free slot.                                             *)
Claim(s) ==
    \E due \in SUBSET {d \in Dispatches : disp[d].state = "absent"} :
        /\ spc[s] = "idle" /\ Free \cup due # {}
        /\ disp' = [d \in Dispatches |->
                       IF d \in Free \cup due THEN Row("leased", s, "none") ELSE disp[d]]
        /\ todo' = [todo EXCEPT ![s] = Free \cup due]
        /\ To(s, "next")
        /\ UNCHANGED <<jobVars, rqVars, dropped, item, act, kind, apiVars, workerVars, faults>>

(* Head of the loop over the leased items. *)
NextItem(s) ==
    /\ spc[s] = "next"
    /\ IF todo[s] = {} THEN To(s, "idle") /\ UNCHANGED <<item, todo>>
       ELSE /\ item' = [item EXCEPT ![s] = Min(todo[s])]
            /\ todo' = [todo EXCEPT ![s] = @ \ {Min(todo[s])}]
            /\ To(s, "renew")
    /\ UNCHANGED <<disp, jobVars, rqVars, dropped, act, kind, apiVars, workerVars, faults>>

(* The stop event: the leases of all items not yet begun are given back. *)
Stop(s) ==
    /\ spc[s] = "next" /\ todo[s] # {}
    /\ Fault
    /\ disp' = [d \in Dispatches |->
                   IF d \in todo[s] /\ disp[d].state = "leased" /\ disp[d].holder = s
                   THEN NoLease ELSE disp[d]]
    /\ todo' = [todo EXCEPT ![s] = {}]
    /\ To(s, "idle")
    /\ UNCHANGED <<jobVars, rqVars, dropped, item, act, kind, apiVars, workerVars>>

Tick(s, pc) ==
    /\ To(s, pc)
    /\ UNCHANGED <<disp, jobVars, rqVars, dropped, todo, item, act, kind, apiVars, workerVars, faults>>

(* dispatch_item: renew looks at the token, not at the clock. *)
Renew(s) ==
    /\ spc[s] = "renew"
    /\ IF Mine(s)
       THEN To(s, "find") /\ disp' = [disp EXCEPT ![item[s]].lapsed = FALSE] /\ UNCHANGED <<item, act, kind>>
       ELSE Rest(s, "next") /\ disp' = disp
    /\ UNCHANGED <<jobVars, rqVars, dropped, todo, apiVars, workerVars, faults>>

(* find_queue_backed_active_job of the worker process: SQLite first ... *)
Find(s) ==
    /\ spc[s] = "find"
    /\ \/ Holders = {} /\ To(s, "create") /\ UNCHANGED act
       \/ \E j \in Holders : To(s, "probe") /\ act' = [act EXCEPT ![s] = j]
    /\ UNCHANGED <<disp, jobVars, rqVars, dropped, todo, item, kind, apiVars, workerVars, faults>>

(* The job that was found is the slot's own, or an earlier one to attach to. *)
Found(s) == Tick(s, IF act[s] = item[s] THEN "create" ELSE "receipt")

(* ... then Redis; an answer that is not a definite "no" counts as yes ... *)
Probe(s) ==
    /\ spc[s] = "probe"
    /\ IF HasTask(act[s]) THEN Found(s) ELSE Tick(s, "orphan")

(* Redis does not answer: the row counts as backed. *)
ProbeFails(s) ==
    /\ spc[s] = "probe" /\ Fault
    /\ To(s, IF act[s] = item[s] THEN "create" ELSE "receipt")
    /\ UNCHANGED <<disp, jobVars, rqVars, dropped, todo, item, act, kind, apiVars, workerVars>>

(* ... and a job without a task is closed unless its dispatch is pending. *)
Orphan(s) ==
    /\ spc[s] = "orphan"
    /\ \/ act[s] \in PendingJobs /\ Found(s)
       \/ /\ act[s] \notin PendingJobs
          /\ Abandoned({act[s]}) /\ To(s, "create")
          /\ UNCHANGED <<disp, rqVars, dropped, todo, item, act, kind, apiVars, workerVars, faults>>

(* Another active job: the slot attaches to it if RQ confirms its task. *)
Receipt(s) ==
    /\ spc[s] = "receipt"
    /\ \/ /\ HasTask(act[s])
          /\ To(s, "ack") /\ kind' = [kind EXCEPT ![s] = "attached_active"]
          /\ UNCHANGED <<disp, jobVars, rqVars, dropped, todo, item, act, apiVars, workerVars, faults>>
       \/ task[act[s]] \in {"none", "popped", "finished"} /\ Tick(s, "release")

(* create_job: INSERT OR IGNORE under the durable id.  The index may ignore *)
(* it for another active job of the key: then the id has no row, an error.  *)
CreateJob(s) ==
    /\ spc[s] = "create"
    /\ IF status[item[s]] # "absent" THEN Tick(s, "read")
       ELSE IF Holders # {} THEN Tick(s, "release")
       ELSE /\ status' = [status EXCEPT ![item[s]] = "queued"]
            /\ To(s, "read")
            /\ UNCHANGED <<disp, cancel, rqVars, dropped, todo, item, act, kind, apiVars, workerVars, faults>>

(* get_job: execution or terminal evidence in SQLite acknowledges the slot. *)
Read(s) ==
    /\ spc[s] = "read"
    /\ IF status[item[s]] = "queued" THEN To(s, "watch") /\ UNCHANGED kind
       ELSE To(s, "ack") /\ kind' = [kind EXCEPT ![s] = "sql_execution_or_terminal"]
    /\ UNCHANGED <<disp, jobVars, rqVars, dropped, todo, item, act, apiVars, workerVars, faults>>

(* enqueue_once: WATCH the hash and look ... *)
Watch(s) ==
    /\ spc[s] = "watch"
    /\ \/ task[item[s]] = "none" /\ Tick(s, "exec")
       \/ /\ Confirmed(item[s])
          /\ To(s, "ack") /\ kind' = [kind EXCEPT ![s] = "rq_existing"]
          /\ UNCHANGED <<disp, jobVars, rqVars, dropped, todo, item, act, apiVars, workerVars, faults>>
       \/ task[item[s]] = "popped" /\ Tick(s, "release")

Push(j) ==
    /\ task' = [task EXCEPT ![j] = "queued"] /\ pushes' = [pushes EXCEPT ![j] = @ + 1]
    /\ queued' = queued \cup {j}

(* Mutant: MULTI without the WATCH. *)
ExecUnwatched(s) ==
    /\ spc[s] = "exec"
    /\ Push(item[s])
    /\ To(s, "ack") /\ kind' = [kind EXCEPT ![s] = "rq_created"]
    /\ UNCHANGED <<disp, jobVars, dropped, todo, item, act, apiVars, workerVars, faults>>

(* ... and EXEC, which fails if the hash appeared since. *)
Exec(s) ==
    /\ spc[s] = "exec"
    /\ \/ task[item[s]] # "none" /\ Tick(s, "watch")
       \/ /\ task[item[s]] = "none"
          /\ Push(item[s])
          /\ To(s, "ack") /\ kind' = [kind EXCEPT ![s] = "rq_created"]
          /\ UNCHANGED <<disp, jobVars, dropped, todo, item, act, apiVars, workerVars, faults>>

(* Redis fails in the receipt or in enqueue_once; EXEC may have happened. *)
RedisFails(s) ==
    /\ spc[s] \in {"receipt", "watch", "exec"}
    /\ Fault /\ To(s, "release")
    /\ \/ UNCHANGED rqVars
       \/ spc[s] = "exec" /\ task[item[s]] = "none" /\ Push(item[s])
    /\ UNCHANGED <<disp, jobVars, dropped, todo, item, act, kind, apiVars, workerVars>>

(* Mutant: the lease stays in the row. *)
AcknowledgeKeepingLease(s) ==
    /\ spc[s] = "ack" /\ Rest(s, "next")
    /\ disp' = IF Mine(s)
               THEN [disp EXCEPT ![item[s]].state = "acknowledged", ![item[s]].receipt = kind[s]]
               ELSE disp
    /\ UNCHANGED <<jobVars, rqVars, dropped, todo, apiVars, workerVars, faults>>

(* acknowledge: only the holder of the lease, and only once. *)
Acknowledge(s) ==
    /\ spc[s] = "ack" /\ Rest(s, "next")
    /\ disp' = IF Mine(s)
               THEN [disp EXCEPT ![item[s]] = Row("acknowledged", None, kind[s])]
               ELSE disp
    /\ UNCHANGED <<jobVars, rqVars, dropped, todo, apiVars, workerVars, faults>>

(* Mutant: release does not look at the lease token. *)
ReleaseAnyLease(s) ==
    /\ spc[s] = "release" /\ Rest(s, "next")
    /\ disp' = [disp EXCEPT ![item[s]] = NoLease]
    /\ UNCHANGED <<jobVars, rqVars, dropped, todo, apiVars, workerVars, faults>>

(* The exception handler of the loop. *)
Release(s) ==
    /\ spc[s] = "release" /\ Rest(s, "next")
    /\ disp' = IF Mine(s) THEN [disp EXCEPT ![item[s]] = NoLease] ELSE disp
    /\ UNCHANGED <<jobVars, rqVars, dropped, todo, apiVars, workerVars, faults>>

SchedulerCrash(s) ==
    /\ spc[s] # "idle" /\ Fault
    /\ Rest(s, "idle") /\ todo' = [todo EXCEPT ![s] = {}]
    /\ UNCHANGED <<disp, jobVars, rqVars, dropped, apiVars, workerVars>>

-----------------------------------------------------------------------------
(* The API process: create or attach, cancel, and the lookup of its own.    *)

Api(pc, j) ==
    /\ api' = pc /\ target' = IF pc = "idle" THEN None ELSE j
    /\ UNCHANGED <<disp, schedVars, workerVars>>

(* create_or_attach_active_job with nothing active, or with force=true. *)
Submit(j) ==
    /\ api = "idle" /\ status[j] = "absent"
    /\ status' = [i \in Jobs |-> IF i = j THEN "queued"
                                 ELSE IF i \in Holders THEN "cancelled" ELSE status[i]]
    /\ cancel' = [i \in Jobs |-> cancel[i] \/ i \in Holders]
    /\ dropped' = dropped \cup Holders
    /\ Api("enqueue", j) /\ UNCHANGED <<rqVars, faults>>

(* ... and attaching to the active job, if it still waits to be executed. *)
Attach(j) ==
    /\ api = "idle" /\ j \in Holders /\ status[j] = "queued"
    /\ Api("attach", j) /\ UNCHANGED <<jobVars, rqVars, dropped, faults>>

(* A job whose dispatch is pending is left to the scheduler. *)
LeavePending ==
    /\ api = "attach"
    /\ Api(IF target \in PendingJobs THEN "idle" ELSE "recover", target)
    /\ UNCHANGED <<jobVars, rqVars, dropped, faults>>

Recover ==
    /\ api = "recover"
    /\ Api(IF HasTask(target) THEN "idle" ELSE "enqueue", target)
    /\ UNCHANGED <<jobVars, rqVars, dropped, faults>>

Requeue ==
    IF target \in Manual THEN Push(target)
    ELSE task' = [task EXCEPT ![target] = "queued"] /\ queued' = queued \cup {target} /\ UNCHANGED pushes

Enqueue ==
    /\ api = "enqueue" /\ Requeue
    /\ Api("idle", target) /\ UNCHANGED <<jobVars, dropped, faults>>

(* Redis fails, before or after the push: update_job closes the row. *)
EnqueueFails ==
    /\ api = "enqueue" /\ Fault
    /\ UNCHANGED rqVars \/ Requeue
    /\ status' = [status EXCEPT ![target] = IF @ \in Ended THEN @ ELSE "error"]
    /\ Api("idle", target) /\ UNCHANGED <<cancel, dropped>>

(* cancel_analysis_job: the task of a queued job goes first, then the row. *)
Cancel(j) ==
    /\ api = "idle" /\ status[j] \in Active
    /\ IF status[j] = "queued"
       THEN task' = [task EXCEPT ![j] = "none"] /\ pushes' = [pushes EXCEPT ![j] = 0] /\ UNCHANGED queued
       ELSE UNCHANGED rqVars
    /\ dropped' = dropped \cup {j}
    /\ Api("close", j) /\ UNCHANGED <<jobVars, faults>>

Close ==
    /\ api = "close"
    /\ status' = [status EXCEPT ![target] = IF @ = "queued" THEN "cancelled" ELSE @]
    /\ cancel' = [cancel EXCEPT ![target] = TRUE]
    /\ Api("idle", target) /\ UNCHANGED <<rqVars, dropped, faults>>

(* The lookup of api.py: the one of the worker process, short of its check *)
(* for a pending dispatch.  Without "api_lookup" nobody asks for such a job. *)
Lookup(j) ==
    /\ j \in PendingJobs => "api_lookup" \in Env
    /\ api = "idle" /\ j \in Holders /\ ~HasTask(j)
    /\ Api("abandon", j) /\ UNCHANGED <<jobVars, rqVars, dropped, faults>>

LookupAbandons ==
    /\ api = "abandon" /\ Abandoned({target})
    /\ Api("idle", target) /\ UNCHANGED <<rqVars, dropped, faults>>

(* It dies in a request (AnalysisJobs has the death inside a cancel). *)
ApiCrash ==
    /\ api \notin {"idle", "close"} /\ Fault
    /\ Api("idle", target) /\ UNCHANGED <<jobVars, rqVars, dropped>>

-----------------------------------------------------------------------------
(* The queue worker.                                                        *)

Worker(pc) == wpc' = pc /\ UNCHANGED <<disp, schedVars, apiVars>>

(* reconcile_abandoned_rq_jobs: the lists and live registrations of RQ ... *)
ReadQueues ==
    /\ wpc = "boot"
    /\ seen' = {j \in Jobs : task[j] = "queued"}
    /\ Worker("pending") /\ UNCHANGED <<jobVars, rqVars, dropped, wjob, kept, faults>>

(* ... then the pending dispatches ... *)
ReadPending ==
    /\ wpc = "pending"
    /\ kept' = PendingJobs
    /\ Worker("rows") /\ UNCHANGED <<jobVars, rqVars, dropped, wjob, seen, faults>>

(* ... then the active rows, of which those in neither are closed. *)
CloseRows ==
    /\ wpc = "rows"
    /\ Abandoned(Jobs \ (seen \cup kept))
    /\ seen' = {} /\ kept' = {}
    /\ Worker("idle") /\ UNCHANGED <<rqVars, dropped, wjob, faults>>

(* RQ takes the id off the list before it writes that the task started. *)
Pop(j) ==
    /\ wpc = "idle" /\ task[j] = "queued"
    /\ task' = [task EXCEPT ![j] = "popped"] /\ wjob' = j
    /\ Worker("popped") /\ UNCHANGED <<jobVars, pushes, queued, dropped, seen, kept, faults>>

(* run_stock_analysis_job: the guard for settled rows, then "running". *)
Start ==
    /\ wpc = "popped"
    /\ task' = [task EXCEPT ![wjob] = "started"]
    /\ status' = [status EXCEPT ![wjob] = IF @ \in Ended THEN @ ELSE "running"]
    /\ Worker("started") /\ UNCHANGED <<cancel, pushes, queued, dropped, wjob, seen, kept, faults>>

(* update_job: a settled row keeps its status, a flagged one is not done. *)
Finish ==
    /\ wpc = "started"
    /\ task' = [task EXCEPT ![wjob] = "finished"]
    /\ \E s \in {"error", IF cancel[wjob] THEN "cancelled" ELSE "done"} :
          status' = [status EXCEPT ![wjob] = IF @ \in Ended THEN @ ELSE s]
    /\ wjob' = None
    /\ Worker("idle") /\ UNCHANGED <<cancel, pushes, queued, dropped, seen, kept, faults>>

(* The process dies; an id that was off the list already is lost. *)
WorkerCrash ==
    /\ wpc \in {"idle", "started"} \/ (wpc = "popped" /\ "pop_crash" \in Env)
    /\ Fault
    /\ wjob' = None
    /\ Worker("boot") /\ UNCHANGED <<jobVars, rqVars, dropped, seen, kept>>

(* RQ: a task whose worker is gone is pushed back or given up. *)
CleanRegistry(j) ==
    /\ task[j] = "started" /\ wjob # j
    /\ \E t \in {"queued", "finished"} : task' = [task EXCEPT ![j] = t]
    /\ Worker(wpc) /\ UNCHANGED <<jobVars, pushes, queued, dropped, wjob, seen, kept, faults>>

-----------------------------------------------------------------------------
(* Without "boot_race" nobody else acts while reconciliation is reading. *)
Undisturbed == wpc \in {"pending", "rows"} => "boot_race" \in Env

TickStep(s) ==
    /\ Undisturbed
    /\ \/ Claim(s) \/ NextItem(s) \/ Renew(s) \/ Find(s) \/ Probe(s) \/ Orphan(s) \/ Receipt(s)
       \/ CreateJob(s) \/ Read(s) \/ Watch(s) \/ Exec(s) \/ Acknowledge(s) \/ Release(s)

ApiStep == Undisturbed /\ (LeavePending \/ Recover \/ Enqueue \/ Close \/ LookupAbandons)

WorkerStep ==
    \/ ReadQueues \/ ReadPending \/ CloseRows \/ Start \/ Finish
    \/ \E j \in Jobs : Pop(j) \/ CleanRegistry(j)

Faults ==
    \/ \E s \in Schedulers : Stop(s) \/ ProbeFails(s) \/ RedisFails(s) \/ SchedulerCrash(s)
    \/ EnqueueFails \/ ApiCrash \/ WorkerCrash

Request == \E j \in Jobs : (j \in Manual /\ Submit(j)) \/ Attach(j) \/ Cancel(j) \/ Lookup(j)

Next ==
    \/ \E d \in Dispatches : Lapse(d)
    \/ \E s \in Schedulers : TickStep(s)
    \/ ApiStep \/ WorkerStep
    \/ Undisturbed /\ (Request \/ Faults)

Spec == Init /\ [][Next]_vars

(* Ticks repeat, time passes, a request that was begun is served, and the   *)
(* worker works; nobody has to make a request, no fault has to happen.      *)
FairSpec ==
    /\ Spec
    /\ \A s \in Schedulers : WF_vars(TickStep(s))
    /\ \A d \in Dispatches : WF_vars(Lapse(d) /\ ~Served(d))
    /\ WF_vars(ApiStep) /\ WF_vars(WorkerStep)

-----------------------------------------------------------------------------
(* Each variable has its type, a lease has a holder exactly while the row   *)
(* is leased, and a receipt exactly once the slot is acknowledged.          *)
TypeOK ==
    /\ \A d \in Dispatches :
          /\ disp[d].state \in {"absent", "pending", "leased", "acknowledged"}
          /\ disp[d].holder # None <=> disp[d].state = "leased"
          /\ disp[d].receipt # "none" <=> disp[d].state = "acknowledged"
    /\ status \in [Jobs -> {"absent"} \cup Active \cup Ended] /\ cancel \in [Jobs -> BOOLEAN]
    /\ task \in [Jobs -> {"none", "queued", "popped", "started", "finished"}]
    /\ pushes \in [Jobs -> Nat] /\ queued \cup dropped \subseteq Jobs
    /\ \A s \in Schedulers : todo[s] \subseteq Dispatches /\ (spc[s] = "renew" => item[s] \in Dispatches)
    /\ target \in Jobs \cup {None} /\ wjob \in Jobs \cup {None}
    /\ seen \cup kept \subseteq Jobs /\ faults \in 0..MaxFaults

(* A slot is acknowledged only for work that reached the queue: its own job  *)
(* was pushed, or the active job it attached to was, or a person withdrew    *)
(* that job.  Whatever tick died, lost its lease or lost a reply,   *)
(* and however reconciliation and the API met it, no due slot is dropped.    *)
Reached(j) == j \in queued \cup dropped

NoSlotDropped ==
    \A d \in Dispatches : disp[d].state = "acknowledged" =>
        IF disp[d].receipt = "attached_active" THEN \E j \in Jobs \ {d} : Reached(j) ELSE Reached(d)

(* The recovery never queues a second model job: however many ticks overlap *)
(* and whatever reply was lost, they push the task of a slot once, unless a *)
(* cancel deleted it in between.                                            *)
OnePush == \A d \in Dispatches : pushes[d] <= 1

(* A tick that lost its lease cannot take back what the next one settled,   *)
(* nor free a slot the next one is working on.                              *)
LeaseRespected ==
    [][\A d \in Dispatches :
          /\ disp[d].state = "acknowledged" => disp'[d] = disp[d]
          /\ (disp[d].state = "leased" /\ disp'[d].state \in {"pending", "acknowledged"})
                => \E s \in Schedulers : disp[d].holder = s /\ spc'[s] # spc[s]]_vars

(* Every due slot is acknowledged in the end, under bounded faults.         *)
DispatchSettles == \A d \in Dispatches : d \in PendingJobs ~> disp[d].state = "acknowledged"

(* "The durable scheduler owns recovery; a manual API read/attach must not  *)
(* race it or terminalize the work" (analysis_job_service.py): no step of   *)
(* the API but a person's cancel or force closes the job of a pending slot. *)
PendingNotTerminalized ==
    [][\A d \in PendingJobs :
          (status[d] \in Active /\ status'[d] \in Ended /\ api' # api) => d \in dropped']_vars
=============================================================================
