---------------------------- MODULE AnalysisJobs ----------------------------
(***************************************************************************)
(* The life of an analysis job across the processes that share it:         *)
(*                                                                         *)
(*   rows      the analysis_jobs table (SQLite, see JobRows)               *)
(*   reports   the report files published for each job, by segment of its  *)
(*             pipeline sequence (the file name is a function of job and   *)
(*             segment, so publishing twice overwrites)                    *)
(*   doneSent  jobs whose event log holds a "done" event                   *)
(*   raised    keys for which a create request raised, forced or not       *)
(*   rq        Redis/RQ: the job hash, its entries in the queue list, its  *)
(*             entry in the scheduled registry and its retries_left        *)
(*   cpc, cjob, cnew, cset   what the clients are doing: an event loop of  *)
(*             the web process, which runs each of its requests to its end *)
(*             before the next, and beside it threads of that process and  *)
(*             the scheduler process, which look jobs up, mark cancels,    *)
(*             and create and push jobs of their own                       *)
(*   wpc, wjob, wseg, wleft   queue workers (RQ SimpleWorker processes)    *)
(*   wset, wthen   the UPDATE a worker is about to run and what follows it *)
(*   seen, lost, back     what a worker's start-up reconciliation has read *)
(*                                                                         *)
(* SQLite and Redis are never updated together: every client and worker    *)
(* interleaves between two calls, and a process may die between them.      *)
(***************************************************************************)
EXTENDS JobRows, Naturals

CONSTANTS Clients,        \* threads and processes, besides workers, that touch jobs
          Web,            \* those of them that are the event loop of a web process
          Direct,         \* ids that the others may use for a job they create
          Workers,        \* queue worker processes
          NoJob,          \* "holds no job"
          LastSegment,    \* number of pipelines in the run sequence
          MaxRetries,     \* RQ_JOB_MAX_RETRIES
          MaxPushes,      \* bound: queue entries of one task at a time
          MaxCrashes,     \* bound: worker process deaths
          Authoritative,  \* LLM_PROVIDER_QUOTA_AUTHORITATIVE
          Env             \* which events of the environment may happen

EnvEvents == {"force", "cancel", "redis_error", "client_crash", "idle_gap",
              "refusal", "quota", "exception", "db_error"}

ASSUME WebAssumption     == Web \subseteq Clients
ASSUME DirectAssumption  == Direct \subseteq Jobs
ASSUME NoJobAssumption   == NoJob \notin Jobs
ASSUME SegmentAssumption == LastSegment \in Nat \ {0}
ASSUME BoundAssumption   == MaxRetries \in Nat /\ MaxPushes \in Nat /\ MaxCrashes \in Nat
ASSUME EnvAssumption     == Authoritative \in BOOLEAN /\ Env \subseteq EnvEvents

VARIABLES rows, reports, doneSent, raised, rq, crashes,
          cpc, cjob, cnew, cset,
          wpc, wjob, wseg, wleft, wset, wthen, seen, lost, back

dbVars     == <<rows, reports, doneSent, raised>>
clientVars == <<cpc, cjob, cnew, cset>>
bootVars   == <<seen, lost, back>>
taskVars   == <<wjob, wseg, wleft>>
sqlVars    == <<wset, wthen>>
workerVars == <<wpc, taskVars, sqlVars, bootVars>>
vars       == <<dbVars, rq, crashes, clientVars, workerVars>>

Segments == 1..LastSegment

ClientPC == {"idle", "probe", "enqueue", "enqueue_failed", "push", "unqueue",
             "mark", "lookup", "orphan", "update"}
BootPC   == {"down", "registries", "rows", "retrying", "requeued", "abandon"}
RunPC    == {"guard", "begin", "setup", "fetch", "snapshot", "segment", "run",
             "render", "persist", "done", "emit", "abort", "refuse", "retry",
             "fail", "finish", "raise", "update"}

Task == [hash : {"none", "queued", "started", "scheduled", "finished", "failed"},
         pushes : 0..MaxPushes, delayed : BOOLEAN, left : Nat]

-----------------------------------------------------------------------------
(* Redis/RQ, as the code uses it. *)

Deleted(n) == [hash |-> "none", pushes |-> 0, delayed |-> FALSE, left |-> n]
NoTask     == Deleted(0)

(* enqueue_call writes the hash afresh and pushes the id; RQ does not mind *)
(* that the id is already queued. *)
Pushed(t) == [hash |-> "queued", pushes |-> t.pushes + 1, delayed |-> t.delayed,
              left |-> MaxRetries]

(* A worker took the entry; a run saved the whole hash; a delayed retry is due. *)
Taken(t)    == [hash |-> "started", pushes |-> t.pushes - 1, delayed |-> t.delayed,
                left |-> t.left]
Saved(t, n) == [hash |-> "started", pushes |-> t.pushes, delayed |-> t.delayed, left |-> n]
Due(t)      == [hash |-> "queued", pushes |-> t.pushes + 1, delayed |-> FALSE, left |-> t.left]

(* A failed task is scheduled again while it has a retry left. *)
Retried(t, n) ==
    IF n > 0
    THEN [hash |-> "scheduled", pushes |-> t.pushes, delayed |-> TRUE, left |-> n - 1]
    ELSE [hash |-> "failed", pushes |-> t.pushes, delayed |-> t.delayed, left |-> 0]

(* Mutant: a task that a worker already took is not looked for. *)
HasTaskWaitingOnly(j) == rq[j].hash \in {"queued", "scheduled"}

(* task_queue_has_task: the hash alone decides. *)
HasTask(j) == rq[j].hash \in {"queued", "started", "scheduled"}

(* A worker process is executing the task right now. *)
Live(j) == \E w \in Workers : wjob[w] = j /\ wpc[w] \in RunPC

(* RQ still tracks the task: queued, scheduled for retry, or executing. *)
Tracked(j) == rq[j].pushes > 0 \/ rq[j].delayed \/ Live(j)

(* The unique index admits the table. *)
Unique(table) == \A i, j \in Jobs :
    Holds(table[i]) /\ Holds(table[j]) /\ KeyOf[i] = KeyOf[j] => i = j

-----------------------------------------------------------------------------
Init ==
    /\ rows = [j \in Jobs |-> NoRow]
    /\ reports = [j \in Jobs |-> {}]
    /\ doneSent = {}
    /\ raised = {}
    /\ rq = [j \in Jobs |-> NoTask]
    /\ crashes = 0
    /\ cpc = [c \in Clients |-> "idle"]
    /\ cjob = [c \in Clients |-> NoJob]
    /\ cnew = [c \in Clients |-> FALSE]
    /\ cset = [c \in Clients |-> "skip"]
    /\ wpc = [w \in Workers |-> "down"]
    /\ wjob = [w \in Workers |-> NoJob]
    /\ wseg = [w \in Workers |-> 1]
    /\ wleft = [w \in Workers |-> 0]
    /\ wset = [w \in Workers |-> "skip"]
    /\ wthen = [w \in Workers |-> "idle"]
    /\ seen = [w \in Workers |-> [waiting |-> {}, started |-> {}]]
    /\ lost = [w \in Workers |-> {}]
    /\ back = [w \in Workers |-> {}]

-----------------------------------------------------------------------------
(* API requests: create or attach.                                          *)

Ask(c, pc, j, new) ==
    /\ cpc' = [cpc EXCEPT ![c] = pc]
    /\ cjob' = [cjob EXCEPT ![c] = j]
    /\ cnew' = [cnew EXCEPT ![c] = new]
    /\ cset' = [cset EXCEPT ![c] = "skip"]

Done(c) == Ask(c, "idle", NoJob, FALSE)

(* The SELECT of a store function came back: its UPDATE is the next step. *)
Select(c, stmt) ==
    /\ IF stmt = "skip" THEN Done(c)
       ELSE /\ cpc' = [cpc EXCEPT ![c] = "update"]
            /\ cset' = [cset EXCEPT ![c] = stmt]
            /\ UNCHANGED <<cjob, cnew>>
    /\ UNCHANGED <<dbVars, rq, crashes, workerVars>>

(* The transaction finds a fresh active row and force is off.  resume=false *)
(* gets the same row one step later, out of the unique-index conflict.      *)
Attach(c, k) ==
    /\ c \in Web /\ cpc[c] = "idle"
    /\ \E j \in Visible(rows, k) :
          IF rows[j].status = "queued" THEN Ask(c, "probe", j, FALSE) ELSE Done(c)
    /\ UNCHANGED <<dbVars, rq, crashes, workerVars>>

(* No row holds the index: a new row is inserted. *)
Create(c, k) ==
    /\ c \in Web /\ cpc[c] = "idle"
    /\ Indexed(rows, k) = {}
    /\ \E j \in Jobs :
          /\ KeyOf[j] = k
          /\ rows[j].status = "absent"
          /\ rows' = [rows EXCEPT ![j] = NewRow]
          /\ Ask(c, "probe", j, TRUE)
    /\ UNCHANGED <<reports, doneSent, raised, rq, crashes, workerVars>>

(* force=true over a fresh active row: every row that holds the index is *)
(* cancelled and the new row inserted, in one transaction. *)
Supersede(c, k) ==
    /\ "force" \in Env
    /\ c \in Web /\ cpc[c] = "idle"
    /\ Visible(rows, k) # {}
    /\ \E j \in Jobs :
          /\ KeyOf[j] = k
          /\ rows[j].status = "absent"
          /\ rows' = [i \in Jobs |-> IF i = j THEN NewRow
                                     ELSE IF i \in Indexed(rows, k) THEN Applied(rows[i], "close")
                                     ELSE rows[i]]
          /\ Ask(c, "probe", j, TRUE)
    /\ UNCHANGED <<reports, doneSent, raised, rq, crashes, workerVars>>

(* A stale row is not found, yet it still holds the unique index: the *)
(* insert fails, the second lookup finds nothing either, and the request *)
(* raises with the transaction rolled back.  force=true takes the same path: *)
(* it only supersedes the row that the lookup found. *)
Conflict(c, k) ==
    /\ c \in Web /\ cpc[c] = "idle"
    /\ Indexed(rows, k) # {} /\ Visible(rows, k) = {}
    /\ raised' = raised \cup {k}
    /\ UNCHANGED <<rows, reports, doneSent, rq, crashes, clientVars, workerVars>>

(* task_queue_has_task answers true, false or (Redis error) unknown.  A new *)
(* row is enqueued unless the answer is true; an attached one only when it  *)
(* is false. *)
Probe(c) ==
    /\ cpc[c] = "probe"
    /\ \/ HasTask(cjob[c]) /\ Done(c)
       \/ ~HasTask(cjob[c]) /\ Ask(c, "enqueue", cjob[c], cnew[c])
       \/ /\ "redis_error" \in Env
          /\ IF cnew[c] THEN Ask(c, "enqueue", cjob[c], TRUE) ELSE Done(c)
    /\ UNCHANGED <<dbVars, rq, crashes, workerVars>>

Enqueue(c) ==
    /\ cpc[c] = "enqueue"
    /\ rq[cjob[c]].pushes < MaxPushes
    /\ rq' = [rq EXCEPT ![cjob[c]] = Pushed(@)]
    /\ rows' = IF cnew[c] THEN rows
               ELSE [rows EXCEPT ![cjob[c]] = Touched(@)]   \* queue_recovered event
    /\ Done(c)
    /\ UNCHANGED <<reports, doneSent, raised, crashes, workerVars>>

(* enqueue raises; the push may have reached Redis before the reply was lost. *)
EnqueueFails(c) ==
    /\ "redis_error" \in Env
    /\ cpc[c] = "enqueue"
    /\ \/ rq' = rq
       \/ /\ rq[cjob[c]].pushes < MaxPushes
          /\ rq' = [rq EXCEPT ![cjob[c]] = Pushed(@)]
    /\ Ask(c, "enqueue_failed", cjob[c], cnew[c])
    /\ UNCHANGED <<dbVars, crashes, workerVars>>

RecordEnqueueFailure(c) ==
    /\ cpc[c] = "enqueue_failed"
    /\ Select(c, UpdateChoice(rows[cjob[c]], "error"))

-----------------------------------------------------------------------------
(* The manual watchlist run, in a thread of the web process, and the trigger *)
(* monitor of the scheduler process: a lookup (below), then these two.       *)

(* Mutant: without the unique index nothing stands in the way of create_job. *)
CreateDirectUnindexed(c, k) ==
    /\ c \notin Web /\ cpc[c] = "idle"
    /\ \E j \in Direct :
          /\ KeyOf[j] = k
          /\ rows[j].status = "absent"
          /\ rows' = [rows EXCEPT ![j] = NewRow]
          /\ Ask(c, "push", j, TRUE)
    /\ UNCHANGED <<reports, doneSent, raised, rq, crashes, workerVars>>

(* create_job; if a row holds the index it raises, and nothing was done. *)
CreateDirect(c, k) ==
    /\ c \notin Web /\ cpc[c] = "idle"
    /\ Indexed(rows, k) = {}
    /\ \E j \in Direct :
          /\ KeyOf[j] = k
          /\ rows[j].status = "absent"
          /\ rows' = [rows EXCEPT ![j] = NewRow]
          /\ Ask(c, "push", j, TRUE)
    /\ UNCHANGED <<reports, doneSent, raised, rq, crashes, workerVars>>

(* The task is pushed without a probe, whatever an attach did meanwhile.  If *)
(* enqueue raises, with the push done or not, the row is left as it is.      *)
Push(c) ==
    /\ cpc[c] = "push"
    /\ \/ /\ rq[cjob[c]].pushes < MaxPushes
          /\ rq' = [rq EXCEPT ![cjob[c]] = Pushed(@)]
       \/ "redis_error" \in Env /\ rq' = rq
    /\ Done(c)
    /\ UNCHANGED <<dbVars, crashes, workerVars>>

-----------------------------------------------------------------------------
(* Cancels.                                                                 *)

(* get_job decides from the row as it is now whether to touch the queue; the *)
(* legacy endpoint only marks the row, and so does, in a thread, a stream    *)
(* whose page has left. *)
Cancel(c, j) ==
    /\ "cancel" \in Env
    /\ cpc[c] = "idle"
    /\ rows[j].status # "absent"
    /\ \/ c \in Web /\ rows[j].status = "queued" /\ Ask(c, "unqueue", j, FALSE)
       \/ Ask(c, "mark", j, FALSE)
    /\ UNCHANGED <<dbVars, rq, crashes, workerVars>>

(* RQTaskQueue.cancel cancels and deletes the task whatever it has become. *)
Unqueue(c) ==
    /\ cpc[c] = "unqueue"
    /\ \/ rq' = [rq EXCEPT ![cjob[c]] = Deleted(rq[cjob[c]].left)]
       \/ "redis_error" \in Env /\ rq' = rq                 \* ignored
    /\ Ask(c, "mark", cjob[c], FALSE)
    /\ UNCHANGED <<dbVars, crashes, workerVars>>

MarkCancel(c) ==
    /\ cpc[c] = "mark"
    /\ Select(c, CancelChoice(rows[cjob[c]]))

-----------------------------------------------------------------------------
(* Any client: find_queue_backed_active_job.                                *)

LookUp(c, k) ==
    /\ cpc[c] = "idle"
    /\ \E j \in Visible(rows, k) : Ask(c, "lookup", j, FALSE)
    /\ UNCHANGED <<dbVars, rq, crashes, workerVars>>

(* Only a definite "no task" makes the row an orphan. *)
ProbeOrphan(c) ==
    /\ cpc[c] = "lookup"
    /\ \/ ~HasTask(cjob[c]) /\ Ask(c, "orphan", cjob[c], FALSE)
       \/ (HasTask(cjob[c]) \/ "redis_error" \in Env) /\ Done(c)
    /\ UNCHANGED <<dbVars, rq, crashes, workerVars>>

AbandonOrphan(c) ==
    /\ cpc[c] = "orphan"
    /\ Select(c, AbandonChoice(rows[cjob[c]]))

(* The UPDATE of a cancel, an abandonment or an enqueue failure. *)
UpdateByClient(c) ==
    /\ cpc[c] = "update"
    /\ rows' = [rows EXCEPT ![cjob[c]] = Applied(@, cset[c])]
    /\ Done(c)
    /\ UNCHANGED <<reports, doneSent, raised, rq, crashes, workerVars>>

(* The thread or process dies between two steps of what it was doing. *)
ClientCrash(c) ==
    /\ "client_crash" \in Env
    /\ cpc[c] # "idle"
    /\ Done(c)
    /\ UNCHANGED <<dbVars, rq, crashes, workerVars>>

-----------------------------------------------------------------------------
(* Queue worker: reconciliation before the process starts to consume.       *)

At(w, pc) == wpc[w] = pc
Go(w, pc) == wpc' = [wpc EXCEPT ![w] = pc]

(* rq_job_states reads the queue lists first ... *)
ReadQueues(w) ==
    /\ At(w, "down") /\ Go(w, "registries")
    /\ seen' = [seen EXCEPT ![w] = [waiting |-> {j \in Jobs : rq[j].pushes > 0},
                                    started |-> {}]]
    /\ UNCHANGED <<dbVars, rq, crashes, clientVars, taskVars, sqlVars, lost, back>>

(* Mutant: a hash that still says "started" is taken for a running task. *)
ReadRegistriesTrustingHash(w) ==
    /\ At(w, "registries") /\ Go(w, "rows")
    /\ seen' = [seen EXCEPT ![w] =
                   [waiting |-> @.waiting \cup {j \in Jobs : rq[j].delayed},
                    started |-> {j \in Jobs : rq[j].hash = "started"}]]
    /\ UNCHANGED <<dbVars, rq, crashes, clientVars, taskVars, sqlVars, lost, back>>

(* ... then the tasks live workers claim, or, if the workers cannot be read, *)
(* the started registry as it is; then the scheduled registry. *)
ReadRegistries(w) ==
    /\ At(w, "registries") /\ Go(w, "rows")
    /\ \E started \in {{j \in Jobs : Live(j)}, {j \in Jobs : rq[j].hash = "started"}} :
          /\ "redis_error" \in Env \/ started = {j \in Jobs : Live(j)}
          /\ seen' = [seen EXCEPT ![w] =
                         [waiting |-> @.waiting \cup {j \in Jobs : rq[j].delayed},
                          started |-> started]]
    /\ UNCHANGED <<dbVars, rq, crashes, clientVars, taskVars, sqlVars, lost, back>>

(* The registries cannot be read: reconciliation is skipped. *)
SkipReconciliation(w) ==
    /\ "redis_error" \in Env
    /\ wpc[w] \in {"down", "registries"} /\ Go(w, "idle")
    /\ seen' = [seen EXCEPT ![w] = [waiting |-> {}, started |-> {}]]
    /\ UNCHANGED <<dbVars, rq, crashes, clientVars, taskVars, sqlVars, lost, back>>

(* Only now are the active rows read and sorted into the two lists. *)
ReadRows(w) ==
    /\ At(w, "rows") /\ Go(w, "retrying")
    /\ LET active == {j \in Jobs : rows[j].status \in Active}
           known  == seen[w].waiting \cup seen[w].started
       IN  /\ lost' = [lost EXCEPT ![w] = active \ known]
           /\ back' = [back EXCEPT ![w] =
                         {j \in active \cap (seen[w].waiting \ seen[w].started) :
                             rows[j].status = "running"}]
    /\ seen' = [seen EXCEPT ![w] = [waiting |-> {}, started |-> {}]]
    /\ UNCHANGED <<dbVars, rq, crashes, clientVars, taskVars, sqlVars>>

(* update_job(job, "waiting_retry") for one row of the list: its SELECT ... *)
SelectRetrying(w) ==
    /\ At(w, "retrying")
    /\ \E j \in back[w] :
          /\ back' = [back EXCEPT ![w] = @ \ {j}]
          /\ IF UpdateChoice(rows[j], "waiting_retry") = "skip"
             THEN UNCHANGED <<wpc, wjob>>
             ELSE Go(w, "requeued") /\ wjob' = [wjob EXCEPT ![w] = j]
    /\ UNCHANGED <<dbVars, rq, crashes, clientVars, wseg, wleft, sqlVars, seen, lost>>

(* ... and its UPDATE.  If the index refuses it, the start-up fails. *)
MarkRetrying(w) ==
    /\ At(w, "requeued")
    /\ wjob' = [wjob EXCEPT ![w] = NoJob]
    /\ LET new == [rows EXCEPT ![wjob[w]] = Applied(@, "waiting_retry")] IN
       IF Unique(new)
       THEN Go(w, "retrying") /\ rows' = new /\ UNCHANGED <<lost, back>>
       ELSE /\ Go(w, "down") /\ rows' = rows
            /\ lost' = [lost EXCEPT ![w] = {}]
            /\ back' = [back EXCEPT ![w] = {}]
    /\ UNCHANGED <<reports, doneSent, raised, rq, crashes, clientVars,
                   wseg, wleft, sqlVars, seen>>

(* mark_jobs_abandoned: one SELECT and one transaction for the whole list. *)
SelectAbandoned(w) ==
    /\ At(w, "retrying") /\ back[w] = {} /\ Go(w, "abandon")
    /\ lost' = [lost EXCEPT ![w] = {j \in @ : AbandonChoice(rows[j]) = "abandon"}]
    /\ UNCHANGED <<dbVars, rq, crashes, clientVars, taskVars, sqlVars, seen, back>>

MarkAbandoned(w) ==
    /\ At(w, "abandon") /\ Go(w, "idle")
    /\ rows' = [j \in Jobs |-> IF j \in lost[w] THEN Applied(rows[j], "abandon")
                               ELSE rows[j]]
    /\ lost' = [lost EXCEPT ![w] = {}]
    /\ UNCHANGED <<reports, doneSent, raised, rq, crashes, clientVars,
                   taskVars, sqlVars, seen, back>>

-----------------------------------------------------------------------------
(* Queue worker: run_stock_analysis_job_async on the job it took.           *)

MyRow(w) == rows[wjob[w]]

(* A step of the run that leaves the row alone. *)
NoWrite == UNCHANGED <<dbVars, rq, crashes, clientVars, taskVars, sqlVars, bootVars>>

(* update_job(job, s) and what follows it: the SELECT decides here ... *)
UpdateTo(w, s, next) ==
    LET stmt == UpdateChoice(MyRow(w), s) IN
    IF stmt = "skip" THEN Go(w, next) /\ UNCHANGED sqlVars
    ELSE /\ Go(w, "update")
         /\ wset' = [wset EXCEPT ![w] = stmt]
         /\ wthen' = [wthen EXCEPT ![w] = next]

RunFrame == UNCHANGED <<dbVars, rq, crashes, clientVars, taskVars, bootVars>>

(* ... and the UPDATE follows.  It fails if the unique index refuses it or *)
(* the database stays locked: before the try block and in its handlers that *)
(* ends the task, inside it the run goes to the last handler.  (An "error"  *)
(* before a plain return is stored inside the block or by a handler.)       *)
UpdateByRun(w) ==
    /\ At(w, "update")
    /\ LET new == [rows EXCEPT ![wjob[w]] = Applied(@, wset[w])] IN
       \/ Unique(new) /\ rows' = new /\ Go(w, wthen[w])
       \/ /\ ~Unique(new) \/ "db_error" \in Env
          /\ rows' = rows
          /\ \/ wthen[w] \in {"setup", "finish", "raise"} /\ Go(w, "raise")
             \/ /\ wthen[w] \notin {"setup", "raise"}
                /\ wthen[w] = "finish" => wset[w] = "error"
                /\ Go(w, "fail")
    /\ wset' = [wset EXCEPT ![w] = "skip"]
    /\ wthen' = [wthen EXCEPT ![w] = "idle"]
    /\ UNCHANGED <<reports, doneSent, raised, rq, crashes, clientVars, taskVars, bootVars>>

(* RQ pops an id and loads its hash; without a hash the entry is dropped. *)
Dequeue(w, j) ==
    /\ At(w, "idle")
    /\ rq[j].pushes > 0
    /\ IF rq[j].hash = "none"
       THEN /\ rq' = [rq EXCEPT ![j].pushes = @ - 1]
            /\ UNCHANGED <<wpc, wjob, wleft>>
       ELSE /\ rq' = [rq EXCEPT ![j] = Taken(@)]
            /\ Go(w, "guard")
            /\ wjob' = [wjob EXCEPT ![w] = j]
            /\ wleft' = [wleft EXCEPT ![w] = rq[j].left]
    /\ UNCHANGED <<dbVars, crashes, clientVars, wseg, sqlVars, bootVars>>

(* Mutant: no terminal guard, every replay runs. *)
GuardMissing(w) == At(w, "guard") /\ Go(w, "begin") /\ NoWrite

(* terminal_job_result: a replay of a settled job returns at once. *)
Guard(w) ==
    /\ At(w, "guard")
    /\ Go(w, IF MyRow(w).status \in Terminal THEN "finish" ELSE "begin")
    /\ NoWrite

Begin(w) ==
    /\ At(w, "begin")
    /\ UpdateTo(w, "running", "setup")
    /\ RunFrame

(* No API keys: the row fails and the task returns. *)
NoKeys(w) ==
    /\ "refusal" \in Env
    /\ At(w, "setup")
    /\ UpdateTo(w, "error", "finish")
    /\ RunFrame

(* _raise_if_cancelled: every checkpoint of the run is this test. *)
Checkpoint(w, next) == Go(w, IF MyRow(w).cancel THEN "abort" ELSE next)

(* Cancel checks around loading the checkpoint and the prepared input. *)
Setup(w) ==
    /\ At(w, "setup") /\ Checkpoint(w, "fetch")
    /\ NoWrite

(* Data of an earlier attempt is resumed as it is; otherwise it is fetched, *)
(* with a cancel check once the fetch is back. *)
Fetch(w) ==
    /\ At(w, "fetch")
    /\ Go(w, "snapshot") \/ Checkpoint(w, "snapshot")
    /\ NoWrite

(* Mutant: the early return forgets the row. *)
FetchBlockedSilently(w) ==
    /\ "refusal" \in Env
    /\ At(w, "fetch") /\ ~MyRow(w).cancel /\ Go(w, "finish")
    /\ NoWrite

(* The fetched data is unusable: the row fails and the task returns. *)
FetchBlocked(w) ==
    /\ "refusal" \in Env
    /\ At(w, "fetch") /\ ~MyRow(w).cancel
    /\ UpdateTo(w, "error", "finish")
    /\ RunFrame

Snapshot(w) ==
    /\ At(w, "snapshot")
    /\ UpdateTo(w, "running", "segment")
    /\ RunFrame

(* Mutants: the loop stops one pipeline early, runs one too many, or does *)
(* not look at the cancel flag. *)
SegmentUnchecked(w) ==
    /\ At(w, "segment")
    /\ Go(w, IF wseg[w] <= LastSegment THEN "run" ELSE "done")
    /\ NoWrite

SegmentShort(w) ==
    /\ At(w, "segment")
    /\ Checkpoint(w, IF wseg[w] < LastSegment THEN "run" ELSE "done")
    /\ NoWrite

SegmentLong(w) ==
    /\ At(w, "segment")
    /\ Checkpoint(w, IF wseg[w] <= LastSegment + 1 THEN "run" ELSE "done")
    /\ NoWrite

(* Head of the loop over the pipeline sequence, and the check after it. *)
Segment(w) ==
    /\ At(w, "segment")
    /\ Checkpoint(w, IF wseg[w] <= LastSegment THEN "run" ELSE "done")
    /\ NoWrite

(* The agent pipeline returns; cancelled or not is read after it, and the *)
(* snapshot the report is based on is stored. *)
Run(w) ==
    /\ At(w, "run")
    /\ IF MyRow(w).cancel THEN Go(w, "abort") /\ UNCHANGED sqlVars
       ELSE UpdateTo(w, "running", "render")
    /\ RunFrame

(* The publication gate is asked, and the report is rendered between two *)
(* cancel checks. *)
Render(w) ==
    /\ At(w, "render")
    /\ Checkpoint(w, "persist") \/ ("refusal" \in Env /\ Go(w, "refuse"))
    /\ NoWrite

(* persist_report_bundle and the report_done event, which touches the row. *)
Persist(w) ==
    /\ At(w, "persist") /\ Go(w, "segment")
    /\ reports' = [reports EXCEPT ![wjob[w]] = @ \cup {wseg[w]}]
    /\ rows' = [rows EXCEPT ![wjob[w]] = Touched(@)]
    /\ wseg' = [wseg EXCEPT ![w] = @ + 1]
    /\ UNCHANGED <<doneSent, raised, rq, crashes, clientVars, wjob, wleft, sqlVars, bootVars>>

MarkDone(w) ==
    /\ At(w, "done")
    /\ UpdateTo(w, "done", "emit")
    /\ RunFrame

(* The "done" event follows whatever update_job made of the row. *)
EmitDone(w) ==
    /\ At(w, "emit") /\ Go(w, "finish")
    /\ doneSent' = doneSent \cup {wjob[w]}
    /\ UNCHANGED <<rows, reports, raised, rq, crashes, clientVars,
                   taskVars, sqlVars, bootVars>>

(* except AnalysisJobCancelled. *)
Abort(w) ==
    /\ At(w, "abort")
    /\ UpdateTo(w, "cancelled", "finish")
    /\ RunFrame

(* except ReportPublicationBlockedError, ReportLintError, *)
(* StorageCapacityUnavailable: a terminal answer, not an RQ failure. *)
Refuse(w) ==
    \/ /\ At(w, "refuse")
       /\ UpdateTo(w, "error", "finish")
       /\ RunFrame
    \/ /\ "refusal" \in Env
       /\ wpc[w] \in {"run", "persist"} /\ Go(w, "refuse")
       /\ NoWrite

(* The run raises: any exception, the RQ time limit included, or a rate *)
(* limit or transient failure of the models. *)
RunRaises(w) ==
    /\ \/ "exception" \in Env /\ wpc[w] \in {"setup", "fetch", "segment", "run", "persist", "emit"}
          /\ Go(w, "fail")
       \/ "db_error" \in Env                       \* outside the try block
          /\ wpc[w] \in {"guard", "begin", "abort", "refuse", "fail"}
          /\ Go(w, "raise")
       \/ "quota" \in Env /\ At(w, "run") /\ Go(w, "retry")
    /\ NoWrite

Fail(w) ==
    /\ At(w, "fail")
    /\ UpdateTo(w, "error", "raise")
    /\ RunFrame

(* Mutant: the retry is promised without a look at what RQ has left. *)
PrepareRetryUnrenewed(w) ==
    /\ At(w, "retry")
    /\ UpdateTo(w, "waiting_retry", "raise")
    /\ UNCHANGED <<dbVars, rq, crashes, clientVars, taskVars, bootVars>>

(* prepare_analysis_retry decides from the retries RQ has left; under the *)
(* provider-authoritative policy the last one is renewed.  A promised retry *)
(* saves the whole hash.  If the hash cannot be read or saved no retry is *)
(* promised, though RQ may still run it. *)
PrepareRetry(w) ==
    /\ At(w, "retry")
    /\ LET left  == IF Authoritative /\ wleft[w] = 0 THEN 1 ELSE wleft[w]
           saved == IF left > 0 THEN [rq EXCEPT ![wjob[w]] = Saved(@, left)] ELSE rq
           renewed == [wleft EXCEPT ![w] = left]
       IN \/ /\ UpdateTo(w, IF left > 0 THEN "waiting_retry" ELSE "error", "raise")
             /\ wleft' = renewed
             /\ rq' = saved
          \/ /\ "redis_error" \in Env
             /\ UpdateTo(w, "error", "raise")
             /\ \/ wleft' = wleft /\ rq' = rq
                \/ wleft' = renewed /\ rq' \in {rq, saved}
    /\ UNCHANGED <<dbVars, crashes, clientVars, wjob, wseg, bootVars>>

(* Leave the task: the worker is free again. *)
Free(w) ==
    /\ Go(w, "idle")
    /\ wjob' = [wjob EXCEPT ![w] = NoJob]
    /\ wseg' = [wseg EXCEPT ![w] = 1]
    /\ wleft' = [wleft EXCEPT ![w] = 0]

(* The function returned: RQ records success. *)
Finish(w) ==
    /\ At(w, "finish") /\ Free(w)
    /\ rq' = [rq EXCEPT ![wjob[w]].hash = "finished"]
    /\ UNCHANGED <<dbVars, crashes, clientVars, sqlVars, bootVars>>

(* The function raised: RQ schedules a retry while there is one left. *)
Raise(w) ==
    /\ At(w, "raise") /\ Free(w)
    /\ rq' = [rq EXCEPT ![wjob[w]] = Retried(@, wleft[w])]
    /\ UNCHANGED <<dbVars, crashes, clientVars, sqlVars, bootVars>>

-----------------------------------------------------------------------------
(* Environment. *)

(* The worker process dies and is started again. *)
WorkerCrash(w) ==
    /\ crashes < MaxCrashes
    /\ wpc[w] # "down"
    /\ crashes' = crashes + 1
    /\ Go(w, "down")
    /\ wjob' = [wjob EXCEPT ![w] = NoJob]
    /\ wseg' = [wseg EXCEPT ![w] = 1]
    /\ wleft' = [wleft EXCEPT ![w] = 0]
    /\ wset' = [wset EXCEPT ![w] = "skip"]
    /\ wthen' = [wthen EXCEPT ![w] = "idle"]
    /\ seen' = [seen EXCEPT ![w] = [waiting |-> {}, started |-> {}]]
    /\ lost' = [lost EXCEPT ![w] = {}]
    /\ back' = [back EXCEPT ![w] = {}]
    /\ UNCHANGED <<dbVars, rq, clientVars>>

(* RQ's scheduler moves a due retry back to the queue. *)
RetryDue(j) ==
    /\ rq[j].delayed /\ rq[j].pushes < MaxPushes
    /\ rq' = [rq EXCEPT ![j] = Due(@)]
    /\ UNCHANGED <<dbVars, crashes, clientVars, workerVars>>

(* RQ's registry maintenance finds a started task whose worker is gone. *)
CleanRegistry(j) ==
    /\ rq[j].hash = "started" /\ ~Live(j)
    /\ rq' = [rq EXCEPT ![j] = Retried(@, @.left)]
    /\ UNCHANGED <<dbVars, crashes, clientVars, workerVars>>

(* ANALYSIS_JOB_STALE_SECONDS pass without an event.  The limit is longer *)
(* than RQ_JOB_TIMEOUT_SECONDS, so no worker is still running the job. *)
GoStale(j) ==
    /\ "idle_gap" \in Env
    /\ rows[j].status \in Active /\ ~rows[j].stale
    /\ ~Live(j) /\ \A c \in Clients : cjob[c] # j
    /\ rows' = [rows EXCEPT ![j].stale = TRUE]
    /\ UNCHANGED <<reports, doneSent, raised, rq, crashes, clientVars, workerVars>>

-----------------------------------------------------------------------------
Request(c) ==
    \/ \E k \in Keys : \/ Attach(c, k) \/ Create(c, k) \/ Supersede(c, k)
                       \/ Conflict(c, k) \/ LookUp(c, k) \/ CreateDirect(c, k)
    \/ \E j \in Jobs : Cancel(c, j)

ClientStep(c) ==
    \/ Probe(c) \/ Enqueue(c) \/ EnqueueFails(c) \/ RecordEnqueueFailure(c)
    \/ Push(c) \/ Unqueue(c) \/ MarkCancel(c) \/ ProbeOrphan(c) \/ AbandonOrphan(c)
    \/ UpdateByClient(c)

Boot(w) ==
    \/ ReadQueues(w) \/ ReadRegistries(w) \/ SkipReconciliation(w)
    \/ ReadRows(w) \/ SelectRetrying(w) \/ MarkRetrying(w)
    \/ SelectAbandoned(w) \/ MarkAbandoned(w)

RunStep(w) ==
    \/ Guard(w) \/ Begin(w) \/ NoKeys(w) \/ Setup(w) \/ Fetch(w) \/ FetchBlocked(w)
    \/ Snapshot(w) \/ Segment(w) \/ Run(w) \/ Render(w) \/ Persist(w)
    \/ MarkDone(w) \/ EmitDone(w) \/ Abort(w) \/ Refuse(w) \/ RunRaises(w)
    \/ Fail(w) \/ PrepareRetry(w) \/ UpdateByRun(w) \/ Finish(w) \/ Raise(w)

Work(w) == Boot(w) \/ RunStep(w) \/ \E j \in Jobs : Dequeue(w, j)

Next ==
    \/ \E c \in Clients : Request(c) \/ ClientStep(c) \/ ClientCrash(c)
    \/ \E w \in Workers : Work(w) \/ WorkerCrash(w)
    \/ \E j \in Jobs : RetryDue(j) \/ CleanRegistry(j) \/ GoStale(j)

Spec == Init /\ [][Next]_vars

(* Processes that are up make progress, RQ moves due retries and cleans its *)
(* registries; nobody is obliged to send a request, and faults never are.   *)
Fairness ==
    /\ \A c \in Clients : WF_vars(ClientStep(c))
    /\ \A w \in Workers : WF_vars(Boot(w)) /\ WF_vars(RunStep(w))
    /\ \A w \in Workers, j \in Jobs : SF_vars(Dequeue(w, j))
    /\ \A j \in Jobs : WF_vars(RetryDue(j)) /\ WF_vars(CleanRegistry(j))

FairSpec == Spec /\ Fairness

-----------------------------------------------------------------------------
(* Invariants. *)

TableTypes ==
    /\ rows \in [Jobs -> Row]
    /\ reports \in [Jobs -> SUBSET Segments]
    /\ doneSent \subseteq Jobs
    /\ raised \subseteq Keys

QueueTypes == rq \in [Jobs -> Task]

ClientTypes ==
    /\ cpc \in [Clients -> ClientPC]
    /\ cjob \in [Clients -> Jobs \cup {NoJob}]
    /\ cnew \in [Clients -> BOOLEAN]
    /\ cset \in [Clients -> Statements]

WorkerTypes ==
    /\ wpc \in [Workers -> BootPC \cup {"idle"} \cup RunPC]
    /\ wjob \in [Workers -> Jobs \cup {NoJob}]
    /\ wseg \in [Workers -> 1..LastSegment + 1]
    /\ wleft \in [Workers -> Nat]
    /\ wset \in [Workers -> Statements]
    /\ wthen \in [Workers -> {"idle"} \cup RunPC]

BootTypes ==
    /\ seen \in [Workers -> [waiting : SUBSET Jobs, started : SUBSET Jobs]]
    /\ lost \in [Workers -> SUBSET Jobs]
    /\ back \in [Workers -> SUBSET Jobs]

(* Types of every variable: the shape of rows, tasks and process states. *)
TypeOK ==
    TableTypes /\ QueueTypes /\ ClientTypes /\ WorkerTypes /\ BootTypes
    /\ crashes \in 0..MaxCrashes

(* At most one active job per (ticker, pipeline) that nobody cancelled: no  *)
(* sequence of attach, force, cancel, retry, replay or reconciliation ever  *)
(* revives a second row of a key (the promise of docs/api.md).              *)
OneActivePerKey == Unique(rows)

(* A job is "done" only when every pipeline of its sequence has published   *)
(* its report, whatever crashes, replays and retries came between.          *)
DoneHasEveryReport ==
    \A j \in Jobs : rows[j].status = "done" =>
        reports[j] = Segments /\ rows[j].filed

(* A job ends "cancelled" only if somebody asked for it. *)
CancelledWasRequested ==
    \A j \in Jobs : rows[j].status = "cancelled" => rows[j].cancel

(* Never two workers inside the run of one API job past its terminal guard: *)
(* its report files have one writer, across attaching requests, cancels,    *)
(* requeues and RQ retries.  (A job of Direct is pushed unasked, which an    *)
(* attach may have done by then: see README.)                               *)
ExclusiveRun ==
    \A v, w \in Workers :
        wpc[v] \in RunPC \ {"guard", "finish", "raise"} /\
        wpc[w] \in RunPC \ {"guard", "finish", "raise"} /\
        wjob[v] = wjob[w] /\ wjob[v] \notin Direct => v = w

(* Somebody will still act on every row that left the queue: RQ, a worker,  *)
(* RQ's registry clean-up, or a worker process about to reconcile; nothing  *)
(* else would ever settle it.  (A queued row whose request died is adopted  *)
(* by the next request for its key.)                                        *)
StartedHasOwner ==
    \A j \in Jobs : rows[j].status \in {"running", "waiting_retry"} =>
        \/ Tracked(j) \/ rq[j].hash = "started"
        \/ \E w \in Workers : wpc[w] \in BootPC

(* A job that tells its user "waiting for retry" has that retry coming: it   *)
(* is scheduled, queued or running, or RQ's clean-up will schedule it, or a *)
(* restarting worker is about to close it.                                  *)
RetryPromiseKept ==
    \A j \in Jobs : rows[j].status = "waiting_retry" =>
        \/ Tracked(j)
        \/ rq[j].hash = "started" /\ rq[j].left > 0
        \/ \E w \in Workers : wpc[w] \in BootPC

-----------------------------------------------------------------------------
(* Action properties. *)

(* An UPDATE that overtakes a force or an abandonment may make the closed   *)
(* row active again, but only a row whose cancel flag is set: its key stays *)
(* free, and its run stops at the next check.                               *)
OnlyCancelledRevive ==
    [][\A j \in Jobs :
          rows[j].status \in Terminal /\ ~rows[j].cancel => rows'[j].status \in Terminal]_vars

(* After a cancel (by a user, a forced job or an abandonment) a run enters  *)
(* no further stage: no agent pipeline, no publication, no completion.      *)
NoStageAfterCancel ==
    [][\A w \in Workers :
          /\ wjob[w] # NoJob /\ rows[wjob[w]].cancel
          /\ wpc'[w] # wpc[w]
          => wpc'[w] \notin {"run", "persist", "done"}]_vars

(* A report is published only for an active job, or for one whose cancel    *)
(* raced the publication: no retry or replay writes files for a job that    *)
(* settled.  (An enqueue whose reply was lost breaks this, see README.)     *)
NoReportAfterSettling ==
    [][\A j \in Jobs : reports'[j] # reports[j] =>
          rows[j].status \in Active \/ rows[j].cancel]_vars

-----------------------------------------------------------------------------
(* Liveness. *)

(* Every job that is submitted settles. *)
ActiveSettles ==
    \A j \in Jobs : rows[j].status \in Active ~> rows[j].status \in Terminal

-----------------------------------------------------------------------------
(* The life cycle the API documents, implemented by all of the above. *)
Documented == INSTANCE JobLifecycle WITH
    state  <- [j \in Jobs |-> rows[j].status],
    cancel <- [j \in Jobs |-> rows[j].cancel],
    out    <- reports

ImplementsLifecycle == Documented!Spec
=============================================================================
