------------------------- MODULE AnalysisRunsProofs -------------------------
(***************************************************************************)
(* Proofs about AnalysisJobs as it is deployed: what holds of RQ, the      *)
(* workers and the rows together, and that they implement JobLifecycle.    *)
(* Unlike the theorems of AnalysisJobsProofs these need hypotheses, which  *)
(* the deployment gives (start_mac.command starts one web process, so one  *)
(* event loop, and one queue worker) or which name the faults that the     *)
(* result does not cover:                                                  *)
(*                                                                         *)
(*   one event loop, and no client that dies in the middle of what it      *)
(*   does, for ExclusiveRun (any number of workers, every fault of theirs, *)
(*   any number of threads and processes that look up, mark cancels and    *)
(*   push jobs of their own);                                              *)
(*   one queue worker and no lost Redis reply for the life cycle;          *)
(*   moreover no cancel and no locked database for the promise of a retry. *)
(***************************************************************************)
EXTENDS AnalysisJobsProofs

-----------------------------------------------------------------------------
(* Who steps. *)

(* The steps that are not of a worker. *)
Outside ==
    \/ \E c \in Clients : Process(c)
    \/ \E j \in Jobs : RetryDue(j) \/ CleanRegistry(j) \/ GoStale(j)
    \/ UNCHANGED vars

(* A step is of one worker alone, or leaves all workers alone. *)
LEMMA Actors ==
  ASSUME Shape, [Next]_vars
  PROVE  \/ Outside /\ UNCHANGED workerVars
         \/ /\ UNCHANGED clientVars
            /\ \E w \in Workers : (Work(w) \/ WorkerCrash(w)) /\ \A v \in Workers \ {w} : WorkerStays(v)
<1>1. ASSUME NEW c \in Clients, Process(c) PROVE UNCHANGED workerVars
  BY <1>1, Zenon DEF Process, Request, ClientStep, Attach, Create, CreateDirect, Supersede, Conflict, LookUp, Cancel, Probe,
     Enqueue, EnqueueFails, Push, RecordEnqueueFailure, Unqueue, MarkCancel, ProbeOrphan, AbandonOrphan,
     UpdateByClient, ClientCrash, Select
<1>2. ASSUME NEW w \in Workers, Work(w) \/ WorkerCrash(w) PROVE UNCHANGED clientVars
  BY <1>2, Zenon DEF Work, Boot, RunStep, ReadQueues, ReadRegistries, SkipReconciliation, ReadRows, SelectRetrying,
     MarkRetrying, SelectAbandoned, MarkAbandoned, Dequeue, Guard, Begin, NoKeys, Setup, Fetch,
     FetchBlocked, Snapshot, Segment, Run, Render, Persist, MarkDone, EmitDone, Abort, Refuse,
     RunRaises, Fail, PrepareRetry, UpdateByRun, Finish, Raise, WorkerCrash, NoWrite, RunFrame
<1>3. ASSUME NEW j \in Jobs, RetryDue(j) \/ CleanRegistry(j) \/ GoStale(j) PROVE UNCHANGED workerVars
  BY <1>3, Zenon DEF RetryDue, CleanRegistry, GoStale
<1>4. UNCHANGED vars => UNCHANGED workerVars
  BY DEF vars
<1> QED BY <1>1, <1>2, <1>3, <1>4, WorkersApart DEF Outside, Next, Process

(* The counter of a step of a run is in a run. *)
LEMMA RunningAt ==
  ASSUME Shape, NEW w \in Workers, RunStep(w)
  PROVE  wpc[w] \in RunPC /\ wjob[w] \in Jobs
<1>1. wpc[w] \in RunPC
  BY DEF RunStep, At, RunPC, Guard, Begin, NoKeys, Setup, Fetch, FetchBlocked, Snapshot, Segment,
     Run, Render, Persist, MarkDone, EmitDone, Abort, Refuse, RunRaises, Fail, PrepareRetry,
     UpdateByRun, Finish, Raise
<1> QED BY <1>1 DEF Shape, Holding

(* A worker enters a run by taking an entry, leaves it by returning, raising *)
(* or dying, and stays at the same job in between.                          *)
Enters(w, j) == /\ Dequeue(w, j) /\ rq[j].hash # "none"
                /\ wpc[w] = "idle" /\ wpc'[w] = "guard" /\ wjob'[w] = j
                /\ rq'[j] = Taken(rq[j])
Leaves(w)    == wpc[w] \in RunPC /\ wpc'[w] \notin RunPC /\ (Finish(w) \/ Raise(w) \/ WorkerCrash(w))
StaysIn(w)   == wpc[w] \in RunPC /\ wpc'[w] \in RunPC /\ wjob'[w] = wjob[w]
StaysOut(w)  == wpc[w] \notin RunPC /\ wpc'[w] \notin RunPC

LEMMA Runs ==
  ASSUME Shape, [Next]_vars, NEW w \in Workers
  PROVE  StaysIn(w) \/ StaysOut(w) \/ Leaves(w) \/ \E j \in Jobs : Enters(w, j)
<1> USE DEF Shape, TypeOK
<1>1. CASE WorkerStays(w)
  BY <1>1 DEF WorkerStays, StaysIn, StaysOut
<1>2. CASE Boot(w)
  BY <1>2 DEF Boot, ReadQueues, ReadRegistries, SkipReconciliation, ReadRows, SelectRetrying, MarkRetrying,
     SelectAbandoned, MarkAbandoned, At, Go, WorkerTypes, RunPC, StaysOut
<1>3. CASE WorkerCrash(w)
  BY <1>3 DEF WorkerCrash, Go, WorkerTypes, RunPC, StaysOut, Leaves
<1>4. ASSUME NEW j \in Jobs, Dequeue(w, j) PROVE StaysOut(w) \/ Enters(w, j)
  <2>1. CASE rq[j].hash = "none"
    BY <1>4, <2>1 DEF Dequeue, At, RunPC, StaysOut
  <2>2. CASE rq[j].hash # "none"
    BY <1>4, <2>2 DEF Dequeue, At, Go, WorkerTypes, QueueTypes, Enters
  <2> QED BY <2>1, <2>2
<1>5. CASE RunStep(w)
  <2>1. wpc[w] \in RunPC
    BY <1>5, RunningAt
  <2>2. ASSUME NEW pc \in RunPC, Go(w, pc), UNCHANGED wjob PROVE StaysIn(w)
    BY <2>1, <2>2 DEF Go, WorkerTypes, StaysIn
  <2>3. ASSUME NEW s, NEW next \in AfterUpdate, UpdateTo(w, s, next), UNCHANGED wjob PROVE StaysIn(w)
    BY <2>2, <2>3 DEF UpdateTo, AfterUpdate, RunPC
  <2>4. CASE Guard(w) \/ Setup(w) \/ Fetch(w) \/ RunRaises(w) \/ Segment(w) \/ Render(w) \/ EmitDone(w)
             \/ Persist(w)
    BY <2>2, <2>4 DEF Guard, Setup, Fetch, RunRaises, Segment, Render, EmitDone, Persist, Checkpoint, NoWrite,
       taskVars, RunPC
  <2>5. CASE Begin(w) \/ NoKeys(w) \/ FetchBlocked(w) \/ Snapshot(w) \/ MarkDone(w) \/ Abort(w) \/ Fail(w)
             \/ Run(w) \/ Refuse(w) \/ PrepareRetry(w)
    BY <2>2, <2>3, <2>5 DEF Begin, NoKeys, FetchBlocked, Snapshot, MarkDone, Abort, Fail, Run, Refuse,
       PrepareRetry, NoWrite, RunFrame, taskVars, AfterUpdate, RunPC
  <2>6. CASE UpdateByRun(w)
    <3>1. wthen[w] \in AfterUpdate
      BY <2>6 DEF UpdateByRun, At, WorkerPending
    <3> QED BY <2>2, <2>6, <3>1 DEF UpdateByRun, taskVars, AfterUpdate, RunPC
  <2>7. CASE Finish(w) \/ Raise(w)
    BY <2>1, <2>7 DEF Finish, Raise, Free, Go, WorkerTypes, RunPC, Leaves
  <2> QED BY <1>5, <2>4, <2>5, <2>6, <2>7 DEF RunStep
<1> QED BY <1>1, <1>2, <1>3, <1>4, <1>5, Stays DEF Work

-----------------------------------------------------------------------------
(* Who touches the task of a job. *)

QueueClient(c) == Enqueue(c) \/ EnqueueFails(c) \/ Push(c) \/ Unqueue(c)
QueueWorker(w) == PrepareRetry(w) \/ Finish(w) \/ Raise(w)

(* The task of a job changes by a request or a worker that is at the job,   *)
(* by a worker taking its entry, or by RQ itself.                           *)
LEMMA QueueSteps ==
  ASSUME Shape, [Next]_vars, NEW j \in Jobs
  PROVE  \/ rq'[j] = rq[j]
         \/ \E c \in Clients : QueueClient(c) /\ cjob[c] = j
         \/ \E w \in Workers : Dequeue(w, j)
         \/ \E w \in Workers : QueueWorker(w) /\ wjob[w] = j
         \/ RetryDue(j) \/ CleanRegistry(j)
<1> USE DEF Shape, TypeOK, QueueTypes
<1>1. CASE UNCHANGED rq
  BY <1>1
<1>2. ASSUME NEW c \in Clients, Process(c), ~QueueClient(c) PROVE UNCHANGED rq
  BY <1>2, Zenon DEF Process, Request, ClientStep, Attach, Create, CreateDirect, Supersede, Conflict, LookUp, Cancel, Probe,
     RecordEnqueueFailure, MarkCancel, ProbeOrphan, AbandonOrphan, UpdateByClient, ClientCrash, Select,
     QueueClient
<1>3. ASSUME NEW c \in Clients, QueueClient(c), cjob[c] # j PROVE rq'[j] = rq[j]
  BY <1>3 DEF QueueClient, Enqueue, EnqueueFails, Push, Unqueue
<1>4. ASSUME NEW w \in Workers, Work(w) \/ WorkerCrash(w), ~QueueWorker(w), \A i \in Jobs : ~Dequeue(w, i)
      PROVE  UNCHANGED rq
  BY <1>4, Zenon DEF Work, Boot, RunStep, ReadQueues, ReadRegistries, SkipReconciliation, ReadRows, SelectRetrying,
     MarkRetrying, SelectAbandoned, MarkAbandoned, Guard, Begin, NoKeys, Setup, Fetch, FetchBlocked,
     Snapshot, Segment, Run, Render, Persist, MarkDone, EmitDone, Abort, Refuse, RunRaises, Fail,
     UpdateByRun, WorkerCrash, NoWrite, RunFrame, QueueWorker
<1>5. ASSUME NEW w \in Workers, QueueWorker(w), wjob[w] # j PROVE rq'[j] = rq[j]
  BY <1>5 DEF QueueWorker, PrepareRetry, Finish, Raise
<1>6. ASSUME NEW w \in Workers, NEW i \in Jobs, Dequeue(w, i), i # j PROVE rq'[j] = rq[j]
  BY <1>6 DEF Dequeue
<1>7. ASSUME NEW i \in Jobs, RetryDue(i) \/ CleanRegistry(i), i # j PROVE rq'[j] = rq[j]
  BY <1>7 DEF RetryDue, CleanRegistry
<1>8. ASSUME NEW i \in Jobs, GoStale(i) PROVE UNCHANGED rq
  BY <1>8 DEF GoStale
<1>9. CASE UNCHANGED vars
  BY <1>9 DEF vars
<1> QED BY <1>1, <1>2, <1>3, <1>4, <1>5, <1>6, <1>7, <1>8, <1>9 DEF Next, Process

(* Whatever works on a job, and whatever RQ knows of one, is of a row that  *)
(* is in the table.                                                         *)
Present ==
    /\ \A j \in Jobs : rows[j].status = "absent" => rq[j] = NoTask
    /\ \A c \in Clients : cpc[c] # "idle" => rows[cjob[c]].status # "absent"
    /\ \A w \in Workers : wpc[w] \in RunPC \cup {"requeued"} => rows[wjob[w]].status # "absent"

(* No job is worked on or queued before its row was inserted. *)
LEMMA NextPresent ==
  ASSUME Shape, Existing, Present, [Next]_vars
  PROVE  Present'
<1> USE DEF Shape, TypeOK
<1>1. ASSUME NEW j \in Jobs, rows'[j].status = "absent" PROVE rq'[j] = NoTask
  <2>1. rows[j].status = "absent" /\ rq[j] = NoTask
    BY <1>1, NextRows DEF Present
  <2>2. \A c \in Clients : QueueClient(c) => cjob[c] # j
    BY <2>1 DEF Present, QueueClient, Enqueue, EnqueueFails, Push, Unqueue
  <2>3. \A w \in Workers : QueueWorker(w) => wjob[w] # j
    BY <2>1 DEF Present, QueueWorker, PrepareRetry, Finish, Raise, At, RunPC
  <2>4. ~RetryDue(j) /\ ~CleanRegistry(j) /\ \A w \in Workers : ~Dequeue(w, j)
    BY <2>1 DEF RetryDue, CleanRegistry, Dequeue, NoTask, Deleted
  <2> QED BY <2>1, <2>2, <2>3, <2>4, QueueSteps
<1>2. ASSUME NEW c \in Clients, cpc'[c] # "idle" PROVE rows'[cjob'[c]].status # "absent"
  <2>1. cjob[c] \in Jobs => (rows[cjob[c]].status # "absent" => rows'[cjob[c]].status # "absent")
    BY NextRows
  <2>2. CASE ClientStays(c)
    BY <1>2, <2>1, <2>2 DEF ClientStays, Present, Holding
  <2>3. ASSUME NEW pc, NEW j \in Jobs, NEW new, Ask(c, pc, j, new), rows[j].status # "absent"
        PROVE  rows'[cjob'[c]].status # "absent"
    BY <2>3, NextRows DEF Ask, ClientTypes
  <2>4. ~Done(c)
    BY <1>2 DEF Done, Ask, ClientTypes
  <2>5. ASSUME NEW k \in Keys, Attach(c, k) \/ LookUp(c, k) PROVE rows'[cjob'[c]].status # "absent"
    BY <2>3, <2>4, <2>5 DEF Attach, LookUp, Visible, Indexed, Holds, Active
  <2>6. ASSUME NEW k \in Keys, Create(c, k) \/ Supersede(c, k) \/ CreateDirect(c, k)
        PROVE  rows'[cjob'[c]].status # "absent"
    <3>1. PICK j \in Jobs : (\E pc : Ask(c, pc, j, TRUE)) /\ rows'[j] = NewRow
      BY <2>6, DirectAssumption DEF Create, Supersede, CreateDirect, TableTypes
    <3> QED BY <3>1 DEF Ask, ClientTypes, NewRow
  <2>7. ASSUME NEW j \in Jobs, Cancel(c, j) PROVE rows'[cjob'[c]].status # "absent"
    BY <2>3, <2>7 DEF Cancel
  <2>8. ASSUME cpc[c] # "idle", UNCHANGED cjob PROVE rows'[cjob'[c]].status # "absent"
    BY <2>1, <2>8 DEF Present, Holding
  <2>9. ASSUME cpc[c] # "idle", NEW pc, NEW new, Ask(c, pc, cjob[c], new) PROVE rows'[cjob'[c]].status # "absent"
    BY <2>3, <2>9 DEF Present, Holding
  <2>10. ASSUME cpc[c] # "idle", NEW s, Select(c, s) PROVE rows'[cjob'[c]].status # "absent"
    BY <2>4, <2>8, <2>10 DEF Select
  <2>11. ASSUME NEW k \in Keys, Conflict(c, k) PROVE rows'[cjob'[c]].status # "absent"
    BY <2>11, <1>2 DEF Conflict, clientVars
  <2>12. CASE ClientStep(c) \/ ClientCrash(c)
    BY <2>4, <2>8, <2>9, <2>10, <2>12 DEF ClientStep, ClientCrash, Probe, Enqueue, EnqueueFails,
       Push, RecordEnqueueFailure, Unqueue, MarkCancel, ProbeOrphan, AbandonOrphan, UpdateByClient
  <2> QED BY <2>2, <2>5, <2>6, <2>7, <2>11, <2>12, Stays DEF Process, Request
<1>3. ASSUME NEW w \in Workers, wpc'[w] \in RunPC PROVE rows'[wjob'[w]].status # "absent"
  <2>1. CASE StaysIn(w)
    BY <2>1, NextRows DEF StaysIn, Present, Holding
  <2>2. ASSUME NEW j \in Jobs, Enters(w, j) PROVE rows'[wjob'[w]].status # "absent"
    BY <2>2, NextRows DEF Enters, Present, NoTask, Deleted
  <2> QED BY <1>3, <2>1, <2>2, Runs DEF StaysOut, Leaves
<1>4. ASSUME NEW w \in Workers, wpc'[w] = "requeued" PROVE rows'[wjob'[w]].status # "absent"
  <2>1. Existing'
    BY NextExisting
  <2> QED BY <1>4, <2>1 DEF Existing
<1> QED BY <1>1, <1>2, <1>3, <1>4 DEF Present

(* What is proved of every behaviour, whatever the environment. *)
Base == Shape /\ Existing /\ Present /\ Requested /\ Published /\ Unique(rows)

LEMMA NextBase == Base /\ [Next]_vars => Base'
<1> SUFFICES ASSUME Base, [Next]_vars PROVE Base'
  OBVIOUS
<1> QED BY NextShape, NextExisting, NextPresent, NextRequested, NextPublished, NextUnique DEF Base

LEMMA BaseAlways == Spec => []Base
<1>1. Init => Present /\ Unique(rows)
  BY DEF Init, Present, RunPC, NoRow, Unique, Holds, Active
<1>2. Init => Published
  <2>1. 1..(1 - 1) = {}
    OBVIOUS
  <2> QED BY <2>1 DEF Init, Published, RunPC
<1>3. Init => Base
  BY <1>1, <1>2, InitShape, InitRequested DEF Base
<1> QED BY <1>3, NextBase, PTL DEF Spec

-----------------------------------------------------------------------------
(* One run of a job at a time.                                              *)

(* One event loop runs its requests one after the other; what threads of its *)
(* process and other processes do is not restricted.                        *)
OneWeb == \A c, d \in Web : c = d

(* A cancel of the job is recorded, or on its way. *)
Withdraws(c, j) == /\ cjob[c] = j
                   /\ cpc[c] = "mark" \/ (cpc[c] = "update" /\ cset[c] \in {"close", "flag"})
Withdrawn(j)    == rows[j].cancel \/ \E c \in Web : Withdraws(c, j)

OneRun ==
    \A v, w \in Workers :
       wpc[v] \in RunPC /\ wpc[w] \in RunPC /\ wjob[v] = wjob[w] /\ wjob[v] \notin Direct => v = w

(* A task is in the list once, or scheduled, or executing, or none of these; *)
(* only a cancel takes the hash from under a run.                           *)
QueuedOnce(j) ==
    /\ rq[j].pushes =< 1
    /\ rq[j].pushes = 1 => rq[j].hash = "queued" /\ ~rq[j].delayed /\ ~Live(j)
    /\ rq[j].delayed => rq[j].hash = "scheduled" /\ rq[j].pushes = 0 /\ ~Live(j)
    /\ Live(j) => rq[j].hash = "started" \/ (rq[j].hash = "none" /\ Withdrawn(j))

(* Only the event loop probes, pushes what it probed and takes tasks out;    *)
(* when it is about to push a job of its own, there is nothing to push       *)
(* beside.  Whoever pushes unasked pushes a job of Direct.                   *)
Clear(c, j) ==
    /\ rq[j].hash = "none" => ~Live(j)
    /\ cpc[c] = "enqueue" => rq[j].hash \notin {"queued", "started", "scheduled"}
    /\ cnew[c] => rq[j] = NoTask

Asked(c) ==
    /\ cpc[c] \in {"probe", "enqueue", "enqueue_failed", "unqueue"} => c \in Web
    /\ cpc[c] = "push" => cjob[c] \in Direct
    /\ cpc[c] \in {"probe", "enqueue"} /\ cjob[c] \notin Direct => Clear(c, cjob[c])

Exclusive == OneRun /\ (\A j \in Jobs \ Direct : QueuedOnce(j)) /\ (\A c \in Clients : Asked(c))

(* A run of a job that a step begins was taken from the list. *)
LEMMA LiveFrom ==
  ASSUME Shape, [Next]_vars, NEW j \in Jobs, Live(j)'
  PROVE  \/ Live(j) /\ \A w \in Workers : ~Dequeue(w, j) \/ rq[j].hash = "none"
         \/ \E w \in Workers : Enters(w, j)
<1>1. PICK w \in Workers : wjob'[w] = j /\ wpc'[w] \in RunPC
  BY DEF Live
<1>2. CASE StaysIn(w)
  <2>1. Live(j)
    BY <1>1, <1>2 DEF StaysIn, Live
  <2>2. ASSUME NEW v \in Workers, Dequeue(v, j), rq[j].hash # "none" PROVE Enters(v, j)
    BY <2>2 DEF Dequeue, At, Go, Shape, TypeOK, WorkerTypes, QueueTypes, Enters
  <2> QED BY <2>1, <2>2
<1>3. ASSUME NEW i \in Jobs, Enters(w, i) PROVE Enters(w, j)
  BY <1>1, <1>3 DEF Enters
<1> QED BY <1>1, <1>2, <1>3, Runs DEF StaysOut, Leaves

(* Two workers never enter the same run. *)
LEMMA NextOneRun ==
  ASSUME Shape, Exclusive, [Next]_vars
  PROVE  OneRun'
<1> SUFFICES ASSUME NEW v \in Workers, NEW w \in Workers, v # w, wpc'[v] \in RunPC, wpc'[w] \in RunPC,
                    wjob'[v] = wjob'[w], wjob'[v] \notin Direct
             PROVE  FALSE
  BY DEF OneRun
<1>1. \A u \in Workers : wpc'[u] \in RunPC => StaysIn(u) \/ \E j \in Jobs : Enters(u, j)
  BY Runs DEF StaysOut, Leaves
<1>2. CASE StaysIn(v) /\ StaysIn(w)
  BY <1>2 DEF StaysIn, Exclusive, OneRun
<1>3. ASSUME NEW u \in Workers, NEW x \in Workers, NEW j \in Jobs, Enters(u, j), StaysIn(x), wjob'[x] = j,
             j \notin Direct
      PROVE  FALSE
  <2>1. Live(j)
    BY <1>3 DEF StaysIn, Live
  <2>2. rq[j].pushes > 0 /\ rq[j].pushes \in Nat
    BY <1>3, BoundAssumption DEF Enters, Dequeue, Shape, TypeOK, QueueTypes, Task
  <2>3. QueuedOnce(j)
    BY <1>3 DEF Exclusive
  <2> QED BY <2>1, <2>2, <2>3 DEF QueuedOnce
<1>4. ASSUME NEW j \in Jobs, NEW i \in Jobs, Enters(v, j), Enters(w, i) PROVE FALSE
  <2>1. wpc'[v] # wpc[v] /\ wpc'[w] # wpc[w]
    BY <1>4 DEF Enters
  <2> QED BY <2>1, Actors DEF workerVars, WorkerStays
<1> QED BY <1>1, <1>2, <1>3, <1>4 DEF StaysIn, Enters

(* Where a request is decides what it does next, unless it may die. *)
LEMMA ClientAt ==
  ASSUME NEW c \in Clients, Process(c), "client_crash" \notin Env
  PROVE  \/ cpc[c] = "idle" /\ Request(c)
         \/ cpc[c] = "probe" /\ Probe(c)
         \/ cpc[c] = "enqueue" /\ (Enqueue(c) \/ EnqueueFails(c))
         \/ cpc[c] = "enqueue_failed" /\ RecordEnqueueFailure(c)
         \/ cpc[c] = "push" /\ Push(c)
         \/ cpc[c] = "unqueue" /\ Unqueue(c)
         \/ cpc[c] = "mark" /\ MarkCancel(c)
         \/ cpc[c] = "lookup" /\ ProbeOrphan(c)
         \/ cpc[c] = "orphan" /\ AbandonOrphan(c)
         \/ cpc[c] = "update" /\ UpdateByClient(c)
<1>1. ~ClientCrash(c)
  BY DEF ClientCrash
<1>2. Request(c) => cpc[c] = "idle"
  BY DEF Request, Attach, Create, CreateDirect, Supersede, Conflict, LookUp, Cancel
<1>3. ClientStep(c) => \/ cpc[c] = "probe" /\ Probe(c)
                       \/ cpc[c] = "enqueue" /\ (Enqueue(c) \/ EnqueueFails(c))
                       \/ cpc[c] = "enqueue_failed" /\ RecordEnqueueFailure(c)
                       \/ cpc[c] = "push" /\ Push(c)
                       \/ cpc[c] = "unqueue" /\ Unqueue(c)
                       \/ cpc[c] = "mark" /\ MarkCancel(c)
                       \/ cpc[c] = "lookup" /\ ProbeOrphan(c)
                       \/ cpc[c] = "orphan" /\ AbandonOrphan(c)
                       \/ cpc[c] = "update" /\ UpdateByClient(c)
  BY DEF ClientStep, Probe, Enqueue, EnqueueFails, Push, RecordEnqueueFailure, Unqueue, MarkCancel, ProbeOrphan,
     AbandonOrphan, UpdateByClient
<1> QED BY <1>1, <1>2, <1>3, Zenon DEF Process

(* An event loop that lives records the cancel it was asked for. *)
LEMMA WithdrawnStays ==
  ASSUME Base, "client_crash" \notin Env, [Next]_vars, NEW j \in Jobs, Withdrawn(j)
  PROVE  Withdrawn(j)'
<1> USE DEF Base, Shape, TypeOK
<1>1. CASE rows[j].cancel
  BY <1>1, NextRows DEF Withdrawn
<1>2. ASSUME NEW c \in Web, Withdraws(c, j), ClientStays(c) PROVE Withdrawn(j)'
  BY <1>2 DEF ClientStays, Withdraws, Withdrawn
<1>3. ASSUME NEW c \in Web, Withdraws(c, j), Process(c) PROVE Withdrawn(j)'
  <2>1. c \in Clients
    BY WebAssumption
  <2>2. CASE cpc[c] = "mark"
    <3>1. MarkCancel(c) /\ rows[j].status # "absent" /\ cjob[c] = j
      BY <1>3, <2>1, <2>2, ClientAt DEF Present, Withdraws
    <3> QED BY <2>1, <3>1 DEF MarkCancel, Select, CancelChoice, ClientTypes, Withdraws, Withdrawn
  <2>3. CASE cpc[c] = "update"
    <3>1. UpdateByClient(c) /\ cset[c] \in {"close", "flag"} /\ cjob[c] = j
      BY <1>3, <2>1, <2>3, ClientAt DEF Withdraws
    <3>2. rows'[j].cancel
      BY <3>1 DEF UpdateByClient, TableTypes, Applied, Row
    <3> QED BY <3>2 DEF Withdrawn
  <2> QED BY <1>3, <2>2, <2>3 DEF Withdraws
<1> QED BY <1>1, <1>2, <1>3, Stays, WebAssumption DEF Withdrawn

(* A request at the queue and the workers do not move in the same step. *)
LEMMA QueueClientAlone ==
  ASSUME Shape, [Next]_vars, NEW c \in Clients, QueueClient(c)
  PROVE  UNCHANGED workerVars
<1>1. cpc'[c] # cpc[c]
  BY DEF QueueClient, Enqueue, EnqueueFails, Push, Unqueue, Done, Ask, Shape, TypeOK, ClientTypes
<1> QED BY <1>1, Actors DEF clientVars

(* The task of a job stays in the list at most once, and out of it while a  *)
(* run goes on.                                                             *)
LEMMA NextQueuedOnce ==
  ASSUME Base, Exclusive, "client_crash" \notin Env, [Next]_vars, NEW j \in Jobs \ Direct
  PROVE  QueuedOnce(j)'
<1> USE DEF Base, Shape, TypeOK
<1>1. /\ rq[j] \in Task /\ rq[j].pushes \in Nat /\ QueuedOnce(j)
      /\ rq \in [Jobs -> Task] /\ rq' \in [Jobs -> Task]
  BY BoundAssumption, NextShape DEF QueueTypes, Task, Exclusive
<1>2. ASSUME rq'[j] = rq[j] PROVE QueuedOnce(j)'
  <2>1. Live(j)' => Live(j)
    BY <1>1, <1>2, LiveFrom DEF Enters, Taken
  <2> QED BY <1>1, <1>2, <2>1, WithdrawnStays DEF QueuedOnce
<1>3. UNCHANGED workerVars => Live(j)' = Live(j)
  BY DEF workerVars, taskVars, Live
<1>4. ASSUME NEW c \in Clients, QueueClient(c), cjob[c] = j PROVE QueuedOnce(j)'
  <2>1. Live(j)' = Live(j)
    BY <1>3, <1>4, QueueClientAlone
  <2>2. Asked(c)
    BY DEF Exclusive
  <2>3. ASSUME cpc[c] = "enqueue", rq'[j] = Pushed(rq[j]) PROVE QueuedOnce(j)'
    BY <1>1, <1>4, <2>1, <2>2, <2>3 DEF Asked, Clear, QueuedOnce, Pushed
  <2>4. ASSUME cpc[c] = "unqueue", cpc'[c] = "mark", cjob'[c] = j, rq'[j] = Deleted(rq[j].left)
        PROVE  QueuedOnce(j)'
    BY <2>2, <2>4 DEF Asked, QueuedOnce, Deleted, Withdraws, Withdrawn
  <2>5. CASE Enqueue(c) \/ EnqueueFails(c)
    BY <1>1, <1>2, <1>4, <2>3, <2>5 DEF Enqueue, EnqueueFails
  <2>6. CASE Unqueue(c)
    BY <1>1, <1>2, <1>4, <2>4, <2>6 DEF Unqueue, Ask, ClientTypes
  <2>7. ~Push(c)
    BY <1>4, <2>2 DEF Push, Asked
  <2> QED BY <1>4, <2>5, <2>6, <2>7 DEF QueueClient
<1>5. ASSUME NEW w \in Workers, Dequeue(w, j) PROVE QueuedOnce(j)'
  <2>1. rq[j].pushes = 1 /\ rq[j].hash = "queued"
    BY <1>1, <1>5 DEF Dequeue, QueuedOnce
  <2>2. rq'[j] = Taken(rq[j])
    BY <1>1, <1>5, <2>1 DEF Dequeue
  <2> QED BY <1>1, <2>1, <2>2 DEF Taken, QueuedOnce
<1>6. ASSUME NEW w \in Workers, QueueWorker(w), wjob[w] = j PROVE QueuedOnce(j)'
  <2>1. wpc[w] \in RunPC
    BY <1>6 DEF QueueWorker, PrepareRetry, Finish, Raise, At, RunPC
  <2>2. Live(j) /\ rq[j].pushes = 0 /\ ~rq[j].delayed
    <3>1. Live(j)
      BY <1>6, <2>1 DEF Live
    <3> QED BY <1>1, <3>1 DEF QueuedOnce
  <2>3. CASE PrepareRetry(w)
    <3>1. rq'[j] = rq[j] \/ \E n : rq'[j] = Saved(rq[j], n)
      BY <1>1, <1>6, <2>3 DEF PrepareRetry
    <3>2. ASSUME NEW n, rq'[j] = Saved(rq[j], n) PROVE QueuedOnce(j)'
      BY <2>2, <3>2 DEF Saved, QueuedOnce
    <3> QED BY <1>2, <3>1, <3>2
  <2>4. CASE Finish(w) \/ Raise(w)
    <3>1. wpc'[w] \notin RunPC
      BY <2>4 DEF Finish, Raise, Free, Go, WorkerTypes, RunPC
    <3>2. ASSUME Live(j)' PROVE FALSE
      <4>1. PICK v \in Workers : wjob'[v] = j /\ wpc'[v] \in RunPC
        BY <3>2 DEF Live
      <4>2. CASE StaysIn(v)
        BY <1>6, <2>1, <3>1, <4>1, <4>2 DEF StaysIn, Exclusive, OneRun
      <4>3. ASSUME NEW i \in Jobs, Enters(v, i) PROVE FALSE
        BY <2>2, <4>1, <4>3 DEF Enters, Dequeue
      <4> QED BY <4>1, <4>2, <4>3, Runs DEF StaysOut, Leaves
    <3>3. \/ rq'[j] = [rq[j] EXCEPT !.hash = "finished"]
          \/ rq'[j] = Retried(rq[j], wleft[w])
      BY <1>1, <1>6, <2>4 DEF Finish, Raise
    <3> QED BY <1>1, <2>2, <3>2, <3>3 DEF Retried, QueuedOnce, Task
  <2> QED BY <1>6, <2>3, <2>4 DEF QueueWorker
<1>7. ASSUME RetryDue(j) \/ CleanRegistry(j) PROVE QueuedOnce(j)'
  <2>1. Live(j)' = Live(j) /\ ~Live(j)
    BY <1>1, <1>3, <1>7 DEF RetryDue, CleanRegistry, QueuedOnce
  <2>2. CASE RetryDue(j)
    BY <1>1, <2>1, <2>2 DEF RetryDue, Due, QueuedOnce
  <2>3. CASE CleanRegistry(j)
    BY <1>1, <2>1, <2>3 DEF CleanRegistry, Retried, QueuedOnce
  <2> QED BY <1>7, <2>2, <2>3
<1> QED BY <1>2, <1>4, <1>5, <1>6, <1>7, QueueSteps

(* Between the probe and the push of the event loop no one else puts the    *)
(* task of its job into the queue, and there is none to take out.           *)
LEMMA Undisturbed ==
  ASSUME Base, Exclusive, OneWeb, "client_crash" \notin Env, [Next]_vars,
         NEW c \in Web, cpc[c] \in {"probe", "enqueue"}, cjob[c] \notin Direct, ClientStays(c)
  PROVE  /\ rq'[cjob[c]].hash = "none" => rq[cjob[c]].hash = "none"
         /\ cpc[c] = "enqueue" \/ cnew[c] => rq'[cjob[c]] = rq[cjob[c]]
<1> USE DEF Base, Shape, TypeOK
<1> DEFINE j == cjob[c]
<1>1. c \in Clients /\ j \in Jobs /\ Asked(c) /\ QueuedOnce(j)
      /\ rq[j] \in Task /\ rq[j].pushes \in Nat /\ rq \in [Jobs -> Task]
  BY WebAssumption, BoundAssumption DEF Holding, QueueTypes, Task, Exclusive
<1>2. ASSUME NEW d \in Clients, QueueClient(d), cjob[d] = j PROVE FALSE
  <2>1. Asked(d) /\ cpc[d] \in {"enqueue", "unqueue"}
    BY <1>2 DEF Exclusive, Asked, QueueClient, Enqueue, EnqueueFails, Push, Unqueue
  <2>2. d = c
    BY <2>1 DEF Asked, OneWeb
  <2>3. cpc'[c] = cpc[c] /\ cpc'[c] # cpc[c]
    BY <1>1, <1>2, <2>2 DEF QueueClient, Enqueue, EnqueueFails, Push, Unqueue, Done, Ask, ClientTypes, ClientStays
  <2> QED BY <2>3
<1>3. ASSUME NEW w \in Workers, Dequeue(w, j)
      PROVE  rq[j].hash = "queued" /\ rq[j].pushes = 1 /\ rq'[j].hash = "started"
  <2>1. rq[j].pushes = 1 /\ rq[j].hash = "queued"
    BY <1>1, <1>3 DEF Dequeue, QueuedOnce
  <2> QED BY <1>1, <1>3, <2>1 DEF Dequeue, Taken
<1>4. ASSUME NEW w \in Workers, QueueWorker(w), wjob[w] = j
      PROVE  Live(j) /\ (rq'[j].hash = "none" => rq[j].hash = "none")
  <2>1. Live(j)
    BY <1>4 DEF QueueWorker, PrepareRetry, Finish, Raise, At, RunPC, Live
  <2>2. CASE PrepareRetry(w)
    <3>1. rq'[j] = rq[j] \/ \E n : rq'[j] = Saved(rq[j], n)
      BY <1>1, <1>4, <2>2 DEF PrepareRetry
    <3>2. ASSUME NEW n, rq'[j] = Saved(rq[j], n) PROVE rq'[j].hash = "started"
      BY <3>2 DEF Saved
    <3> QED BY <2>1, <3>1, <3>2
  <2>3. CASE Finish(w) \/ Raise(w)
    BY <1>1, <1>4, <2>1, <2>3 DEF Finish, Raise, Retried, Task
  <2> QED BY <1>4, <2>2, <2>3 DEF QueueWorker
<1>5. RetryDue(j) => rq[j].hash = "scheduled" /\ rq'[j].hash = "queued"
  BY <1>1 DEF RetryDue, Due, QueuedOnce
<1>6. CleanRegistry(j) => rq[j].hash = "started" /\ rq'[j].hash # "none"
  BY <1>1 DEF CleanRegistry, Retried
<1>7. cpc[c] = "enqueue" \/ cnew[c] =>
         rq[j].hash \notin {"queued", "started", "scheduled"} /\ ~Live(j)
  BY <1>1 DEF Asked, Clear, NoTask, Deleted, QueuedOnce
<1> QED BY <1>1, <1>2, <1>3, <1>4, <1>5, <1>6, <1>7, QueueSteps

(* A request that is about to push finds nothing to push beside. *)
LEMMA NextAsked ==
  ASSUME Base, Exclusive, OneWeb, "client_crash" \notin Env, [Next]_vars, NEW c \in Clients
  PROVE  Asked(c)'
<1> USE DEF Base, Shape, TypeOK
<1>1. Asked(c) /\ \A j \in Jobs \ Direct : QueuedOnce(j)
  BY DEF Exclusive
<1>2. CASE ClientStays(c)
  <2>1. cpc'[c] = cpc[c] /\ cjob'[c] = cjob[c] /\ cset'[c] = cset[c] /\ cnew'[c] = cnew[c]
    BY <1>2 DEF ClientStays
  <2>2. CASE cpc[c] \notin {"probe", "enqueue"}
    BY <1>1, <2>1, <2>2 DEF Asked
  <2>3. CASE cpc[c] \in {"probe", "enqueue"} /\ cjob[c] \notin Direct
    <3>1. PICK j \in Jobs : j = cjob[c]
      BY <2>3 DEF Holding
    <3>2. c \in Web
      BY <1>1, <2>3 DEF Asked
    <3>3. /\ rq'[j].hash = "none" => rq[j].hash = "none"
          /\ cpc[c] = "enqueue" \/ cnew[c] => rq'[j] = rq[j]
      BY <1>2, <2>3, <3>1, <3>2, Undisturbed
    <3>4. Clear(c, j)
      BY <1>1, <2>3, <3>1 DEF Asked
    <3>5. rq[j].hash = "none" => ~Live(j)'
      BY <3>4, LiveFrom DEF Enters, Clear
    <3>6. Clear(c, j)'
      BY <2>1, <2>3, <3>3, <3>4, <3>5 DEF Clear
    <3>7. Clear(c, cjob[c])'
      BY <2>1, <3>1, <3>6 DEF Clear, Live
    <3> QED BY <2>1, <2>3, <3>2, <3>7 DEF Asked
  <2>4. CASE cpc[c] \in {"probe", "enqueue"} /\ cjob[c] \in Direct
    BY <1>1, <2>1, <2>4 DEF Asked
  <2> QED BY <2>2, <2>3, <2>4
<1>3. ASSUME NEW pc, NEW j, NEW new, Ask(c, pc, j, new)
      PROVE  cpc'[c] = pc /\ cjob'[c] = j /\ cnew'[c] = new /\ cset'[c] = "skip"
  BY <1>3 DEF Ask, ClientTypes
<1>4. ASSUME Process(c), UNCHANGED <<rq, workerVars>>, NEW j \in Jobs, NEW new, Ask(c, "probe", j, new),
             c \in Web, j \notin Direct => (rq[j].hash = "none" => ~Live(j)) /\ (new => rq[j] = NoTask)
      PROVE  Asked(c)'
  <2>1. Live(j)' = Live(j)
    BY <1>4 DEF workerVars, taskVars, Live
  <2>2. cpc'[c] = "probe" /\ cjob'[c] = j /\ cnew'[c] = new /\ cset'[c] = "skip"
    BY <1>3, <1>4
  <2>3. j \notin Direct => Clear(c, j)'
    BY <1>4, <2>1, <2>2 DEF Clear
  <2>4. Clear(c, j)' => Clear(c, cjob[c])'
    BY <2>2 DEF Clear, Live
  <2> QED BY <1>4, <2>2, <2>3, <2>4 DEF Asked
<1>5. ASSUME cpc'[c] \notin {"probe", "enqueue", "push"}, cpc'[c] \in {"enqueue_failed", "unqueue"} => c \in Web
      PROVE  Asked(c)'
  BY <1>5 DEF Asked
<1>6. Done(c) => Asked(c)'
  BY DEF Done, Ask, ClientTypes, Asked
<1>7. ASSUME NEW k \in Keys, Attach(c, k) PROVE Asked(c)'
  <2>1. PICK j \in Visible(rows, k) : IF rows[j].status = "queued" THEN Ask(c, "probe", j, FALSE) ELSE Done(c)
    BY <1>7 DEF Attach
  <2>2. c \in Web /\ cpc[c] = "idle" /\ UNCHANGED <<rq, workerVars>>
    BY <1>7 DEF Attach
  <2>3. j \in Jobs /\ ~rows[j].cancel
    BY DEF Visible, Indexed, Holds
  <2>4. ~Withdrawn(j)
    BY <2>2, <2>3 DEF Withdrawn, Withdraws, OneWeb
  <2>5. j \notin Direct => (rq[j].hash = "none" => ~Live(j))
    BY <1>1, <2>3, <2>4 DEF QueuedOnce
  <2>6. CASE Ask(c, "probe", j, FALSE)
    BY <1>4, <1>7, <2>2, <2>3, <2>5, <2>6 DEF Process, Request
  <2>7. CASE Done(c)
    BY <1>6, <2>7
  <2> QED BY <2>1, <2>6, <2>7
<1>8. ASSUME NEW k \in Keys, Create(c, k) \/ Supersede(c, k) PROVE Asked(c)'
  <2>1. PICK j \in Jobs : rows[j].status = "absent" /\ Ask(c, "probe", j, TRUE)
    BY <1>8 DEF Create, Supersede
  <2>2. rq[j] = NoTask /\ ~Live(j)
    BY <2>1 DEF Present, Live
  <2>3. c \in Web /\ UNCHANGED <<rq, workerVars>> /\ Process(c)
    BY <1>8 DEF Create, Supersede, Process, Request
  <2> QED BY <1>4, <2>1, <2>2, <2>3
<1>9. CASE Probe(c)
  <2>1. c \in Web /\ cpc[c] = "probe" /\ cjob[c] \in Jobs
    BY <1>1, <1>9 DEF Probe, Asked, Holding
  <2>2. CASE Done(c)
    BY <1>6, <2>2
  <2>3. ASSUME Ask(c, "enqueue", cjob[c], cnew[c]), ~HasTask(cjob[c]) PROVE Asked(c)'
    <3>1. PICK j \in Jobs : j = cjob[c]
      BY <2>1
    <3>2. Live(j)' = Live(j) /\ rq' = rq
      BY <1>9 DEF Probe, workerVars, taskVars, Live
    <3>3. cpc'[c] = "enqueue" /\ cjob'[c] = j /\ cnew'[c] = cnew[c] /\ cset'[c] = "skip"
      BY <1>3, <2>3, <3>1
    <3>4. j \notin Direct => Clear(c, j)
      BY <1>1, <2>1, <3>1 DEF Asked
    <3>5. rq[j].hash \notin {"queued", "started", "scheduled"}
      BY <2>3, <3>1 DEF HasTask
    <3>6. j \notin Direct => Clear(c, j)'
      BY <3>2, <3>3, <3>4, <3>5 DEF Clear
    <3>7. Clear(c, j)' => Clear(c, cjob[c])'
      BY <3>3 DEF Clear, Live
    <3> QED BY <2>1, <3>3, <3>6, <3>7 DEF Asked
  <2>4. cnew[c] /\ cjob[c] \notin Direct => ~HasTask(cjob[c])
    BY <1>1, <2>1 DEF Asked, Clear, NoTask, Deleted, HasTask
  <2>5. ASSUME NEW new, Ask(c, "enqueue", cjob[c], new), cjob[c] \in Direct PROVE Asked(c)'
    BY <1>3, <2>1, <2>5 DEF Asked
  <2> QED BY <1>9, <2>2, <2>3, <2>4, <2>5 DEF Probe, ClientTypes
<1>10. CASE Enqueue(c) \/ Push(c) \/ UpdateByClient(c) \/ ProbeOrphan(c)
  <2>1. ASSUME Ask(c, "orphan", cjob[c], FALSE) PROVE Asked(c)'
    <3>1. cpc'[c] = "orphan" /\ cset'[c] = "skip"
      BY <2>1, <1>3
    <3> QED BY <3>1, <1>5
  <2> QED BY <1>6, <1>10, <2>1 DEF Enqueue, Push, UpdateByClient, ProbeOrphan
<1>11. CASE EnqueueFails(c) \/ Unqueue(c)
  <2>1. c \in Web
    BY <1>1, <1>11 DEF EnqueueFails, Unqueue, Asked
  <2> QED BY <1>3, <1>5, <1>11, <2>1 DEF EnqueueFails, Unqueue
<1>12. ASSUME NEW s, Select(c, s) PROVE Asked(c)'
  <2>1. CASE s = "skip"
    BY <1>12, <1>6, <2>1 DEF Select
  <2>2. CASE s # "skip"
    BY <1>12, <2>2 DEF Select, ClientTypes, Asked
  <2> QED BY <2>1, <2>2
<1>13. CASE RecordEnqueueFailure(c) \/ AbandonOrphan(c) \/ MarkCancel(c)
  BY <1>12, <1>13 DEF RecordEnqueueFailure, AbandonOrphan, MarkCancel
<1>14. ASSUME NEW k \in Keys, CreateDirect(c, k) PROVE Asked(c)'
  <2>1. PICK j \in Direct : Ask(c, "push", j, TRUE)
    BY <1>14 DEF CreateDirect
  <2>2. cpc'[c] = "push" /\ cjob'[c] = j
    BY <1>3, <2>1
  <2> QED BY <2>2 DEF Asked
<1>15. ASSUME NEW j \in Jobs, Cancel(c, j) PROVE Asked(c)'
  BY <1>3, <1>5, <1>15 DEF Cancel
<1>16. ASSUME NEW k \in Keys, LookUp(c, k) PROVE Asked(c)'
  BY <1>3, <1>5, <1>16 DEF LookUp
<1>17. ASSUME NEW k \in Keys, Conflict(c, k) PROVE Asked(c)'
  BY <1>5, <1>17 DEF Conflict, clientVars
<1> QED BY <1>2, <1>7, <1>8, <1>9, <1>10, <1>11, <1>13, <1>14, <1>15, <1>16, <1>17, Stays, ClientAt DEF Request

(* With one event loop, never two workers are inside the run of one job that *)
(* the API created: its report files have one writer, however many workers  *)
(* consume the queue, whatever becomes of them, of RQ's retries and of      *)
(* Redis, and whatever threads and other processes look up, cancel or push. *)
THEOREM ExclusiveRunAlways ==
  ASSUME OneWeb, "client_crash" \notin Env
  PROVE  Spec => []ExclusiveRun
<1>1. Init => Exclusive
  BY DEF Init, Exclusive, OneRun, QueuedOnce, Asked, Live, RunPC, NoTask, Deleted
<1>2. Base /\ Exclusive /\ [Next]_vars => Exclusive'
  <2>1. Base /\ Exclusive /\ [Next]_vars => OneRun'
    BY NextOneRun DEF Base
  <2>2. Base /\ Exclusive /\ [Next]_vars => \A j \in Jobs \ Direct : QueuedOnce(j)'
    BY NextQueuedOnce
  <2>3. Base /\ Exclusive /\ [Next]_vars => \A c \in Clients : Asked(c)'
    BY NextAsked
  <2> QED BY <2>1, <2>2, <2>3 DEF Exclusive
<1>3. Exclusive => ExclusiveRun
  BY DEF Exclusive, OneRun, ExclusiveRun
<1> QED BY <1>1, <1>2, <1>3, BaseAlways, PTL DEF Spec

-----------------------------------------------------------------------------
(* The life of a row.                                                       *)

(* One queue worker, as start_mac.command starts it. *)
OneWorker == \E w : Workers = {w}

(* The run of a job may set its status. *)
Ours(j)  == rows[j].status \in Active \/ rows[j].cancel
Begun(j) == rows[j].status \notin {"absent", "queued"}
Past(j)  == Ours(j) \/ rows[j].status = "done"

(* No request records a failed push. *)
Silent == \A c \in Clients : cpc[c] # "enqueue_failed" /\ cset[c] # "error"

MidRun    == RunPC \ {"guard", "emit", "fail", "finish", "raise"}
PastStart == {"setup", "fetch", "snapshot", "segment", "run", "render", "persist", "done", "retry"}

(* A run past its guard is of a job that did not settle under it, except by *)
(* its own "done", and past its first UPDATE of one that left the queue.    *)
Heeds(w) ==
    /\ wpc[w] \in MidRun \cup {"requeued"} => Ours(wjob[w])
    /\ wpc[w] \in {"emit", "fail"} => Past(wjob[w])
    /\ wpc[w] \in PastStart \cup {"requeued"} => Begun(wjob[w])
    /\ wset[w] \in {"waiting_retry", "done"} => Begun(wjob[w])
    /\ wset[w] = "error" => wthen[w] \in {"finish", "raise"}
    /\ wset[w] = "done" => wthen[w] = "emit"
    /\ \A j \in back[w] : Begun(j)

Life == Silent /\ \A w \in Workers : Heeds(w)

(* While Redis answers, no push fails. *)
LEMMA NextSilent ==
  ASSUME Shape, Silent, "redis_error" \notin Env, [Next]_vars
  PROVE  Silent'
<1> USE DEF Shape, TypeOK
<1> SUFFICES ASSUME NEW c \in Clients PROVE cpc'[c] # "enqueue_failed" /\ cset'[c] # "error"
  BY DEF Silent
<1>1. CASE ClientStays(c)
  BY <1>1 DEF ClientStays, Silent
<1>2. ASSUME NEW pc, NEW j, NEW new, Ask(c, pc, j, new), pc # "enqueue_failed"
      PROVE  cpc'[c] # "enqueue_failed" /\ cset'[c] # "error"
  BY <1>2 DEF Ask, ClientTypes
<1>3. Done(c) => cpc'[c] # "enqueue_failed" /\ cset'[c] # "error"
  BY DEF Done, Ask, ClientTypes
<1>4. ASSUME NEW s, Select(c, s), s # "error" PROVE cpc'[c] # "enqueue_failed" /\ cset'[c] # "error"
  BY <1>3, <1>4 DEF Select, ClientTypes
<1>5. CASE Request(c)
  <2>1. ASSUME NEW k \in Keys, Conflict(c, k) PROVE UNCHANGED <<cpc, cset>>
    BY <2>1 DEF Conflict, clientVars
  <2> QED BY <1>2, <1>3, <1>5, <2>1 DEF Request, Attach, Create, CreateDirect, Supersede, LookUp, Cancel, Silent
<1>6. ~EnqueueFails(c) /\ ~RecordEnqueueFailure(c)
  BY DEF EnqueueFails, Push, RecordEnqueueFailure, Silent
<1>7. CASE Probe(c) \/ Enqueue(c) \/ Push(c) \/ Unqueue(c) \/ ProbeOrphan(c) \/ UpdateByClient(c)
           \/ ClientCrash(c)
  <2>1. ASSUME NEW pc \in {"enqueue", "mark", "orphan"}, NEW new, Ask(c, pc, cjob[c], new)
        PROVE  cpc'[c] # "enqueue_failed" /\ cset'[c] # "error"
    BY <2>1 DEF Ask, ClientTypes
  <2> QED BY <1>3, <1>7, <2>1 DEF Probe, Enqueue, Push, Unqueue, ProbeOrphan, UpdateByClient, ClientCrash
<1>8. CASE MarkCancel(c) \/ AbandonOrphan(c)
  <2>1. \A r : CancelChoice(r) # "error" /\ AbandonChoice(r) # "error"
    BY DEF CancelChoice, AbandonChoice
  <2> QED BY <1>4, <1>8, <2>1 DEF MarkCancel, AbandonOrphan
<1> QED BY <1>1, <1>5, <1>6, <1>7, <1>8, Stays DEF Process, ClientStep

(* A step that is of no worker leaves a row alone, or flags it: close,      *)
(* cancel or abandonment.                                                   *)
LEMMA OtherRows ==
  ASSUME Base, Silent, [Next]_vars, UNCHANGED workerVars, NEW j \in Jobs
  PROVE  Kept(j) \/ Inserted(j) \/ \E s \in {"close", "flag", "abandon"} : rows'[j] = Applied(rows[j], s)
<1> USE DEF Base, Shape, TypeOK
<1>1. rows \in [Jobs -> Row] /\ rows[j] \in Row
  BY DEF TableTypes
<1>2. CASE UNCHANGED rows
  BY <1>2 DEF Kept
<1>3. ASSUME NEW c \in Clients, NEW k \in Keys, Create(c, k) PROVE Kept(j) \/ Inserted(j)
  BY <1>1, <1>3 DEF Create, Kept, Inserted
<1>9. ASSUME NEW c \in Clients, NEW k \in Keys, CreateDirect(c, k) PROVE Kept(j) \/ Inserted(j)
  BY <1>1, <1>9, DirectAssumption DEF CreateDirect, Kept, Inserted
<1>4. ASSUME NEW c \in Clients, NEW k \in Keys, Supersede(c, k)
      PROVE  Kept(j) \/ Inserted(j) \/ rows'[j] = Applied(rows[j], "close")
  BY <1>1, <1>4 DEF Supersede, Kept, Inserted
<1>5. ASSUME NEW c \in Clients, Enqueue(c) PROVE Kept(j)
  <2>1. Touched(rows[j]).status = rows[j].status /\ Touched(rows[j]).cancel = rows[j].cancel
        /\ Touched(rows[j]).filed = rows[j].filed
    BY <1>1 DEF Touched, Row
  <2> QED BY <1>1, <1>5, <2>1 DEF Enqueue, Kept
<1>6. ASSUME NEW c \in Clients, UpdateByClient(c)
      PROVE  Kept(j) \/ \E s \in {"close", "flag", "abandon"} : rows'[j] = Applied(rows[j], s)
  <2>1. cset[c] \in {"close", "flag", "abandon"}
    BY <1>6 DEF UpdateByClient, ClientPending, Silent
  <2> QED BY <1>1, <1>6, <2>1 DEF UpdateByClient, Kept
<1>7. ASSUME NEW w \in Workers, MarkRetrying(w) \/ UpdateByRun(w) \/ Persist(w) \/ MarkAbandoned(w) PROVE FALSE
  BY <1>7 DEF MarkRetrying, UpdateByRun, Persist, MarkAbandoned, At, Go, workerVars, WorkerTypes, WorkerPending,
     AfterUpdate
<1>8. ASSUME NEW i \in Jobs, GoStale(i) PROVE Kept(j)
  BY <1>1, <1>8 DEF GoStale, Kept
<1> QED BY <1>2, <1>3, <1>4, <1>5, <1>6, <1>7, <1>8, <1>9, RowWriters DEF vars, dbVars

(* So it takes no job away from its run. *)
LEMMA OthersHeed ==
  ASSUME Base, Silent, [Next]_vars, UNCHANGED workerVars, NEW j \in Jobs
  PROVE  (Ours(j) => Ours(j)') /\ (Past(j) => Past(j)') /\ (Begun(j) => Begun(j)')
<1>1. rows[j] \in Row
  BY DEF Base, Shape, TypeOK, TableTypes
<1>2. Kept(j) => (Ours(j) => Ours(j)') /\ (Past(j) => Past(j)') /\ (Begun(j) => Begun(j)')
  BY DEF Kept, Ours, Past, Begun
<1>3. Inserted(j) => ~Past(j) /\ ~Begun(j)
  BY DEF Base, Existing, Inserted, Ours, Past, Begun, Active
<1>4. ASSUME NEW s \in {"close", "flag", "abandon"}, rows'[j] = Applied(rows[j], s)
      PROVE  Ours(j)' /\ (Begun(j) => Begun(j)')
  BY <1>1, <1>4 DEF Applied, Row, Ours, Begun
<1> QED BY <1>2, <1>3, <1>4, OtherRows DEF Past

(* What a step of a worker does to a row. *)
LEMMA WorkerRows ==
  ASSUME Base, [Next]_vars, UNCHANGED clientVars, NEW j \in Jobs
  PROVE  \/ Kept(j)
         \/ \E w \in Workers : MarkRetrying(w) /\ wjob[w] = j /\ rows'[j] = Applied(rows[j], "waiting_retry")
         \/ \E w \in Workers : UpdateByRun(w) /\ wjob[w] = j /\ rows'[j] = Applied(rows[j], wset[w])
         \/ \E w \in Workers : MarkAbandoned(w) /\ j \in lost[w] /\ rows'[j] = Applied(rows[j], "abandon")
<1> USE DEF Base, Shape, TypeOK
<1>1. rows \in [Jobs -> Row] /\ rows[j] \in Row
  BY DEF TableTypes
<1>2. CASE UNCHANGED rows
  BY <1>2 DEF Kept
<1>3. ASSUME NEW c \in Clients, \/ Enqueue(c) \/ UpdateByClient(c)
                                \/ \E k \in Keys : Create(c, k) \/ Supersede(c, k) \/ CreateDirect(c, k)
      PROVE  FALSE
  BY <1>3 DEF Enqueue, UpdateByClient, Create, Supersede, CreateDirect, Done, Ask, ClientTypes, clientVars
<1>4. ASSUME NEW w \in Workers, MarkRetrying(w)
      PROVE  Kept(j) \/ (wjob[w] = j /\ rows'[j] = Applied(rows[j], "waiting_retry"))
  <2>1. rows' = rows \/ rows' = [rows EXCEPT ![wjob[w]] = Applied(@, "waiting_retry")]
    BY <1>4 DEF MarkRetrying
  <2> QED BY <1>1, <2>1 DEF Kept
<1>5. ASSUME NEW w \in Workers, UpdateByRun(w)
      PROVE  Kept(j) \/ (wjob[w] = j /\ rows'[j] = Applied(rows[j], wset[w]))
  <2>1. rows' = rows \/ rows' = [rows EXCEPT ![wjob[w]] = Applied(@, wset[w])]
    BY <1>5 DEF UpdateByRun
  <2> QED BY <1>1, <2>1 DEF Kept
<1>6. ASSUME NEW w \in Workers, Persist(w) PROVE Kept(j)
  <2>1. Touched(rows[j]).status = rows[j].status /\ Touched(rows[j]).cancel = rows[j].cancel
        /\ Touched(rows[j]).filed = rows[j].filed
    BY <1>1 DEF Touched, Row
  <2> QED BY <1>1, <1>6, <2>1 DEF Persist, Kept
<1>7. ASSUME NEW w \in Workers, MarkAbandoned(w)
      PROVE  Kept(j) \/ (j \in lost[w] /\ rows'[j] = Applied(rows[j], "abandon"))
  BY <1>1, <1>7 DEF MarkAbandoned, Kept
<1>8. ASSUME NEW i \in Jobs, GoStale(i) PROVE Kept(j)
  BY <1>1, <1>8 DEF GoStale, Kept
<1> QED BY <1>2, <1>3, <1>4, <1>5, <1>6, <1>7, <1>8, RowWriters DEF vars, dbVars

(* A worker puts no row back into the queue. *)
LEMMA WorkersBegin ==
  ASSUME Base, [Next]_vars, UNCHANGED clientVars, NEW j \in Jobs, Begun(j)
  PROVE  Begun(j)'
<1>1. rows[j] \in Row
  BY DEF Base, Shape, TypeOK, TableTypes
<1>2. \A s \in RunStatements \cup {"abandon"} :
         Applied(rows[j], s).status \notin {"absent", "queued"}
  BY <1>1 DEF RunStatements, Applied, Row
<1>3. \A w \in Workers : UpdateByRun(w) => wset[w] \in RunStatements
  BY DEF Base, Shape, WorkerPending, UpdateByRun, At
<1> QED BY <1>1, <1>2, <1>3, WorkerRows DEF Kept, Begun, RunStatements

(* update_job gives up only on a settled row. *)
LEMMA Choices ==
  ASSUME NEW r \in Row, NEW s \in RunStatements, r.status # "absent"
  PROVE  /\ UpdateChoice(r, s) \in RunStatements \cup {"skip"}
         /\ UpdateChoice(r, s) = "skip" => r.status \in Terminal
         /\ UpdateChoice(r, s) \in {s, "skip"} \/ (s = "done" /\ UpdateChoice(r, s) = "cancelled")
  BY DEF UpdateChoice, Settled, RunStatements

(* A run loses its job only to itself. *)
LEMMA RunHeeds ==
  ASSUME Base, NEW w \in Workers, Heeds(w), RunStep(w), [Next]_vars
  PROVE  Heeds(w)'
<1> USE DEF Base, Shape, TypeOK
<1>1. wpc[w] \in RunPC /\ wjob[w] \in Jobs
  BY RunningAt
<1>2. PICK j \in Jobs : j = wjob[w]
  BY <1>1
<1>3. rows[j] \in Row /\ rows[j].status # "absent"
  BY <1>1, <1>2 DEF TableTypes, Present
<1>4. back'[w] = back[w] /\ \A i \in back[w] : Begun(i)'
  <2>1. UNCHANGED back /\ UNCHANGED clientVars
    BY Zenon DEF RunStep, Guard, Begin, NoKeys, Setup, Fetch, FetchBlocked, Snapshot, Segment, Run, Render, Persist,
       MarkDone, EmitDone, Abort, Refuse, RunRaises, Fail, PrepareRetry, UpdateByRun, Finish, Raise,
       NoWrite, RunFrame, bootVars
  <2>2. back[w] \subseteq Jobs
    BY DEF BootTypes
  <2> QED BY <2>1, <2>2, WorkersBegin DEF Heeds
<1>5. ASSUME NEW pc \in RunPC \cup {"idle"}, Go(w, pc), wpc[w] # "update",
             pc \in RunPC => UNCHANGED <<wjob, rows>>, UNCHANGED sqlVars,
             pc \in MidRun => Ours(j), pc \in PastStart => Begun(j), pc \in {"emit", "fail"} => Past(j)
      PROVE  Heeds(w)'
  <2>1. wpc'[w] = pc /\ wset'[w] = "skip" /\ pc # "requeued"
    BY <1>5 DEF Go, sqlVars, WorkerTypes, WorkerPending, RunPC
  <2>2. pc \in RunPC => wjob'[w] = j /\ (Ours(j) => Ours(j)') /\ (Past(j) => Past(j)') /\ (Begun(j) => Begun(j)')
    BY <1>2, <1>5 DEF Ours, Past, Begun
  <2>3. MidRun \subseteq RunPC /\ PastStart \subseteq RunPC /\ {"emit", "fail"} \subseteq RunPC
    BY DEF MidRun, PastStart, RunPC
  <2> HIDE DEF Base, Shape, TypeOK
  <2> QED BY <1>4, <1>5, <2>1, <2>2, <2>3 DEF Heeds, Ours, Past, Begun
<1>6. ASSUME NEW s \in RunStatements, NEW next \in AfterUpdate, UpdateTo(w, s, next), UNCHANGED <<wjob, rows>>,
             Ours(j), wpc[w] \in RunPC \ {"update"},
             s \in {"waiting_retry", "done"} => Begun(j),
             s = "error" => next \in {"finish", "raise"},
             s = "done" => next = "emit"
      PROVE  Heeds(w)'
  <2>1. Ours(j) /\ wset[w] = "skip"
    BY <1>6 DEF WorkerPending
  <2>2. CASE UpdateChoice(rows[j], s) = "skip"
    <3>1. Begun(j)
      BY <1>3, <2>2, Choices DEF Begun, Terminal
    <3> QED BY <1>2, <1>5, <1>6, <2>1, <2>2, <3>1 DEF UpdateTo, MyRow, AfterUpdate, RunPC, Past
  <2>3. CASE UpdateChoice(rows[j], s) # "skip"
    <3>1. wpc'[w] = "update" /\ wset'[w] = UpdateChoice(rows[j], s) /\ wthen'[w] = next
      BY <1>2, <1>6, <2>3 DEF UpdateTo, MyRow, Go, WorkerTypes
    <3>2. wjob'[w] = j /\ Ours(j)' /\ Begun(j)' = Begun(j)
      BY <1>2, <1>6, <2>1 DEF Ours, Begun
    <3>3. UpdateChoice(rows[j], s) \in {s, "skip"} \/ (s = "done" /\ UpdateChoice(rows[j], s) = "cancelled")
      BY <1>3, Choices
    <3> HIDE DEF Base, Shape, TypeOK
    <3> QED BY <1>4, <1>6, <2>3, <3>1, <3>2, <3>3 DEF Heeds, PastStart, Ours, Begun
  <2> QED BY <2>2, <2>3
<1>7. wpc[w] \in MidRun => Ours(j)
  BY <1>2 DEF Heeds
<1>8. (wpc[w] \in PastStart => Begun(j)) /\ (wpc[w] \in {"emit", "fail"} => Past(j))
  BY <1>2 DEF Heeds
<1> HIDE DEF Heeds
<1>9. CASE Guard(w)
  <2>1. rows[j].status \notin Terminal => Ours(j)
    BY <1>3 DEF Row, Ours
  <2> QED BY <1>2, <1>5, <1>9, <2>1 DEF Guard, NoWrite, dbVars, taskVars, MyRow, At, RunPC, MidRun, PastStart
<1>10. CASE Begin(w) \/ Abort(w)
  BY <1>6, <1>7, <1>10 DEF Begin, Abort, RunFrame, dbVars, taskVars, At, RunStatements, AfterUpdate, MidRun, RunPC
<1>19. CASE Fail(w)
  <2>1. Past(j) /\ UpdateTo(w, "error", "raise") /\ UNCHANGED <<wjob, rows>> /\ wpc[w] = "fail"
    BY <1>8, <1>19 DEF Fail, RunFrame, dbVars, taskVars, At
  <2>2. CASE Ours(j)
    BY <1>6, <2>1, <2>2 DEF RunStatements, AfterUpdate, RunPC
  <2>3. CASE rows[j].status = "done"
    <3>1. Go(w, "raise") /\ UNCHANGED sqlVars
      BY <1>2, <2>1, <2>3 DEF UpdateTo, UpdateChoice, Settled, Terminal, MyRow
    <3> QED BY <1>5, <2>1, <3>1 DEF MidRun, PastStart, RunPC
  <2> QED BY <2>1, <2>2, <2>3 DEF Past
<1>11. CASE NoKeys(w) \/ FetchBlocked(w) \/ Snapshot(w) \/ MarkDone(w)
  BY <1>6, <1>7, <1>8, <1>11 DEF NoKeys, FetchBlocked, Snapshot, MarkDone, RunFrame, dbVars, taskVars, At, RunStatements,
     AfterUpdate, MidRun, PastStart, RunPC
<1>12. CASE Setup(w) \/ Fetch(w) \/ Segment(w) \/ Render(w)
  BY <1>5, <1>7, <1>8, <1>12 DEF Setup, Fetch, Segment, Render, Checkpoint, NoWrite, dbVars, taskVars, At, MidRun,
     PastStart, RunPC
<1>13. CASE Run(w)
  <2>1. CASE MyRow(w).cancel
    BY <1>5, <1>7, <1>13, <2>1 DEF Run, RunFrame, dbVars, taskVars, At, MidRun, PastStart, RunPC
  <2>2. CASE ~MyRow(w).cancel
    BY <1>6, <1>7, <1>8, <1>13, <2>2 DEF Run, RunFrame, dbVars, taskVars, At, RunStatements, AfterUpdate, MidRun, PastStart,
       RunPC
  <2> QED BY <2>1, <2>2
<1>14. CASE Refuse(w) \/ RunRaises(w)
  <2>1. CASE wpc[w] = "refuse" /\ UpdateTo(w, "error", "finish") /\ RunFrame
    BY <1>6, <1>7, <2>1 DEF RunFrame, dbVars, taskVars, RunStatements, AfterUpdate, MidRun, RunPC
  <2>2. ASSUME NEW pc \in {"refuse", "fail", "raise", "retry"}, Go(w, pc), NoWrite, wpc[w] # "update",
               pc \in {"refuse", "retry"} => wpc[w] \in MidRun, pc = "retry" => wpc[w] = "run",
               pc = "fail" => wpc[w] \in MidRun \cup {"emit"}
        PROVE  Heeds(w)'
    BY <1>5, <1>7, <1>8, <2>2 DEF NoWrite, dbVars, taskVars, MidRun, PastStart, RunPC, Past
  <2> QED BY <1>14, <2>1, <2>2 DEF Refuse, RunRaises, At, MidRun, RunPC
<1>15. CASE PrepareRetry(w)
  <2>1. \E s \in {"waiting_retry", "error"} : UpdateTo(w, s, "raise")
    BY <1>15 DEF PrepareRetry
  <2>2. UNCHANGED <<wjob, rows>> /\ wpc[w] = "retry"
    BY <1>15 DEF PrepareRetry, dbVars, At
  <2> QED BY <1>6, <1>7, <1>8, <2>1, <2>2 DEF RunStatements, AfterUpdate, MidRun, PastStart, RunPC
<1>16. CASE Persist(w)
  <2>1. wpc'[w] = "segment" /\ wset'[w] = "skip" /\ wjob'[w] = j /\ Ours(j) /\ Begun(j)
    BY <1>2, <1>7, <1>8, <1>16 DEF Persist, At, Go, sqlVars, WorkerTypes, WorkerPending, MidRun, PastStart, RunPC
  <2>2. rows'[j].status = rows[j].status /\ rows'[j].cancel = rows[j].cancel
    BY <1>2, <1>3, <1>16 DEF Persist, Touched, TableTypes, Row
  <2>3. Ours(j)' /\ Begun(j)'
    BY <2>1, <2>2 DEF Ours, Begun
  <2> QED BY <1>4, <2>1, <2>3 DEF Heeds, Ours, Begun
<1>17. CASE UpdateByRun(w)
  <2>1. wjob'[w] = j /\ wset'[w] = "skip" /\ wset[w] \in RunStatements /\ wthen[w] \in AfterUpdate /\ Ours(j)
    BY <1>2, <1>7, <1>17 DEF UpdateByRun, At, WorkerTypes, WorkerPending, taskVars, MidRun, RunPC
  <2>2. ASSUME rows' = rows, wpc'[w] \in {"raise", "fail"} PROVE Heeds(w)'
    <3>1. Ours(j)'
      BY <2>1, <2>2 DEF Ours
    <3> HIDE DEF Base, Shape, TypeOK
    <3> QED BY <1>4, <2>1, <2>2, <3>1 DEF Heeds, MidRun, PastStart, Ours, Past, Begun
  <2>3. ASSUME rows'[j] = Applied(rows[j], wset[w]), wpc'[w] = wthen[w] PROVE Heeds(w)'
    <3>1. Begun(j)'
      BY <1>3, <2>1, <2>3 DEF RunStatements, Applied, Row, Begun
    <3>2. wthen[w] \in MidRun => wset[w] \in {"running", "waiting_retry", "cancelled"}
      BY <2>1 DEF Heeds, RunStatements, MidRun
    <3>3. wset[w] = "cancelled" => rows[j].cancel
      BY <1>2 DEF Requested
    <3>4. wthen[w] \in MidRun => Ours(j)'
      BY <1>3, <2>3, <3>2, <3>3 DEF Applied, Row, Ours, Active
    <3>5. wthen[w] = "emit" => Past(j)'
      BY <1>2, <1>3, <2>1, <2>3, <3>3 DEF Heeds, RunStatements, Applied, Row, Past, Ours, Active
    <3> HIDE DEF Base, Shape, TypeOK
    <3> QED BY <1>4, <2>1, <2>3, <3>1, <3>4, <3>5 DEF Heeds, AfterUpdate, MidRun, Ours, Past, Begun
  <2>4. \/ rows' = rows /\ wpc'[w] \in {"raise", "fail"}
        \/ rows'[j] = Applied(rows[j], wset[w]) /\ wpc'[w] = wthen[w]
    BY <1>2, <1>17 DEF UpdateByRun, Go, WorkerTypes, TableTypes
  <2> QED BY <2>2, <2>3, <2>4
<1>18. CASE EmitDone(w) \/ Finish(w) \/ Raise(w)
  BY <1>5, <1>18 DEF EmitDone, Finish, Raise, Free, taskVars, At, MidRun, PastStart, RunPC
<1> QED BY <1>9, <1>10, <1>11, <1>12, <1>13, <1>14, <1>15, <1>16, <1>17, <1>18, <1>19 DEF RunStep

(* Nor do start-up reconciliation, the next task or a restart take a job    *)
(* from the only worker.                                                    *)
LEMMA BootHeeds ==
  ASSUME Base, NEW w \in Workers, Heeds(w), Boot(w) \/ WorkerCrash(w) \/ \E i \in Jobs : Dequeue(w, i), [Next]_vars
  PROVE  Heeds(w)'
<1> USE DEF Base, Shape, TypeOK
<1>1. WorkerCrash(w) \/ (UNCHANGED clientVars /\ wpc[w] # "update" /\ wset[w] = "skip")
  <2>1. ASSUME ~WorkerCrash(w) PROVE UNCHANGED clientVars /\ wpc[w] # "update"
    BY <2>1 DEF Boot, ReadQueues, ReadRegistries, SkipReconciliation, ReadRows, SelectRetrying, MarkRetrying,
       SelectAbandoned, MarkAbandoned, At, Dequeue
  <2> QED BY <2>1 DEF WorkerPending
<1>2. \A i \in back[w] : i \in Jobs /\ Begun(i)
  BY DEF BootTypes, Heeds
<1>3. ASSUME wpc'[w] \notin MidRun \cup PastStart \cup {"requeued", "emit", "fail"}, wset'[w] = "skip",
             \A i \in back'[w] : Begun(i)'
      PROVE  Heeds(w)'
  BY <1>3 DEF Heeds, Begun, Ours
<1>4. UNCHANGED clientVars => \A i \in back[w] : Begun(i)'
  BY <1>2, WorkersBegin
<1>5. CASE WorkerCrash(w)
  BY <1>3, <1>5 DEF WorkerCrash, Go, WorkerTypes, BootTypes, MidRun, PastStart, RunPC
<1>6. ASSUME NEW i \in Jobs, Dequeue(w, i) PROVE Heeds(w)'
  <2>1. wpc'[w] \in {"idle", "guard"} /\ wset'[w] = wset[w] /\ back'[w] = back[w] /\ UNCHANGED clientVars
        /\ wpc[w] = "idle"
    BY <1>6 DEF Dequeue, At, Go, WorkerTypes, sqlVars, bootVars
  <2>2. wset[w] = "skip"
    BY <2>1 DEF WorkerPending
  <2>3. wpc'[w] \notin MidRun \cup PastStart \cup {"requeued", "emit", "fail"}
    BY <2>1 DEF MidRun, PastStart, RunPC
  <2>4. \A k \in back'[w] : Begun(k)'
    BY <1>4, <2>1
  <2> QED BY <1>3, <2>1, <2>2, <2>3, <2>4
<1>7. ASSUME NEW pc \in {"registries", "rows", "idle", "retrying", "abandon", "down"}, Go(w, pc),
             Boot(w), UNCHANGED sqlVars, back'[w] \subseteq back[w]
      PROVE  Heeds(w)'
  <2>1. ~WorkerCrash(w)
    BY <1>7 DEF Boot, ReadQueues, ReadRegistries, SkipReconciliation, ReadRows, SelectRetrying, MarkRetrying,
       SelectAbandoned, MarkAbandoned, WorkerCrash
  <2>2. wpc'[w] = pc /\ wset'[w] = "skip"
    BY <1>1, <1>7, <2>1 DEF Go, sqlVars, WorkerTypes
  <2> QED BY <1>1, <1>3, <1>4, <1>7, <2>1, <2>2 DEF MidRun, PastStart, RunPC
<1>8. CASE ReadQueues(w) \/ ReadRegistries(w) \/ SkipReconciliation(w) \/ SelectAbandoned(w) \/ MarkAbandoned(w)
  BY <1>7, <1>8 DEF Boot, ReadQueues, ReadRegistries, SkipReconciliation, SelectAbandoned, MarkAbandoned
<1>9. CASE ReadRows(w)
  <2>1. wpc'[w] = "retrying" /\ wset'[w] = "skip" /\ UNCHANGED rows
    BY <1>9 DEF ReadRows, At, Go, WorkerTypes, WorkerPending, sqlVars, dbVars
  <2>2. \A i \in back'[w] : rows[i].status = "running"
    BY <1>9 DEF ReadRows, BootTypes
  <2>3. \A i \in back'[w] : Begun(i)'
    BY <2>1, <2>2 DEF Begun
  <2> QED BY <1>3, <2>1, <2>3 DEF MidRun, PastStart, RunPC
<1>10. CASE SelectRetrying(w)
  <2>1. PICK i \in back[w] :
           /\ back' = [back EXCEPT ![w] = @ \ {i}]
           /\ IF UpdateChoice(rows[i], "waiting_retry") = "skip"
              THEN UNCHANGED <<wpc, wjob>>
              ELSE Go(w, "requeued") /\ wjob' = [wjob EXCEPT ![w] = i]
    BY <1>10 DEF SelectRetrying
  <2>2. i \in Jobs /\ Begun(i) /\ rows[i] \in Row /\ wpc[w] = "retrying" /\ UNCHANGED <<rows, sqlVars>>
        /\ wset[w] = "skip"
    BY <1>2, <1>10 DEF SelectRetrying, At, TableTypes, dbVars, WorkerPending
  <2>3. \A k \in back'[w] : Begun(k)'
    BY <1>2, <2>1, <2>2 DEF BootTypes, Begun
  <2>4. CASE UpdateChoice(rows[i], "waiting_retry") = "skip"
    BY <1>3, <2>1, <2>2, <2>3, <2>4 DEF sqlVars, MidRun, PastStart, RunPC
  <2>5. CASE UpdateChoice(rows[i], "waiting_retry") # "skip"
    <3>1. wpc'[w] = "requeued" /\ wjob'[w] = i /\ wset'[w] = "skip"
      BY <2>1, <2>2, <2>5 DEF Go, WorkerTypes, sqlVars
    <3>2. Ours(i)' /\ Begun(i)'
      BY <2>2, <2>5 DEF UpdateChoice, Settled, Begun, Ours, Row, Active, Terminal
    <3> QED BY <2>3, <3>1, <3>2 DEF Heeds, Ours, Begun
  <2> QED BY <2>4, <2>5
<1>11. CASE MarkRetrying(w)
  <2>1. /\ Go(w, "retrying") \/ Go(w, "down")
        /\ UNCHANGED sqlVars
        /\ back'[w] \subseteq back[w]
    BY <1>11 DEF MarkRetrying, BootTypes
  <2> QED BY <1>7, <1>11, <2>1 DEF Boot
<1> QED BY <1>5, <1>6, <1>8, <1>9, <1>10, <1>11 DEF Boot

(* With one worker, and Redis answering, the life cycle is kept. *)
LEMMA LifeAlways ==
  ASSUME OneWorker, "redis_error" \notin Env
  PROVE  Spec => [](Base /\ Life)
<1>1. Init => Life
  BY DEF Init, Life, Silent, Heeds, MidRun, PastStart, RunPC
<1>2. Base /\ Life /\ [Next]_vars => Life'
  <2> SUFFICES ASSUME Base, Life, [Next]_vars PROVE Life'
    OBVIOUS
  <2>1. Silent'
    BY NextSilent DEF Base, Life
  <2>2. ASSUME NEW w \in Workers PROVE Heeds(w)'
    <3>1. Heeds(w)
      BY DEF Life
    <3>2. CASE UNCHANGED workerVars
      <4>1. /\ wpc'[w] = wpc[w] /\ wjob'[w] = wjob[w] /\ wset'[w] = wset[w] /\ wthen'[w] = wthen[w]
            /\ back'[w] = back[w]
        BY <3>2 DEF workerVars, taskVars, sqlVars, bootVars
      <4>2. ASSUME NEW i \in Jobs PROVE (Ours(i) => Ours(i)') /\ (Past(i) => Past(i)') /\ (Begun(i) => Begun(i)')
        BY <3>2, OthersHeed DEF Life
      <4>3. back[w] \subseteq Jobs /\ (wpc[w] \in RunPC \cup {"requeued"} => wjob[w] \in Jobs)
            /\ (wset[w] # "skip" => wpc[w] = "update")
        BY DEF Base, Shape, TypeOK, BootTypes, Holding, WorkerPending
      <4>4. \A i \in back'[w] : Begun(i)'
        BY <3>1, <4>1, <4>2, <4>3 DEF Heeds
      <4>5. wjob[w] \in Jobs => /\ Ours(wjob[w]) => Ours(wjob[w])'
                                /\ Past(wjob[w]) => Past(wjob[w])'
                                /\ Begun(wjob[w]) => Begun(wjob[w])'
        <5> SUFFICES ASSUME NEW i \in Jobs, i = wjob[w]
                     PROVE  /\ Ours(i) => Ours(wjob[w])'
                            /\ Past(i) => Past(wjob[w])'
                            /\ Begun(i) => Begun(wjob[w])'
          OBVIOUS
        <5> QED BY <4>1, <4>2 DEF Ours, Past, Begun
      <4>6. MidRun \cup PastStart \cup {"update", "emit", "fail"} \subseteq RunPC
        BY DEF MidRun, PastStart, RunPC
      <4> QED BY <3>1, <4>1, <4>3, <4>4, <4>5, <4>6 DEF Heeds
    <3>3. CASE \E v \in Workers : Work(v) \/ WorkerCrash(v)
      <4>1. Work(w) \/ WorkerCrash(w)
        BY <3>3 DEF OneWorker
      <4> QED BY <3>1, <4>1, RunHeeds, BootHeeds DEF Work
    <3> QED BY <3>2, <3>3, Actors DEF Base
  <2> QED BY <2>1, <2>2 DEF Life
<1> QED BY <1>1, <1>2, BaseAlways, PTL DEF Spec

(* A settled row that nobody cancelled stays settled: no late UPDATE of a   *)
(* run, of reconciliation or of a request makes it active again.            *)
THEOREM OnlyCancelledReviveAlways ==
  ASSUME OneWorker, "redis_error" \notin Env
  PROVE  Spec => OnlyCancelledRevive
<1> DEFINE Step == \A j \in Jobs :
                      rows[j].status \in Terminal /\ ~rows[j].cancel => rows'[j].status \in Terminal
<1>1. ASSUME Base, Life, [Next]_vars PROVE Step
  <2> SUFFICES ASSUME NEW j \in Jobs, rows[j].status \in Terminal, ~rows[j].cancel
               PROVE  rows'[j].status \in Terminal
    OBVIOUS
  <2>1. rows[j] \in Row /\ ~Ours(j)
    BY <1>1 DEF Base, Shape, TypeOK, TableTypes, Ours, Active, Terminal
  <2>2. Kept(j) \/ Inserted(j) => rows'[j].status \in Terminal
    BY DEF Kept, Inserted, Terminal
  <2>3. \A s \in {"close", "flag", "abandon"} : Applied(rows[j], s).status \in Terminal
    BY <2>1 DEF Applied, Row, Terminal
  <2>4. ASSUME NEW w \in Workers, wjob[w] = j, MarkRetrying(w) \/ UpdateByRun(w) PROVE FALSE
    <3>1. Heeds(w)
      BY <1>1 DEF Life
    <3> QED BY <2>1, <2>4, <3>1 DEF MarkRetrying, UpdateByRun, At, Heeds, MidRun, RunPC
  <2>5. CASE UNCHANGED workerVars
    BY <1>1, <2>2, <2>3, <2>5, OtherRows DEF Life
  <2>6. CASE UNCHANGED clientVars
    BY <1>1, <2>2, <2>3, <2>4, <2>6, WorkerRows
  <2> QED BY <1>1, <2>5, <2>6, Actors DEF Base
<1>2. Base /\ Life /\ [Next]_vars => [Step]_vars
  BY <1>1
<1> QED BY <1>2, LifeAlways, PTL DEF Spec, OnlyCancelledRevive

(* A report is published only for an active job, or for one whose cancel    *)
(* raced the publication: no retry or replay writes for a settled job.      *)
THEOREM NoReportAfterSettlingAlways ==
  ASSUME OneWorker, "redis_error" \notin Env
  PROVE  Spec => NoReportAfterSettling
<1> DEFINE Step == \A j \in Jobs : reports'[j] # reports[j] => rows[j].status \in Active \/ rows[j].cancel
<1>1. ASSUME Base, Life, [Next]_vars PROVE Step
  <2> SUFFICES ASSUME NEW j \in Jobs, reports'[j] # reports[j] PROVE Ours(j)
    BY DEF Ours
  <2>1. PICK w \in Workers : Persist(w) /\ wjob[w] = j
    BY <1>1, ReportsGrow DEF Base
  <2> QED BY <1>1, <2>1 DEF Life, Heeds, Persist, At, MidRun, RunPC
<1>2. Base /\ Life /\ [Next]_vars => [Step]_vars
  BY <1>1
<1> QED BY <1>2, LifeAlways, PTL DEF Spec, NoReportAfterSettling

-----------------------------------------------------------------------------
(* The documented life cycle.                                               *)

(* What a client sees of the rows does not change. *)
LEMMA Unseen ==
  ASSUME UNCHANGED reports, \A j \in Jobs : rows'[j].status = rows[j].status /\ rows'[j].cancel = rows[j].cancel
  PROVE  UNCHANGED Documented!vars
  BY DEF Documented!vars

(* update_job's UPDATE sets the status and nothing else a client sees. *)
LEMMA Becomes ==
  ASSUME rows \in [Jobs -> Row], NEW j \in Jobs, NEW s \in RunStatements, UNCHANGED reports,
         rows' = [rows EXCEPT ![j] = Applied(@, s)]
  PROVE  Documented!Become(j, s)
<1>1. rows'[j].status = s /\ rows'[j].cancel = rows[j].cancel
  BY DEF RunStatements, Applied, Row
<1>2. \A i \in Jobs \ {j} : rows'[i] = rows[i]
  OBVIOUS
<1> QED BY <1>1, <1>2 DEF Documented!Become

(* A statement of a run is one of its moves in the life cycle. *)
LEMMA RunDocuments ==
  ASSUME Base, Life, NEW w \in Workers, UpdateByRun(w)
  PROVE  [Documented!Next]_(Documented!vars)
<1> USE DEF Base, Shape, TypeOK
<1>1. PICK j \in Jobs, s \in RunStatements : j = wjob[w] /\ s = wset[w]
  BY DEF UpdateByRun, At, Holding, RunPC, WorkerPending
<1>2. UNCHANGED reports /\ (rows' = rows \/ rows' = [rows EXCEPT ![j] = Applied(@, s)])
  BY <1>1 DEF UpdateByRun
<1>3. CASE rows' = rows
  BY <1>2, <1>3, Unseen
<1>4. CASE rows' = [rows EXCEPT ![j] = Applied(@, s)]
  <2>1. Documented!Become(j, s)
    BY <1>2, <1>4, Becomes DEF TableTypes
  <2>2. Documented!Ours(j)
    BY <1>1 DEF Life, Heeds, UpdateByRun, At, MidRun, RunPC, Ours, Active, Documented!Ours, Documented!Active
  <2>3. s \in {"waiting_retry", "done"} => rows[j].status # "queued"
    BY <1>1 DEF Life, Heeds, Begun
  <2>4. s = "done" => reports[j] = Segments
    BY <1>1 DEF Published
  <2>5. s = "cancelled" => rows[j].cancel
    BY <1>1 DEF Requested
  <2>6. \/ Documented!Start(j) \/ Documented!Wait(j) \/ Documented!Fail(j)
        \/ Documented!Complete(j) \/ Documented!Close(j)
    BY <2>1, <2>2, <2>3, <2>4, <2>5 DEF RunStatements, Segments, Documented!Start, Documented!Wait, Documented!Fail,
       Documented!Complete, Documented!Close, Documented!Segments
  <2> QED BY <2>6 DEF Documented!Next
<1> QED BY <1>2, <1>3, <1>4

(* A publication adds the next report of the sequence, or rewrites one. *)
LEMMA PersistDocuments ==
  ASSUME Base, Life, NEW w \in Workers, Persist(w)
  PROVE  [Documented!Next]_(Documented!vars)
<1> USE DEF Base, Shape, TypeOK
<1>1. PICK j \in Jobs : j = wjob[w]
  BY DEF Persist, At, Holding, RunPC
<1>2. reports' = [reports EXCEPT ![j] = @ \cup {wseg[w]}] /\ reports \in [Jobs -> SUBSET Segments]
  BY <1>1 DEF Persist, TableTypes
<1>3. \A i \in Jobs : rows'[i].status = rows[i].status /\ rows'[i].cancel = rows[i].cancel
  BY <1>1 DEF Persist, TableTypes, Touched, Row
<1>4. wseg[w] \in Segments /\ 1..(wseg[w] - 1) \subseteq reports[j] /\ Begun(j)
  BY <1>1 DEF Persist, At, InLoop, Published, RunPC, Life, Heeds, PastStart
<1>5. CASE wseg[w] \in reports[j]
  <2>1. reports' = reports
    BY <1>2, <1>5
  <2> QED BY <1>3, <2>1, Unseen
<1>6. CASE wseg[w] \notin reports[j]
  <2>1. Documented!Publish(j)
    BY <1>2, <1>3, <1>4, <1>6 DEF Documented!Publish, Documented!Segments, Segments, Begun
  <2> QED BY <2>1 DEF Documented!Next
<1> QED BY <1>5, <1>6

(* Start-up reconciliation waits for a retry, or abandons the jobs it lost. *)
LEMMA BootDocuments ==
  ASSUME Base, Life, NEW w \in Workers, MarkRetrying(w) \/ MarkAbandoned(w)
  PROVE  [Documented!Next]_(Documented!vars)
<1> USE DEF Base, Shape, TypeOK
<1>1. rows \in [Jobs -> Row] /\ UNCHANGED reports
  BY DEF TableTypes, MarkRetrying, MarkAbandoned
<1>2. CASE MarkRetrying(w)
  <2>1. PICK j \in Jobs : j = wjob[w]
    BY <1>2 DEF MarkRetrying, At, Holding
  <2>2. Documented!Ours(j) /\ rows[j].status # "queued"
    BY <1>2, <2>1 DEF Life, Heeds, MarkRetrying, At, Ours, Begun, Active, Documented!Ours, Documented!Active
  <2>3. CASE rows' = [rows EXCEPT ![j] = Applied(@, "waiting_retry")]
    <3>1. Documented!Become(j, "waiting_retry")
      BY <1>1, <2>3, Becomes DEF RunStatements
    <3> QED BY <2>2, <3>1 DEF Documented!Wait, Documented!Next
  <2>4. CASE rows' = rows
    BY <1>1, <2>4, Unseen
  <2> QED BY <1>2, <2>1, <2>3, <2>4 DEF MarkRetrying
<1>3. CASE MarkAbandoned(w)
  <2>1. PICK jobs \in SUBSET Jobs : jobs = lost[w]
    BY DEF BootTypes
  <2>2. \A j \in jobs : rows[j].status # "absent"
    BY <2>1 DEF Existing
  <2>3. \A j \in Jobs : Applied(rows[j], "abandon").status = "error" /\ Applied(rows[j], "abandon").cancel = TRUE
    BY <1>1 DEF Applied, Row
  <2>4. \A j \in Jobs : rows'[j] = IF j \in jobs THEN Applied(rows[j], "abandon") ELSE rows[j]
    BY <1>3, <2>1 DEF MarkAbandoned
  <2>5. \A j \in Jobs : rows[j].cancel \in BOOLEAN
    BY <1>1 DEF Row
  <2>6. Documented!Abandon(jobs)
    BY <1>1, <2>2, <2>3, <2>4, <2>5 DEF Documented!Abandon
  <2> QED BY <2>6 DEF Documented!Next
<1> QED BY <1>2, <1>3

(* A request opens a job, asks for its cancel, or abandons an orphan. *)
LEMMA ClientDocuments ==
  ASSUME Base, Life, NEW c \in Clients, \/ Enqueue(c) \/ UpdateByClient(c)
                                        \/ \E k \in Keys : Create(c, k) \/ Supersede(c, k) \/ CreateDirect(c, k)
  PROVE  [Documented!Next]_(Documented!vars)
<1> USE DEF Base, Shape, TypeOK
<1>1. rows \in [Jobs -> Row] /\ UNCHANGED reports
  BY DEF TableTypes, Enqueue, UpdateByClient, Create, CreateDirect, Supersede
<1>2. CASE Enqueue(c)
  <2>1. \A i \in Jobs : rows'[i].status = rows[i].status /\ rows'[i].cancel = rows[i].cancel
    BY <1>1, <1>2 DEF Enqueue, Touched, Row
  <2> QED BY <1>1, <2>1, Unseen
<1>3. CASE UpdateByClient(c)
  <2>1. PICK j \in Jobs : j = cjob[c]
    BY <1>3 DEF UpdateByClient, Holding
  <2>2. rows[j].status # "absent" /\ cset[c] \in {"close", "flag", "abandon"}
        /\ rows' = [rows EXCEPT ![j] = Applied(@, cset[c])]
    BY <1>3, <2>1 DEF UpdateByClient, ClientPending, Life, Silent, Existing
  <2>3. rows'[j].cancel = TRUE /\ (\A i \in Jobs \ {j} : rows'[i] = rows[i])
        /\ rows'[j].status = IF cset[c] = "flag" THEN rows[j].status
                             ELSE IF cset[c] = "close" THEN "cancelled" ELSE "error"
    BY <1>1, <2>2 DEF Applied, Row
  <2>4. CASE cset[c] = "abandon"
    <3>1. \A i \in Jobs : rows[i].cancel \in BOOLEAN
      BY <1>1 DEF Row
    <3>2. Documented!Abandon({j})
      BY <1>1, <2>2, <2>3, <2>4, <3>1 DEF Documented!Abandon
    <3> QED BY <3>2 DEF Documented!Next
  <2>5. CASE cset[c] # "abandon"
    <3>1. Documented!RequestCancel(j)
      BY <1>1, <2>2, <2>3, <2>5 DEF Documented!RequestCancel
    <3> QED BY <3>1 DEF Documented!Next
  <2> QED BY <2>4, <2>5
<1>4. ASSUME NEW k \in Keys, Create(c, k) \/ CreateDirect(c, k) \/ Supersede(c, k) PROVE Documented!Next
  <2>1. PICK j \in Jobs :
           /\ KeyOf[j] = k /\ rows[j].status = "absent"
           /\ \A i \in Jobs : rows'[i] = IF i = j THEN NewRow
                                         ELSE IF i \in Indexed(rows, k) THEN Applied(rows[i], "close")
                                         ELSE rows[i]
    <3>1. CASE Create(c, k) \/ CreateDirect(c, k)
      <4>1. Indexed(rows, k) = {}
        BY <3>1 DEF Create, CreateDirect
      <4> QED BY <1>1, <3>1, <4>1, DirectAssumption DEF Create, CreateDirect
    <3>2. CASE Supersede(c, k)
      BY <1>1, <3>2 DEF Supersede
    <3> QED BY <1>4, <3>1, <3>2
  <2>2. Documented!Holders(KeyOf[j]) = Indexed(rows, k)
    BY <2>1 DEF Documented!Holders, Documented!Active, Indexed, Holds, Active
  <2>3. j \notin Indexed(rows, k) /\ ~rows[j].cancel
    BY <2>1 DEF Indexed, Holds, Active, Existing
  <2>4. \A i \in Jobs : /\ rows'[i].status = IF i = j THEN "queued"
                                             ELSE IF i \in Indexed(rows, k) THEN "cancelled" ELSE rows[i].status
                        /\ rows'[i].cancel = (rows[i].cancel \/ i \in Indexed(rows, k))
    <3> TAKE i \in Jobs
    <3>1. rows[i] \in Row
      BY <1>1
    <3>2. CASE i = j
      <4>1. rows'[j].status = "queued" /\ rows'[j].cancel = FALSE
        BY <2>1 DEF NewRow
      <4>2. rows[j].cancel = FALSE /\ j \notin Indexed(rows, k)
        BY <1>1, <2>3 DEF Row
      <4> QED BY <3>2, <4>1, <4>2
    <3>3. CASE i # j /\ i \in Indexed(rows, k)
      BY <2>1, <3>1, <3>3 DEF Applied, Row
    <3>4. CASE i # j /\ i \notin Indexed(rows, k)
      BY <2>1, <3>1, <3>4 DEF Row
    <3> QED BY <3>2, <3>3, <3>4
  <2>5. Documented!Open(j)
    BY <1>1, <2>1, <2>2, <2>4 DEF Documented!Open
  <2> QED BY <2>5 DEF Documented!Next
<1> QED BY <1>2, <1>3, <1>4

(* Every step of requests, queue and workers is one of the life cycle. *)
LEMMA NextDocuments ==
  ASSUME Base, Life, [Next]_vars
  PROVE  [Documented!Next]_(Documented!vars)
<1> USE DEF Base, Shape, TypeOK
<1>1. ASSUME NEW w \in Workers, Persist(w) PROVE [Documented!Next]_(Documented!vars)
  BY <1>1, PersistDocuments
<1>2. ASSUME \A w \in Workers : ~Persist(w) PROVE UNCHANGED reports
  <2>1. \A j \in Jobs : reports'[j] = reports[j]
    BY <1>2, ReportsGrow
  <2>2. reports \in [Jobs -> SUBSET Segments] /\ reports' \in [Jobs -> SUBSET Segments]
    BY NextShape DEF TableTypes
  <2> QED BY <2>1, <2>2
<1>3. CASE UNCHANGED rows
  BY <1>1, <1>2, <1>3, Unseen
<1>4. ASSUME NEW i \in Jobs, GoStale(i) PROVE [Documented!Next]_(Documented!vars)
  <2>1. \A j \in Jobs : rows'[j].status = rows[j].status /\ rows'[j].cancel = rows[j].cancel
    BY <1>4 DEF GoStale, TableTypes, Row
  <2> QED BY <1>4, <2>1, Unseen DEF GoStale
<1> QED BY <1>1, <1>3, <1>4, RunDocuments, BootDocuments, ClientDocuments, RowWriters DEF vars, dbVars

(* With one worker, and Redis answering, the table, the queue, the requests *)
(* and the runs together implement the life cycle that the API documents.   *)
THEOREM ImplementsLifecycleAlways ==
  ASSUME OneWorker, "redis_error" \notin Env
  PROVE  Spec => ImplementsLifecycle
<1>1. Init => Documented!Init
  BY DEF Init, NoRow, Documented!Init
<1>2. Base /\ Life /\ [Next]_vars => [Documented!Next]_(Documented!vars)
  BY NextDocuments
<1> QED BY <1>1, <1>2, LifeAlways, PTL DEF Spec, ImplementsLifecycle, Documented!Spec

-----------------------------------------------------------------------------
(* The owner of a row that left the queue.                                  *)

Queued(j)   == rq[j].pushes > 0 \/ rq[j].delayed
Started(j)  == rows[j].status \in {"running", "waiting_retry"}
Loadable(j) == rq[j].pushes > 0 => rq[j].hash # "none"

(* Nobody takes a task out of the queue. *)
Uncancelled == \A c \in Clients : cpc[c] \notin {"unqueue", "mark"}

(* What the worker is at accounts for every row that left the queue:        *)
(* consuming, all but its own are queued; reconciling, it has them on its   *)
(* list or they are queued; and it leaves its own settled, or scheduled.    *)
Backs(w) ==
    /\ wpc[w] \notin BootPC =>
          \A j \in Jobs : Started(j) => Queued(j) \/ (wpc[w] \in RunPC /\ wjob[w] = j)
    /\ seen[w].started = {}
    /\ wpc[w] \in {"registries", "rows"} => \A j \in seen[w].waiting : Queued(j)
    /\ wpc[w] \in {"retrying", "requeued"} => \A j \in back[w] : Queued(j)
    /\ wpc[w] = "requeued" => Queued(wjob[w])
    /\ wpc[w] \in {"retrying", "requeued", "abandon"} =>
          \A j \in Jobs : Started(j) => j \in lost[w] \/ Queued(j)
    /\ wpc[w] \in {"finish", "emit"} => ~Started(wjob[w])
    /\ wpc[w] = "raise" /\ wleft[w] = 0 => ~Started(wjob[w])
    /\ wthen[w] \in {"finish", "emit"} => wset[w] \in {"error", "cancelled", "done"}
    /\ wthen[w] = "raise" => wset[w] = "error" \/ (wset[w] = "waiting_retry" /\ wleft[w] > 0)

Backed == Uncancelled /\ (\A j \in Jobs : Loadable(j)) /\ \A w \in Workers : Backs(w)

Calm == Env \cap {"cancel", "redis_error", "db_error"} = {}

(* Without a cancel no request touches a task that is queued. *)
LEMMA NextUncancelled ==
  ASSUME Shape, Uncancelled, Calm, [Next]_vars
  PROVE  Uncancelled'
<1> USE DEF Shape, TypeOK
<1> SUFFICES ASSUME NEW c \in Clients PROVE cpc'[c] \notin {"unqueue", "mark"}
  BY DEF Uncancelled
<1>1. CASE ClientStays(c)
  BY <1>1 DEF ClientStays, Uncancelled
<1>2. ASSUME NEW pc \in {"probe", "enqueue", "enqueue_failed", "push", "lookup", "orphan"},
             NEW j, NEW new, Ask(c, pc, j, new)
      PROVE  cpc'[c] \notin {"unqueue", "mark"}
  BY <1>2 DEF Ask, ClientTypes
<1>3. Done(c) => cpc'[c] \notin {"unqueue", "mark"}
  BY DEF Done, Ask, ClientTypes
<1>4. ASSUME NEW s, Select(c, s) PROVE cpc'[c] \notin {"unqueue", "mark"}
  BY <1>3, <1>4 DEF Select, ClientTypes
<1>5. CASE Request(c)
  <2>1. ASSUME NEW k \in Keys, Conflict(c, k) PROVE UNCHANGED cpc
    BY <2>1 DEF Conflict, clientVars
  <2>2. \A j \in Jobs : ~Cancel(c, j)
    BY DEF Cancel, Calm
  <2> QED BY <1>2, <1>3, <1>5, <2>1, <2>2 DEF Request, Attach, Create, CreateDirect, Supersede, LookUp, Uncancelled
<1>6. ~Unqueue(c)
  BY DEF Unqueue, Uncancelled
<1>7. CASE Probe(c) \/ Enqueue(c) \/ EnqueueFails(c) \/ Push(c) \/ ProbeOrphan(c) \/ UpdateByClient(c)
           \/ ClientCrash(c)
  <2>1. ASSUME NEW pc \in {"enqueue", "enqueue_failed", "orphan"}, NEW new, Ask(c, pc, cjob[c], new)
        PROVE  cpc'[c] \notin {"unqueue", "mark"}
    BY <2>1 DEF Ask, ClientTypes
  <2> QED BY <1>3, <1>7, <2>1 DEF Probe, Enqueue, EnqueueFails, Push, ProbeOrphan, UpdateByClient, ClientCrash
<1>8. CASE MarkCancel(c) \/ AbandonOrphan(c) \/ RecordEnqueueFailure(c)
  BY <1>4, <1>8 DEF MarkCancel, AbandonOrphan, RecordEnqueueFailure
<1> QED BY <1>1, <1>5, <1>6, <1>7, <1>8, Stays DEF Process, ClientStep

(* A task in the list or in the registry stays until the worker takes it,   *)
(* and has its hash.                                                        *)
LEMMA NextQueued ==
  ASSUME Shape, Uncancelled, [Next]_vars, NEW j \in Jobs, Loadable(j)
  PROVE  /\ Loadable(j)'
         /\ Queued(j) => Queued(j)' \/ \E w \in Workers : Enters(w, j)
<1> USE DEF Shape, TypeOK
<1>1. rq[j] \in Task /\ rq[j].pushes \in Nat /\ rq \in [Jobs -> Task]
  BY BoundAssumption DEF QueueTypes, Task
<1>2. ASSUME rq'[j] = rq[j] PROVE Loadable(j)' /\ (Queued(j) => Queued(j)')
  BY <1>2 DEF Loadable, Queued
<1>3. ASSUME NEW c \in Clients, QueueClient(c), cjob[c] = j PROVE Loadable(j)' /\ (Queued(j) => Queued(j)')
  <2>1. rq'[j] = rq[j] \/ rq'[j] = Pushed(rq[j])
    BY <1>1, <1>3 DEF QueueClient, Enqueue, EnqueueFails, Push, Unqueue, Uncancelled
  <2> QED BY <1>1, <1>2, <2>1 DEF Pushed, Loadable, Queued
<1>4. ASSUME NEW w \in Workers, Dequeue(w, j) PROVE Enters(w, j) /\ Loadable(j)'
  <2>1. rq[j].hash # "none"
    BY <1>4 DEF Dequeue, Loadable
  <2> QED BY <1>1, <1>4, <2>1 DEF Dequeue, At, Go, WorkerTypes, Taken, Enters, Loadable
<1>5. ASSUME NEW w \in Workers, QueueWorker(w), wjob[w] = j PROVE Loadable(j)' /\ (Queued(j) => Queued(j)')
  <2>1. \/ rq'[j] = rq[j] \/ rq'[j] = [rq[j] EXCEPT !.hash = "finished"]
        \/ \E n : rq'[j] = Saved(rq[j], n) \/ rq'[j] = Retried(rq[j], n)
    BY <1>1, <1>5 DEF QueueWorker, PrepareRetry, Finish, Raise
  <2>2. ASSUME NEW n, rq'[j] = Saved(rq[j], n) \/ rq'[j] = Retried(rq[j], n)
        PROVE  Loadable(j)' /\ (Queued(j) => Queued(j)')
    BY <1>1, <2>2 DEF Saved, Retried, Loadable, Queued, Task
  <2>3. CASE rq'[j] = [rq[j] EXCEPT !.hash = "finished"]
    BY <1>1, <2>3 DEF Loadable, Queued, Task
  <2> QED BY <1>2, <2>1, <2>2, <2>3
<1>6. RetryDue(j) => Loadable(j)' /\ Queued(j)'
  BY <1>1 DEF RetryDue, Due, Loadable, Queued
<1>7. CleanRegistry(j) => Loadable(j)' /\ (Queued(j) => Queued(j)')
  BY <1>1 DEF CleanRegistry, Retried, Loadable, Queued
<1> QED BY <1>2, <1>3, <1>4, <1>5, <1>6, <1>7, QueueSteps

(* The unique index never refuses the UPDATE of a run: the row it makes     *)
(* active was active, or is flagged.                                        *)
LEMMA NotRefused ==
  ASSUME rows \in [Jobs -> Row], Unique(rows), NEW j \in Jobs, Ours(j), NEW s \in RunStatements
  PROVE  Unique([rows EXCEPT ![j] = Applied(@, s)])
<1>1. Holds(Applied(rows[j], s)) => Holds(rows[j])
  BY DEF RunStatements, Applied, Row, Holds, Ours
<1> DEFINE table == [rows EXCEPT ![j] = Applied(@, s)]
<1>2. \A i \in Jobs : Holds(table[i]) => Holds(rows[i])
  BY <1>1
<1> HIDE DEF table
<1>3. Unique(table)
  BY <1>2 DEF Unique
<1> QED BY <1>3 DEF table

(* Requests and RQ leave the account of the worker alone. *)
LEMMA OthersBack ==
  ASSUME Base, Life, Backed, [Next]_vars, UNCHANGED workerVars, NEW w \in Workers
  PROVE  Backs(w)'
<1> USE DEF Base, Shape, TypeOK
<1>1. /\ wpc'[w] = wpc[w] /\ wjob'[w] = wjob[w] /\ wset'[w] = wset[w] /\ wthen'[w] = wthen[w]
      /\ wleft'[w] = wleft[w] /\ seen'[w] = seen[w] /\ lost'[w] = lost[w] /\ back'[w] = back[w]
  BY DEF workerVars, taskVars, sqlVars, bootVars
<1>2. ASSUME NEW j \in Jobs PROVE Started(j)' => Started(j)
  <2>1. rows[j] \in Row
    BY DEF TableTypes
  <2>2. Kept(j) \/ Inserted(j) => (Started(j)' => Started(j))
    BY DEF Kept, Inserted, NewRow, Started
  <2>3. ASSUME NEW s \in {"close", "flag", "abandon"}, rows'[j] = Applied(rows[j], s)
        PROVE  Started(j)' => Started(j)
    BY <2>1, <2>3 DEF Applied, Row, Started
  <2> QED BY <2>2, <2>3, OtherRows DEF Life
<1>3. ASSUME NEW j \in Jobs, Queued(j) PROVE Queued(j)'
  <2>1. \A v \in Workers : ~Enters(v, j)
    BY DEF Enters, workerVars
  <2> QED BY <1>3, <2>1, NextQueued DEF Backed
<1>4. /\ wpc[w] \in RunPC \cup {"requeued"} => wjob[w] \in Jobs
      /\ seen[w].waiting \subseteq Jobs /\ back[w] \subseteq Jobs
  BY DEF Holding, BootTypes
<1>5. wjob[w] \in Jobs => /\ Started(wjob[w])' => Started(wjob[w])
                          /\ Queued(wjob[w]) => Queued(wjob[w])'
  <2> SUFFICES ASSUME NEW i \in Jobs, i = wjob[w]
               PROVE  (Started(wjob[w])' => Started(i)) /\ (Queued(i) => Queued(wjob[w])')
    OBVIOUS
  <2> QED BY <1>1, <1>2, <1>3 DEF Started, Queued
<1>6. Backs(w)
  BY DEF Backed
<1>7. {"finish", "emit", "raise"} \subseteq RunPC
  BY DEF RunPC
<1> HIDE DEF Base, Shape, TypeOK
<1> QED BY <1>1, <1>2, <1>3, <1>4, <1>5, <1>6, <1>7 DEF Backs

(* A run leaves its row settled, or its task scheduled. *)
LEMMA RunBacks ==
  ASSUME Base, Life, Backed, Calm, OneWorker, NEW w \in Workers, RunStep(w), [Next]_vars
  PROVE  Backs(w)'
<1> USE DEF Base, Shape, TypeOK
<1>1. PICK j \in Jobs : j = wjob[w]
  BY RunningAt
<1>2. wpc[w] \in RunPC /\ wpc[w] \notin BootPC /\ rows[j] \in Row /\ rows[j].status # "absent"
      /\ rq[j] \in Task /\ Backs(w)
  BY <1>1, RunningAt DEF TableTypes, QueueTypes, Present, Backed, RunPC, BootPC
<1>3. seen'[w].started = {}
  <2>1. UNCHANGED seen
    BY Zenon DEF RunStep, Guard, Begin, NoKeys, Setup, Fetch, FetchBlocked, Snapshot, Segment, Run, Render, Persist,
       MarkDone, EmitDone, Abort, Refuse, RunRaises, Fail, PrepareRetry, UpdateByRun, Finish, Raise,
       NoWrite, RunFrame, bootVars
  <2> QED BY <1>2, <2>1 DEF Backs
<1>4. ASSUME NEW i \in Jobs \ {j}, Started(i)' PROVE Queued(i)'
  <2>1. rows'[i] = rows[i]
    <3>1. CASE Persist(w) \/ UpdateByRun(w)
      BY <1>1, <3>1 DEF Persist, UpdateByRun, TableTypes
    <3>2. CASE ~Persist(w) /\ ~UpdateByRun(w)
      BY <3>2, Zenon DEF RunStep, Guard, Begin, NoKeys, Setup, Fetch, FetchBlocked, Snapshot, Segment, Run, Render,
         MarkDone, EmitDone, Abort, Refuse, RunRaises, Fail, PrepareRetry, Finish, Raise,
         NoWrite, RunFrame, dbVars
    <3> QED BY <3>1, <3>2
  <2>2. Queued(i)
    BY <1>1, <1>2, <1>4, <2>1 DEF Backs, Started
  <2>3. \A v \in Workers : ~Enters(v, i)
    BY <1>2 DEF Enters, OneWorker, RunPC
  <2> QED BY <2>2, <2>3, NextQueued DEF Backed
<1>5. ASSUME NEW pc \in RunPC, wpc'[w] = pc, wjob'[w] = j, pc \in {"finish", "emit"} => ~Started(j)',
             pc = "raise" /\ wleft'[w] = 0 => ~Started(j)',
             wthen'[w] \in {"finish", "emit"} => wset'[w] \in {"error", "cancelled", "done"},
             wthen'[w] = "raise" => wset'[w] = "error" \/ (wset'[w] = "waiting_retry" /\ wleft'[w] > 0)
      PROVE  Backs(w)'
  <2>1. pc \notin BootPC
    BY DEF RunPC, BootPC
  <2>2. \A i \in Jobs : Started(i)' => Queued(i)' \/ (wpc'[w] \in RunPC /\ wjob'[w] = i)
    BY <1>4, <1>5
  <2> HIDE DEF Base, Shape, TypeOK
  <2> QED BY <1>3, <1>5, <2>1, <2>2 DEF Backs, BootPC, Started, Queued
<1>6. ASSUME wpc'[w] = "idle", wthen'[w] = "idle", Started(j)' => Queued(j)' PROVE Backs(w)'
  <2>1. \A i \in Jobs : Started(i)' => Queued(i)'
    BY <1>4, <1>6
  <2> HIDE DEF Base, Shape, TypeOK
  <2> QED BY <1>3, <1>6, <2>1 DEF Backs, BootPC, Started, Queued
<1>7. ASSUME NEW pc \in RunPC, Go(w, pc), wpc[w] # "update", UNCHANGED <<rows, wjob, sqlVars>>,
             pc \in {"finish", "emit", "raise"} => ~Started(j)
      PROVE  Backs(w)'
  <2>1. wpc'[w] = pc /\ wjob'[w] = j /\ wthen'[w] = "idle" /\ (Started(j)' = Started(j))
    BY <1>1, <1>7 DEF Go, WorkerTypes, WorkerPending, sqlVars, Started
  <2> QED BY <1>5, <1>7, <2>1
<1>8. ASSUME NEW s \in RunStatements, NEW next \in AfterUpdate, UpdateTo(w, s, next), UNCHANGED <<rows, wjob>>,
             wpc[w] # "update",
             next \in {"finish", "emit"} => s \in {"error", "cancelled", "done"},
             next = "raise" => s = "error" \/ (s = "waiting_retry" /\ wleft'[w] > 0)
      PROVE  Backs(w)'
  <2>1. CASE UpdateChoice(rows[j], s) = "skip"
    <3>1. ~Started(j)
      BY <1>2, <2>1, Choices DEF Started, Terminal
    <3> QED BY <1>1, <1>7, <1>8, <2>1, <3>1 DEF UpdateTo, MyRow, AfterUpdate, RunPC
  <2>2. CASE UpdateChoice(rows[j], s) # "skip"
    <3>1. wpc'[w] = "update" /\ wset'[w] = UpdateChoice(rows[j], s) /\ wthen'[w] = next /\ wjob'[w] = j
      BY <1>1, <1>8, <2>2 DEF UpdateTo, MyRow, Go, WorkerTypes
    <3>2. UpdateChoice(rows[j], s) = s \/ (s = "done" /\ UpdateChoice(rows[j], s) = "cancelled")
      BY <1>2, <2>2, Choices
    <3> QED BY <1>5, <1>8, <3>1, <3>2 DEF RunPC
  <2> QED BY <2>1, <2>2
<1>9. CASE Guard(w)
  <2>1. rows[j].status \in Terminal => ~Started(j)
    BY DEF Started, Terminal
  <2> QED BY <1>1, <1>7, <1>9, <2>1 DEF Guard, NoWrite, dbVars, taskVars, MyRow, At, RunPC
<1>10. CASE Begin(w) \/ Fail(w) \/ Abort(w) \/ NoKeys(w) \/ FetchBlocked(w) \/ Snapshot(w) \/ MarkDone(w)
  BY <1>8, <1>10 DEF Begin, Fail, Abort, NoKeys, FetchBlocked, Snapshot, MarkDone, RunFrame, dbVars, taskVars, At,
     RunStatements, AfterUpdate
<1>11. CASE Setup(w) \/ Fetch(w) \/ Segment(w) \/ Render(w)
  BY <1>7, <1>11 DEF Setup, Fetch, Segment, Render, Checkpoint, NoWrite, dbVars, taskVars, At, RunPC
<1>12. CASE Run(w)
  <2>1. CASE MyRow(w).cancel
    BY <1>7, <1>12, <2>1 DEF Run, RunFrame, dbVars, taskVars, At, RunPC
  <2>2. CASE ~MyRow(w).cancel
    BY <1>8, <1>12, <2>2 DEF Run, RunFrame, dbVars, taskVars, At, RunStatements, AfterUpdate
  <2> QED BY <2>1, <2>2
<1>13. CASE Refuse(w) \/ RunRaises(w)
  <2>1. CASE At(w, "refuse") /\ UpdateTo(w, "error", "finish") /\ RunFrame
    BY <1>8, <2>1 DEF At, RunFrame, dbVars, taskVars, RunStatements, AfterUpdate
  <2>2. ASSUME NEW pc \in {"refuse", "fail", "retry"}, Go(w, pc), NoWrite, wpc[w] # "update"
        PROVE  Backs(w)'
    BY <1>7, <2>2 DEF NoWrite, dbVars, taskVars, RunPC
  <2> QED BY <1>13, <2>1, <2>2 DEF Refuse, RunRaises, At, Calm
<1>14. CASE PrepareRetry(w)
  <2>1. wleft[w] \in Nat
    BY DEF WorkerTypes
  <2>2. \E s \in {"waiting_retry", "error"} : UpdateTo(w, s, "raise") /\ (s = "waiting_retry" => wleft'[w] > 0)
    BY <1>14, <2>1 DEF PrepareRetry, WorkerTypes, Calm
  <2>3. UNCHANGED <<rows, wjob>> /\ wpc[w] = "retry"
    BY <1>14 DEF PrepareRetry, dbVars, At
  <2> QED BY <1>8, <2>2, <2>3 DEF RunStatements, AfterUpdate
<1>15. CASE Persist(w)
  <2>1. wpc'[w] = "segment" /\ wthen'[w] = "idle" /\ wjob'[w] = j
    BY <1>1, <1>15 DEF Persist, At, Go, sqlVars, WorkerTypes, WorkerPending
  <2> QED BY <1>5, <2>1 DEF RunPC
<1>16. CASE UpdateByRun(w)
  <2>1. PICK s \in RunStatements : s = wset[w]
    BY <1>16 DEF UpdateByRun, At, WorkerPending
  <2>2. wthen[w] \in AfterUpdate /\ Ours(j)
    BY <1>1, <1>16 DEF UpdateByRun, At, WorkerPending, Life, Heeds, MidRun, RunPC
  <2>3. Unique([rows EXCEPT ![j] = Applied(@, s)])
    BY <2>2, NotRefused DEF TableTypes
  <2>4. rows' = [rows EXCEPT ![j] = Applied(@, s)] /\ Go(w, wthen[w])
    BY <1>1, <1>16, <2>1, <2>3 DEF UpdateByRun, Calm
  <2>5. wpc'[w] = wthen[w] /\ wjob'[w] = j /\ wleft'[w] = wleft[w] /\ wthen'[w] = "idle"
    BY <1>1, <1>16, <2>4 DEF UpdateByRun, Go, taskVars, WorkerTypes
  <2>6. s \in {"error", "cancelled", "done"} => ~Started(j)'
    BY <1>2, <2>4 DEF TableTypes, Applied, Row, Started
  <2>7. /\ wthen[w] \in {"finish", "emit"} => ~Started(j)'
        /\ wthen[w] = "raise" /\ wleft[w] = 0 => ~Started(j)'
    BY <1>2, <2>1, <2>6 DEF Backs
  <2> QED BY <1>5, <2>2, <2>5, <2>7 DEF AfterUpdate, RunPC
<1>17. CASE EmitDone(w)
  <2>1. ~Started(j) /\ UNCHANGED <<rows, wjob, sqlVars>>
    BY <1>1, <1>2, <1>17 DEF EmitDone, At, Backs, taskVars
  <2> QED BY <1>7, <1>17, <2>1 DEF EmitDone, At, RunPC
<1>18. CASE Finish(w) \/ Raise(w)
  <2>1. wpc'[w] = "idle" /\ wthen'[w] = "idle" /\ (Started(j)' = Started(j))
    BY <1>18 DEF Finish, Raise, Free, At, Go, sqlVars, dbVars, WorkerTypes, WorkerPending, Started
  <2>2. CASE Finish(w)
    BY <1>1, <1>2, <1>6, <2>1, <2>2 DEF Finish, At, Backs
  <2>3. CASE Raise(w) /\ wleft[w] = 0
    BY <1>1, <1>2, <1>6, <2>1, <2>3 DEF Raise, At, Backs
  <2>4. CASE Raise(w) /\ wleft[w] # 0
    <3>1. rq'[j] = Retried(rq[j], wleft[w]) /\ wleft[w] > 0
      BY <1>1, <2>4 DEF Raise, QueueTypes, WorkerTypes
    <3>2. Queued(j)'
      BY <3>1 DEF Retried, Queued
    <3> QED BY <1>6, <2>1, <3>2
  <2> QED BY <1>18, <2>2, <2>3, <2>4
<1> QED BY <1>9, <1>10, <1>11, <1>12, <1>13, <1>14, <1>15, <1>16, <1>17, <1>18 DEF RunStep

(* Start-up reconciliation finds every row that left the queue in RQ, or    *)
(* closes it, and the next task is the worker's.                            *)
LEMMA BootBacks ==
  ASSUME Base, Life, Backed, Calm, OneWorker, NEW w \in Workers, [Next]_vars,
         Boot(w) \/ WorkerCrash(w) \/ \E i \in Jobs : Dequeue(w, i)
  PROVE  Backs(w)'
<1> USE DEF Base, Shape, TypeOK
<1>1. Backs(w) /\ wpc[w] \in BootPC \cup {"idle"} \cup RunPC /\ rows \in [Jobs -> Row]
      /\ seen[w].waiting \subseteq Jobs /\ back[w] \subseteq Jobs /\ lost[w] \subseteq Jobs
      /\ \A i \in Jobs : Loadable(i)
  BY DEF Backed, WorkerTypes, TableTypes, BootTypes
<1>2. CASE WorkerCrash(w)
  <2>1. wpc'[w] = "down" /\ wthen'[w] = "idle" /\ seen'[w].started = {}
    BY <1>2 DEF WorkerCrash, Go, WorkerTypes, BootTypes
  <2> HIDE DEF Base, Shape, TypeOK
  <2> QED BY <2>1 DEF Backs, BootPC
<1>3. ASSUME NEW j \in Jobs, Dequeue(w, j) PROVE Backs(w)'
  <2>1. /\ wpc[w] = "idle" /\ wpc'[w] = "guard" /\ wjob'[w] = j /\ wthen'[w] = "idle" /\ UNCHANGED <<rows, seen>>
        /\ \A i \in Jobs \ {j} : rq'[i] = rq[i]
    BY <1>1, <1>3 DEF Dequeue, Loadable, At, Go, WorkerTypes, WorkerPending, sqlVars, bootVars, dbVars, QueueTypes
  <2>2. \A i \in Jobs : Started(i)' => Queued(i)' \/ wjob'[w] = i
    BY <1>1, <2>1 DEF Backs, BootPC, RunPC, Started, Queued
  <2> HIDE DEF Base, Shape, TypeOK
  <2> QED BY <1>1, <2>1, <2>2 DEF Backs, BootPC, RunPC
<1>4. ASSUME Boot(w)
      PROVE  /\ UNCHANGED <<rq, sqlVars>> /\ wpc[w] \in BootPC /\ wthen'[w] = "idle"
             /\ \A i \in Jobs : Queued(i)' = Queued(i)
  <2>1. UNCHANGED <<rq, sqlVars>> /\ wpc[w] \in BootPC
    BY <1>4 DEF Boot, ReadQueues, ReadRegistries, SkipReconciliation, ReadRows, SelectRetrying, MarkRetrying,
       SelectAbandoned, MarkAbandoned, At, BootPC
  <2>2. wthen'[w] = "idle"
    BY <2>1 DEF sqlVars, WorkerPending, BootPC
  <2> QED BY <2>1, <2>2 DEF Queued
<1>5. CASE ReadQueues(w)
  <2>1. wpc'[w] = "registries" /\ seen'[w].started = {} /\ \A i \in seen'[w].waiting : Queued(i)
    BY <1>5 DEF ReadQueues, At, Go, WorkerTypes, BootTypes, Queued
  <2>2. \A i \in seen'[w].waiting : Queued(i)'
    BY <1>4, <1>5, <2>1 DEF Boot, Queued
  <2>3. wthen'[w] = "idle"
    BY <1>4, <1>5 DEF Boot
  <2> HIDE DEF Base, Shape, TypeOK
  <2> QED BY <2>1, <2>2, <2>3 DEF Backs, BootPC
<1>6. CASE ReadRegistries(w)
  <2>1. wpc[w] = "registries" /\ wpc'[w] = "rows" /\ UNCHANGED rq /\ wthen'[w] = "idle"
    BY <1>4, <1>6 DEF Boot, ReadRegistries, At, Go, WorkerTypes
  <2>2. \A i \in Jobs : ~Live(i)
    BY <2>1 DEF Live, OneWorker, RunPC
  <2>3. seen'[w].started = {} /\ \A i \in seen'[w].waiting : i \in seen[w].waiting \/ rq[i].delayed
    <3>1. seen' = [seen EXCEPT ![w] = [waiting |-> @.waiting \cup {i \in Jobs : rq[i].delayed},
                                       started |-> {i \in Jobs : Live(i)}]]
      BY <1>6 DEF ReadRegistries, Calm
    <3> QED BY <2>2, <3>1 DEF BootTypes
  <2>4. \A i \in seen'[w].waiting : Queued(i)'
    BY <1>1, <2>1, <2>3 DEF Backs, Queued
  <2> HIDE DEF Base, Shape, TypeOK
  <2> QED BY <2>1, <2>3, <2>4 DEF Backs, BootPC
<1>7. ~SkipReconciliation(w)
  BY DEF SkipReconciliation, Calm
<1>8. CASE ReadRows(w)
  <2>1. wpc[w] = "rows" /\ wpc'[w] = "retrying" /\ UNCHANGED <<rows, rq>> /\ wthen'[w] = "idle"
    BY <1>4, <1>8 DEF Boot, ReadRows, At, Go, WorkerTypes, dbVars
  <2>2. /\ seen'[w].started = {}
        /\ lost'[w] = {i \in Jobs : rows[i].status \in Active} \ (seen[w].waiting \cup seen[w].started)
        /\ back'[w] \subseteq seen[w].waiting
    BY <1>8 DEF ReadRows, BootTypes
  <2>3. \A i \in seen[w].waiting : Queued(i)'
    BY <1>1, <2>1 DEF Backs, Queued
  <2>4. \A i \in Jobs : Started(i)' => i \in lost'[w] \/ Queued(i)'
    BY <1>1, <2>1, <2>2, <2>3 DEF Backs, Started, Active
  <2>5. \A i \in back'[w] : Queued(i)'
    BY <2>2, <2>3
  <2> HIDE DEF Base, Shape, TypeOK
  <2> QED BY <2>1, <2>2, <2>4, <2>5 DEF Backs, BootPC
<1>9. ASSUME wpc[w] \in {"retrying", "requeued"}, Boot(w), UNCHANGED seen, back'[w] \subseteq back[w],
             wpc'[w] \in {"retrying", "requeued", "abandon"},
             wpc'[w] = "requeued" => wjob'[w] \in back[w],
             \A i \in Jobs : Started(i)' => i \in lost'[w] \/ Queued(i)
      PROVE  Backs(w)'
  <2>1. wthen'[w] = "idle" /\ (\A i \in Jobs : Queued(i)' = Queued(i))
    BY <1>4, <1>9
  <2>2. UNCHANGED rq
    BY <1>4, <1>9
  <2>3. \A i \in back[w] : Queued(i)'
    BY <1>1, <1>9, <2>2 DEF Backs, Queued
  <2>4. wpc'[w] = "requeued" => Queued(wjob[w])'
    BY <1>9, <2>3 DEF Queued
  <2>5. \A i \in Jobs : Started(i)' => i \in lost'[w] \/ Queued(i)'
    BY <1>9, <2>1
  <2>6. \A i \in back'[w] : Queued(i)'
    BY <1>9, <2>3
  <2> HIDE DEF Base, Shape, TypeOK
  <2> QED BY <1>1, <1>9, <2>1, <2>4, <2>5, <2>6 DEF Backs, BootPC
<1>10. wpc[w] \in {"retrying", "requeued", "abandon"} =>
          \A i \in Jobs : Started(i) => i \in lost[w] \/ Queued(i)
  BY <1>1 DEF Backs
<1>11. CASE SelectRetrying(w)
  <2>1. PICK i \in back[w] :
           /\ back' = [back EXCEPT ![w] = @ \ {i}]
           /\ IF UpdateChoice(rows[i], "waiting_retry") = "skip"
              THEN UNCHANGED <<wpc, wjob>>
              ELSE Go(w, "requeued") /\ wjob' = [wjob EXCEPT ![w] = i]
    BY <1>11 DEF SelectRetrying
  <2>2. wpc[w] = "retrying" /\ UNCHANGED <<rows, seen, lost>> /\ back'[w] \subseteq back[w] /\ Boot(w)
    BY <1>11, <2>1 DEF SelectRetrying, At, dbVars, BootTypes, Boot
  <2>3. wpc'[w] = "retrying" \/ (wpc'[w] = "requeued" /\ wjob'[w] = i)
    BY <2>1, <2>2 DEF Go, WorkerTypes
  <2>4. \A k \in Jobs : Started(k)' => k \in lost'[w] \/ Queued(k)
    BY <1>10, <2>2 DEF Started
  <2> QED BY <1>9, <2>2, <2>3, <2>4
<1>12. CASE MarkRetrying(w)
  <2>1. PICK j \in Jobs : j = wjob[w]
    BY <1>12 DEF MarkRetrying, At, Holding
  <2>2. wpc[w] = "requeued" /\ Queued(j) /\ Ours(j)
    BY <1>1, <1>12, <2>1 DEF MarkRetrying, At, Backs, Life, Heeds
  <2>3. Unique([rows EXCEPT ![j] = Applied(@, "waiting_retry")])
    BY <1>1, <2>2, NotRefused DEF RunStatements
  <2>4. rows' = [rows EXCEPT ![j] = Applied(@, "waiting_retry")] /\ Go(w, "retrying") /\ UNCHANGED <<lost, back, seen>>
    BY <1>12, <2>1, <2>3 DEF MarkRetrying
  <2>5. wpc'[w] = "retrying" /\ Boot(w)
    BY <1>12, <2>4 DEF Go, WorkerTypes, Boot
  <2>6. \A i \in Jobs \ {j} : rows'[i] = rows[i]
    BY <1>1, <2>4
  <2>7. \A i \in Jobs : Started(i)' => i \in lost'[w] \/ Queued(i)
    BY <1>10, <2>2, <2>4, <2>6 DEF Started
  <2> QED BY <1>9, <2>2, <2>4, <2>5, <2>7
<1>13. CASE SelectAbandoned(w)
  <2>1. wpc[w] = "retrying" /\ wpc'[w] = "abandon" /\ UNCHANGED <<rows, seen, back>> /\ Boot(w)
    BY <1>13 DEF SelectAbandoned, At, Go, WorkerTypes, dbVars, Boot
  <2>2. \A i \in Jobs : Started(i) /\ i \in lost[w] => i \in lost'[w]
    BY <1>13 DEF SelectAbandoned, BootTypes, AbandonChoice, Started, Active
  <2>3. \A i \in Jobs : Started(i)' => i \in lost'[w] \/ Queued(i)
    BY <1>10, <2>1, <2>2 DEF Started
  <2> QED BY <1>9, <2>1, <2>3
<1>14. CASE MarkAbandoned(w)
  <2>1. wpc[w] = "abandon" /\ wpc'[w] = "idle" /\ UNCHANGED seen /\ wthen'[w] = "idle"
        /\ \A i \in Jobs : Queued(i)' = Queued(i)
    BY <1>4, <1>14 DEF Boot, MarkAbandoned, At, Go, WorkerTypes
  <2>2. \A i \in Jobs : IF i \in lost[w] THEN ~Started(i)' ELSE Started(i)' = Started(i)
    BY <1>1, <1>14 DEF MarkAbandoned, Applied, Row, Started
  <2>3. \A i \in Jobs : Started(i)' => Queued(i)'
    BY <1>10, <2>1, <2>2
  <2> HIDE DEF Base, Shape, TypeOK
  <2> QED BY <1>1, <2>1, <2>3 DEF Backs, BootPC
<1> QED BY <1>2, <1>3, <1>5, <1>6, <1>7, <1>8, <1>11, <1>12, <1>13, <1>14 DEF Boot

(* The account of the worker is kept. *)
LEMMA BackedAlways ==
  ASSUME OneWorker, Calm
  PROVE  Spec => []Backed
<1>1. Init => Backed
  BY DEF Init, Backed, Uncancelled, Loadable, Backs, NoTask, Deleted, BootPC
<1>2. Base /\ Life /\ Backed /\ [Next]_vars => Backed'
  <2> SUFFICES ASSUME Base, Life, Backed, [Next]_vars PROVE Backed'
    OBVIOUS
  <2>1. Uncancelled'
    BY NextUncancelled DEF Base, Backed
  <2>2. \A j \in Jobs : Loadable(j)'
    BY NextQueued DEF Base, Backed
  <2>3. ASSUME NEW w \in Workers PROVE Backs(w)'
    <3>1. CASE UNCHANGED workerVars
      BY <3>1, OthersBack
    <3>2. CASE \E v \in Workers : Work(v) \/ WorkerCrash(v)
      <4>1. Work(w) \/ WorkerCrash(w)
        BY <3>2 DEF OneWorker
      <4> QED BY <4>1, RunBacks, BootBacks DEF Work
    <3> QED BY <3>1, <3>2, Actors DEF Base
  <2> QED BY <2>1, <2>2, <2>3 DEF Backed
<1>3. Spec => [](Base /\ Life)
  BY LifeAlways DEF Calm
<1> QED BY <1>1, <1>2, <1>3, PTL DEF Spec

(* Once the worker consumes, RQ or a run has every row that left the queue. *)
LEMMA Accounted ==
  ASSUME OneWorker, Backed, NEW j \in Jobs, Started(j), \A w \in Workers : wpc[w] \notin BootPC
  PROVE  Tracked(j)
<1>1. PICK w : Workers = {w}
  BY DEF OneWorker
<1> QED BY <1>1 DEF Backed, Backs, Queued, Tracked, Live

(* Somebody will still act on every row that left the queue: RQ, the worker *)
(* at its run, or the worker before or at its start-up reconciliation.      *)
THEOREM StartedHasOwnerAlways ==
  ASSUME OneWorker, Calm
  PROVE  Spec => []StartedHasOwner
<1>1. Backed => StartedHasOwner
  BY Accounted DEF StartedHasOwner, Started
<1> QED BY <1>1, BackedAlways, PTL

(* A job that tells its user "waiting for retry" has that retry: scheduled, *)
(* queued or running, or the restarting worker is about to close the row.   *)
THEOREM RetryPromiseKeptAlways ==
  ASSUME OneWorker, Calm
  PROVE  Spec => []RetryPromiseKept
<1>1. Backed => RetryPromiseKept
  BY Accounted DEF RetryPromiseKept, Started
<1> QED BY <1>1, BackedAlways, PTL
=============================================================================
