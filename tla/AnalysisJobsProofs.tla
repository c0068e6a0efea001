------------------------- MODULE AnalysisJobsProofs -------------------------
(***************************************************************************)
(* Proofs about AnalysisJobs, for any sets of jobs, keys, clients and      *)
(* workers, any number of pipelines and retries, and every environment.    *)
(*                                                                         *)
(* None of the invariants is inductive alone.  Shape says where each       *)
(* process holds a job and a pending UPDATE; on it rest Existing (whoever  *)
(* is about to write a row writes one that exists), Requested (a pending   *)
(* "cancelled" belongs to a flagged row) and Published (a run published    *)
(* what its loop counter says).  Each part has a lemma that no step breaks *)
(* it; the theorems put them together.                                     *)
(***************************************************************************)
EXTENDS AnalysisJobs, TLAPS

RunStatements == {"running", "waiting_retry", "error", "cancelled", "done"}
AfterUpdate   == {"setup", "segment", "render", "emit", "finish", "raise"}

(* A process that works on a job knows which. *)
Holding ==
    /\ \A c \in Clients : cpc[c] # "idle" => cjob[c] \in Jobs
    /\ \A w \in Workers : wpc[w] \in RunPC \cup {"requeued"} => wjob[w] \in Jobs

(* An UPDATE is pending exactly while the process counter says so. *)
ClientPending ==
    \A c \in Clients : cset[c] \in IF cpc[c] = "update"
                                   THEN {"error", "close", "flag", "abandon"}
                                   ELSE {"skip"}

WorkerPending ==
    \A w \in Workers :
       IF wpc[w] = "update" THEN wset[w] \in RunStatements /\ wthen[w] \in AfterUpdate
                            ELSE wset[w] = "skip" /\ wthen[w] = "idle"

(* Inside the loop over the pipelines, the counter is at one of them. *)
InLoop ==
    \A w \in Workers : wpc[w] \in {"run", "render", "persist"} \/ wthen[w] = "render"
                       => wseg[w] \in Segments

Shape == TypeOK /\ Holding /\ ClientPending /\ WorkerPending /\ InLoop

(* Every UPDATE of the store turns a row into a row. *)
LEMMA AppliedIsRow ==
  ASSUME NEW r \in Row, NEW s \in Statements
  PROVE  Applied(r, s) \in Row
  BY DEF Applied, Row, Statements, Active, Terminal

(* So does the touch of append_event. *)
LEMMA TouchedIsRow == ASSUME NEW r \in Row PROVE Touched(r) \in Row
  BY DEF Touched, Row

(* The empty tables and idle processes have the shape. *)
LEMMA InitShape == Init => Shape
  BY SegmentAssumption, BoundAssumption, EnvAssumption, NoJobAssumption
     DEF Init, Shape, TypeOK, TableTypes, QueueTypes, ClientTypes, WorkerTypes, BootTypes, Holding, ClientPending, WorkerPending, InLoop, NoRow, Row, NoTask, Deleted, Task, Active, Terminal,
         Statements, Segments, ClientPC, BootPC, RunPC

(* No step of a client (create, attach, force, cancel, the lookup, the      *)
(* producers that push unasked, or its death) breaks the shape.            *)
LEMMA ClientShape ==
  ASSUME Shape, NEW c \in Clients, Request(c) \/ ClientStep(c) \/ ClientCrash(c)
  PROVE  Shape'
<1> USE NoJobAssumption DEF Shape, TypeOK
<1>1. workerVars' = workerVars /\ crashes' = crashes
  BY Zenon DEF Request, ClientStep, Attach, Create, CreateDirect, Supersede, Conflict, LookUp, Cancel, Probe, Enqueue,
     EnqueueFails, Push, RecordEnqueueFailure, Unqueue, MarkCancel, ProbeOrphan, AbandonOrphan,
     UpdateByClient, ClientCrash, Select
<1>2. WorkerTypes' /\ BootTypes' /\ WorkerPending' /\ InLoop' /\ (crashes \in 0..MaxCrashes)'
  BY <1>1 DEF workerVars, taskVars, sqlVars, bootVars, WorkerTypes, BootTypes, WorkerPending, InLoop
<1>3. ASSUME NEW pc \in ClientPC \ {"update"}, NEW j \in Jobs \cup {NoJob}, NEW new \in BOOLEAN, 
             pc # "idle" => j \in Jobs, Ask(c, pc, j, new)
      PROVE  ClientTypes' /\ Holding' /\ ClientPending'
  BY <1>1, <1>3 DEF Ask, ClientTypes, Holding, ClientPending, ClientPC, Statements, workerVars, taskVars
<1>4. ASSUME Done(c) PROVE ClientTypes' /\ Holding' /\ ClientPending'
  BY <1>4, <1>3 DEF Done, ClientPC
<1>5. ASSUME NEW s \in {"skip", "error", "close", "flag", "abandon"}, Select(c, s), cpc[c] # "idle"
      PROVE  ClientTypes' /\ Holding' /\ ClientPending' /\ TableTypes' /\ QueueTypes'
  <2>1. TableTypes' /\ QueueTypes'
    BY <1>5 DEF Select, dbVars, TableTypes, QueueTypes
  <2>2. CASE s = "skip"
    BY <2>1, <2>2, <1>5, <1>4 DEF Select
  <2>3. CASE s # "skip"
    BY <2>1, <2>3, <1>1, <1>5 DEF Select, ClientTypes, Holding, ClientPending, ClientPC, Statements,
       workerVars, taskVars
  <2> QED BY <2>2, <2>3
<1>6. cpc[c] # "idle" => cjob[c] \in Jobs /\ rows[cjob[c]] \in Row /\ rq[cjob[c]] \in Task
  BY DEF Holding, TableTypes, QueueTypes
<1>7. \A r \in Row : NewRow \in Row /\ Applied(r, "close") \in Row
  BY AppliedIsRow DEF NewRow, Row, Statements, Active
<1>8. \A t \in Task : t.pushes < MaxPushes => Pushed(t) \in Task
  BY BoundAssumption DEF Pushed, Task
<1>9. ASSUME Request(c) PROVE ClientTypes' /\ Holding' /\ ClientPending' /\ TableTypes' /\ QueueTypes'
  <2>1. ASSUME NEW k \in Keys, Attach(c, k)
        PROVE  ClientTypes' /\ Holding' /\ ClientPending' /\ TableTypes' /\ QueueTypes'
    BY <2>1, <1>3, <1>4 DEF Attach, Visible, Indexed, ClientPC, dbVars, TableTypes, QueueTypes
  <2>2. ASSUME NEW k \in Keys, Create(c, k)
        PROVE  ClientTypes' /\ Holding' /\ ClientPending' /\ TableTypes' /\ QueueTypes'
    <3>1. PICK j \in Jobs : rows' = [rows EXCEPT ![j] = NewRow] /\ Ask(c, "probe", j, TRUE)
      BY <2>2 DEF Create
    <3>2. rows' \in [Jobs -> Row]
      BY <3>1, <1>7 DEF TableTypes
    <3> QED BY <3>1, <3>2, <2>2, <1>3 DEF Create, TableTypes, QueueTypes, ClientPC
  <2>3. ASSUME NEW k \in Keys, Supersede(c, k)
        PROVE  ClientTypes' /\ Holding' /\ ClientPending' /\ TableTypes' /\ QueueTypes'
    <3>1. PICK j \in Jobs :
             /\ rows' = [i \in Jobs |-> IF i = j THEN NewRow
                                        ELSE IF i \in Indexed(rows, k) THEN Applied(rows[i], "close")
                                        ELSE rows[i]]
             /\ Ask(c, "probe", j, TRUE)
      BY <2>3 DEF Supersede
    <3>2. rows' \in [Jobs -> Row]
      BY <3>1, <1>7 DEF TableTypes
    <3> QED BY <3>1, <3>2, <2>3, <1>3 DEF Supersede, TableTypes, QueueTypes, ClientPC
  <2>4. ASSUME NEW k \in Keys, Conflict(c, k)
        PROVE  ClientTypes' /\ Holding' /\ ClientPending' /\ TableTypes' /\ QueueTypes'
    BY <2>4, <1>1 DEF Conflict, clientVars, workerVars, taskVars, ClientTypes, Holding, ClientPending,
       TableTypes, QueueTypes
  <2>5. ASSUME NEW k \in Keys, LookUp(c, k)
        PROVE  ClientTypes' /\ Holding' /\ ClientPending' /\ TableTypes' /\ QueueTypes'
    BY <2>5, <1>3 DEF LookUp, Visible, Indexed, ClientPC, dbVars, TableTypes, QueueTypes
  <2>6. ASSUME NEW j \in Jobs, Cancel(c, j)
        PROVE  ClientTypes' /\ Holding' /\ ClientPending' /\ TableTypes' /\ QueueTypes'
    BY <2>6, <1>3 DEF Cancel, ClientPC, dbVars, TableTypes, QueueTypes
  <2>7. ASSUME NEW k \in Keys, CreateDirect(c, k)
        PROVE  ClientTypes' /\ Holding' /\ ClientPending' /\ TableTypes' /\ QueueTypes'
    <3>1. PICK j \in Direct : rows' = [rows EXCEPT ![j] = NewRow] /\ Ask(c, "push", j, TRUE)
      BY <2>7 DEF CreateDirect
    <3>2. j \in Jobs /\ rows' \in [Jobs -> Row]
      BY <3>1, <1>7, DirectAssumption DEF TableTypes
    <3> QED BY <3>1, <3>2, <2>7, <1>3 DEF CreateDirect, TableTypes, QueueTypes, ClientPC
  <2> QED BY <1>9, <2>1, <2>2, <2>3, <2>4, <2>5, <2>6, <2>7 DEF Request
<1>10. ASSUME ClientStep(c) \/ ClientCrash(c)
       PROVE  ClientTypes' /\ Holding' /\ ClientPending' /\ TableTypes' /\ QueueTypes'
  <2>1. CASE Probe(c)
    <3>1. TableTypes' /\ QueueTypes'
      BY <2>1 DEF Probe, dbVars, TableTypes, QueueTypes
    <3>2. cnew[c] \in BOOLEAN /\ cjob[c] \in Jobs
      BY <2>1, <1>6 DEF Probe, ClientTypes
    <3>3. Done(c) \/ Ask(c, "enqueue", cjob[c], cnew[c]) \/ Ask(c, "enqueue", cjob[c], TRUE)
      BY <2>1 DEF Probe
    <3> QED BY <3>1, <3>2, <3>3, <1>3, <1>4 DEF ClientPC
  <2>2. CASE Enqueue(c)
    <3>1. rows' \in [Jobs -> Row]
      BY <2>2, <1>6, TouchedIsRow DEF Enqueue, TableTypes
    <3>2. rq' \in [Jobs -> Task]
      BY <2>2, <1>6, <1>8 DEF Enqueue, QueueTypes
    <3> QED BY <3>1, <3>2, <2>2, <1>4 DEF Enqueue, TableTypes, QueueTypes
  <2>3. CASE EnqueueFails(c)
    BY <2>3, <1>3, <1>6, <1>8 DEF EnqueueFails, TableTypes, QueueTypes, dbVars, ClientPC, ClientTypes
  <2>4. CASE RecordEnqueueFailure(c)
    BY <2>4, <1>5 DEF RecordEnqueueFailure, UpdateChoice
  <2>5. CASE Unqueue(c)
    <3>1. Deleted(rq[cjob[c]].left) \in Task
      BY <2>5, <1>6, BoundAssumption DEF Unqueue, Deleted, Task
    <3>2. rq' \in [Jobs -> Task]
      BY <2>5, <3>1 DEF Unqueue, QueueTypes
    <3> QED BY <2>5, <3>2, <1>3, <1>6 DEF Unqueue, TableTypes, QueueTypes, dbVars, ClientPC
  <2>6. CASE MarkCancel(c)
    BY <2>6, <1>5 DEF MarkCancel, CancelChoice
  <2>7. CASE ProbeOrphan(c)
    BY <2>7, <1>3, <1>4, <1>6 DEF ProbeOrphan, ClientPC, dbVars, TableTypes, QueueTypes
  <2>8. CASE AbandonOrphan(c)
    BY <2>8, <1>5 DEF AbandonOrphan, AbandonChoice
  <2>9. CASE UpdateByClient(c)
    <3>1. rows' \in [Jobs -> Row]
      BY <2>9, <1>6, AppliedIsRow DEF UpdateByClient, TableTypes, ClientTypes
    <3> QED BY <2>9, <3>1, <1>4 DEF UpdateByClient, TableTypes, QueueTypes
  <2>10. CASE ClientCrash(c)
    BY <2>10, <1>4 DEF ClientCrash, dbVars, TableTypes, QueueTypes
  <2>11. CASE Push(c)
    <3>1. rq' \in [Jobs -> Task]
      BY <2>11, <1>6, <1>8 DEF Push, QueueTypes
    <3> QED BY <2>11, <3>1, <1>4 DEF Push, dbVars, TableTypes, QueueTypes
  <2> QED BY <1>10, <2>1, <2>2, <2>3, <2>4, <2>5, <2>6, <2>7, <2>8, <2>9, <2>10, <2>11 DEF ClientStep
<1> QED BY <1>2, <1>9, <1>10

(* What the RQ operations return is a task record. *)
LEMMA TaskFacts ==
  ASSUME NEW t \in Task
  PROVE  /\ t.pushes < MaxPushes => Due(t) \in Task
         /\ t.pushes > 0 => Taken(t) \in Task /\ [t EXCEPT !.pushes = @ - 1] \in Task
         /\ [t EXCEPT !.hash = "finished"] \in Task
         /\ \A n \in Nat : Retried(t, n) \in Task /\ Saved(t, n) \in Task
<1>1. /\ t.pushes < MaxPushes => Due(t) \in Task
      /\ t.pushes > 0 => Taken(t) \in Task
      /\ \A n \in Nat : Retried(t, n) \in Task /\ Saved(t, n) \in Task
  BY BoundAssumption DEF Task, Due, Taken, Retried, Saved
<1>2. [t EXCEPT !.hash = "finished"] \in Task
  BY DEF Task
<1>3. ASSUME t.pushes > 0 PROVE [t EXCEPT !.pushes = @ - 1] \in Task
  BY <1>3, BoundAssumption DEF Task
<1> QED BY <1>1, <1>2, <1>3

(* RQ's own scheduler, its registry clean-up and the clock keep the shape. *)
LEMMA EnvironmentShape ==
  ASSUME Shape, NEW j \in Jobs, RetryDue(j) \/ CleanRegistry(j) \/ GoStale(j)
  PROVE  Shape'
<1> USE DEF Shape, TypeOK
<1>1. clientVars' = clientVars /\ workerVars' = workerVars /\ crashes' = crashes
  BY DEF RetryDue, CleanRegistry, GoStale
<1>2. /\ ClientTypes' /\ WorkerTypes' /\ BootTypes' /\ (crashes \in 0..MaxCrashes)'
      /\ Holding' /\ ClientPending' /\ WorkerPending' /\ InLoop'
  BY <1>1 DEF clientVars, workerVars, taskVars, sqlVars, bootVars, ClientTypes, WorkerTypes,
     BootTypes, Holding, ClientPending, WorkerPending, InLoop
<1>3. TableTypes'
  BY DEF RetryDue, CleanRegistry, GoStale, dbVars, TableTypes, Row
<1>4. QueueTypes'
  <2>1. rq[j] \in Task /\ rq[j].left \in Nat
    BY DEF QueueTypes, Task
  <2> QED BY <2>1, TaskFacts DEF RetryDue, CleanRegistry, GoStale, QueueTypes
<1> QED BY <1>2, <1>3, <1>4

(* No step of a worker, from reconciliation to the retry hook, breaks it. *)
LEMMA WorkerShape ==
  ASSUME Shape, NEW w \in Workers, Work(w) \/ WorkerCrash(w)
  PROVE  Shape'
<1> USE NoJobAssumption DEF Shape, TypeOK
<1>1. clientVars' = clientVars
  BY Zenon DEF Work, Boot, RunStep, ReadQueues, ReadRegistries, SkipReconciliation, ReadRows, SelectRetrying,
     MarkRetrying, SelectAbandoned, MarkAbandoned, Dequeue, Guard, Begin, NoKeys, Setup, Fetch,
     FetchBlocked, Snapshot, Segment, Run, Render, Persist, MarkDone, EmitDone, Abort, Refuse,
     RunRaises, Fail, PrepareRetry, UpdateByRun, Finish, Raise, WorkerCrash, NoWrite, RunFrame
<1>2. ClientTypes' /\ ClientPending' /\ \A c \in Clients : cpc'[c] # "idle" => cjob'[c] \in Jobs
  BY <1>1 DEF clientVars, ClientTypes, ClientPending, Holding
<1>3. ASSUME NEW pc \in BootPC \cup {"idle"} \cup RunPC, pc # "update",
             Go(w, pc), wpc[w] # "update", UNCHANGED <<wjob, wseg, sqlVars>>,
             wleft' \in [Workers -> Nat],
             pc \in RunPC \cup {"requeued"} => wjob[w] \in Jobs,
             pc \in {"run", "render", "persist"} => wseg[w] \in Segments
      PROVE  WorkerTypes' /\ Holding' /\ WorkerPending' /\ InLoop'
  BY <1>2, <1>3 DEF Go, sqlVars, WorkerTypes, Holding, WorkerPending, InLoop
<1>4. ASSUME NEW s \in RunStatements, NEW next \in AfterUpdate, UpdateTo(w, s, next),
             wpc[w] \in RunPC, wpc[w] # "update",
             UNCHANGED <<wjob, wseg>>, wleft' \in [Workers -> Nat],
             next = "render" => wseg[w] \in Segments
      PROVE  WorkerTypes' /\ Holding' /\ WorkerPending' /\ InLoop'
  <2>1. CASE UpdateChoice(MyRow(w), s) = "skip"
    BY <2>1, <1>3, <1>4 DEF UpdateTo, AfterUpdate, RunPC, Holding
  <2>2. CASE UpdateChoice(MyRow(w), s) # "skip"
    <3>1. UpdateChoice(MyRow(w), s) \in RunStatements
      BY <2>2 DEF UpdateChoice, RunStatements
    <3>2. /\ wpc' = [wpc EXCEPT ![w] = "update"]
          /\ wset' = [wset EXCEPT ![w] = UpdateChoice(MyRow(w), s)]
          /\ wthen' = [wthen EXCEPT ![w] = next]
          /\ UNCHANGED <<wjob, wseg>> /\ wleft' \in [Workers -> Nat]
          /\ next \in RunPC
      BY <2>2, <1>4 DEF UpdateTo, Go, AfterUpdate, RunPC
    <3>3. WorkerTypes'
      BY <3>1, <3>2 DEF WorkerTypes, RunPC, RunStatements, Statements
    <3>4. Holding' /\ WorkerPending' /\ InLoop'
      BY <3>1, <3>2, <1>2, <1>4 DEF WorkerTypes, Holding, WorkerPending, InLoop
    <3> QED BY <3>3, <3>4
  <2> QED BY <2>1, <2>2
<1>t. UNCHANGED taskVars => UNCHANGED <<wjob, wseg>> /\ wleft' \in [Workers -> Nat]
  BY DEF taskVars, WorkerTypes
<1>5. wpc[w] \in RunPC => wjob[w] \in Jobs /\ rows[wjob[w]] \in Row /\ rq[wjob[w]] \in Task
  BY DEF Holding, TableTypes, QueueTypes
<1>6. ASSUME Boot(w)
      PROVE  Shape'
  <2>1. CASE ReadQueues(w)
    BY <2>1, <1>2, <1>3, <1>t DEF ReadQueues, At, BootPC, RunPC, BootTypes, dbVars, TableTypes, QueueTypes
  <2>2. CASE ReadRegistries(w)
    <3>1. BootTypes'
      BY <2>2 DEF ReadRegistries, BootTypes
    <3> QED BY <2>2, <3>1, <1>2, <1>3, <1>t DEF ReadRegistries, At, BootPC, RunPC, dbVars, TableTypes, QueueTypes
  <2>3. CASE SkipReconciliation(w)
    BY <2>3, <1>2, <1>3, <1>t DEF SkipReconciliation, At, BootPC, RunPC, BootTypes, dbVars, TableTypes, QueueTypes
  <2>4. CASE ReadRows(w)
    <3>1. BootTypes'
      BY <2>4 DEF ReadRows, BootTypes
    <3> QED BY <2>4, <3>1, <1>2, <1>3, <1>t DEF ReadRows, At, BootPC, RunPC, dbVars, TableTypes, QueueTypes
  <2>5. CASE SelectRetrying(w)
    <3>1. PICK j \in back[w] :
             /\ back' = [back EXCEPT ![w] = @ \ {j}]
             /\ IF UpdateChoice(rows[j], "waiting_retry") = "skip"
                THEN UNCHANGED <<wpc, wjob>>
                ELSE Go(w, "requeued") /\ wjob' = [wjob EXCEPT ![w] = j]
      BY <2>5 DEF SelectRetrying
    <3>2. j \in Jobs
      BY DEF BootTypes
    <3>3. BootTypes' /\ TableTypes' /\ QueueTypes' /\ crashes' = crashes
      BY <2>5, <3>1 DEF SelectRetrying, BootTypes, dbVars, TableTypes, QueueTypes
    <3>4. WorkerTypes'
      BY <2>5, <3>1, <3>2 DEF SelectRetrying, Go, sqlVars, WorkerTypes, BootPC
    <3>5. Holding' /\ WorkerPending' /\ InLoop'
      BY <2>5, <3>1, <3>2, <1>2 DEF SelectRetrying, At, Go, sqlVars, WorkerTypes, Holding, WorkerPending, InLoop
    <3> QED BY <1>2, <3>3, <3>4, <3>5
  <2>6. CASE MarkRetrying(w)
    <3>1. wjob[w] \in Jobs /\ rows[wjob[w]] \in Row
      BY <2>6 DEF MarkRetrying, At, Holding, TableTypes
    <3>2. [rows EXCEPT ![wjob[w]] = Applied(@, "waiting_retry")] \in [Jobs -> Row]
      BY <3>1, AppliedIsRow DEF TableTypes, Statements
    <3>3. TableTypes' /\ QueueTypes' /\ crashes' = crashes /\ BootTypes'
      BY <2>6, <3>2 DEF MarkRetrying, TableTypes, QueueTypes, BootTypes
    <3>4. /\ wjob' = [wjob EXCEPT ![w] = NoJob] /\ UNCHANGED <<wseg, wleft, wset, wthen>>
          /\ \E pc \in {"retrying", "down"} : wpc' = [wpc EXCEPT ![w] = pc]
          /\ wpc[w] = "requeued"
      BY <2>6 DEF MarkRetrying, At, Go, sqlVars
    <3>5. WorkerTypes' /\ Holding' /\ WorkerPending' /\ InLoop'
      BY <3>4, <1>2 DEF WorkerTypes, Holding, WorkerPending, InLoop, BootPC, RunPC
    <3> QED BY <1>2, <3>3, <3>5
  <2>7. CASE SelectAbandoned(w)
    <3>1. BootTypes'
      BY <2>7 DEF SelectAbandoned, BootTypes
    <3> QED BY <2>7, <3>1, <1>2, <1>3, <1>t DEF SelectAbandoned, At, BootPC, RunPC, dbVars, TableTypes, QueueTypes
  <2>8. CASE MarkAbandoned(w)
    <3>1. rows' \in [Jobs -> Row]
      BY <2>8, AppliedIsRow DEF MarkAbandoned, TableTypes, Statements
    <3>2. BootTypes'
      BY <2>8 DEF MarkAbandoned, BootTypes
    <3> QED BY <2>8, <3>1, <3>2, <1>2, <1>3, <1>t DEF MarkAbandoned, At, BootPC, RunPC, TableTypes, QueueTypes
  <2> QED BY <1>6, <2>1, <2>2, <2>3, <2>4, <2>5, <2>6, <2>7, <2>8 DEF Boot
<1>7. ASSUME NEW j \in Jobs, Dequeue(w, j) PROVE Shape'
  <2>1. rq' \in [Jobs -> Task]
    <3>1. rq[j] \in Task /\ rq[j].pushes > 0
      BY <1>7 DEF Dequeue, QueueTypes
    <3>2. Taken(rq[j]) \in Task /\ [rq[j] EXCEPT !.pushes = @ - 1] \in Task
      BY <3>1, TaskFacts
    <3> QED BY <3>2, <1>7 DEF Dequeue, QueueTypes
  <2>2. TableTypes' /\ BootTypes' /\ crashes' = crashes
    BY <1>7 DEF Dequeue, dbVars, bootVars, TableTypes, BootTypes
  <2>3. rq[j].left \in Nat
    BY DEF QueueTypes, Task
  <2>4. WorkerTypes' /\ Holding' /\ WorkerPending' /\ InLoop'
    BY <1>7, <2>3, <1>2 DEF Dequeue, At, Go, sqlVars, WorkerTypes, Holding, WorkerPending, InLoop,
       BootPC, RunPC
  <2> QED BY <2>1, <2>2, <2>4, <1>2 DEF QueueTypes
<1>8. ASSUME WorkerCrash(w) PROVE Shape'
  <2>1. crashes' \in 0..MaxCrashes
    BY <1>8, BoundAssumption DEF WorkerCrash
  <2>2. TableTypes' /\ QueueTypes' /\ BootTypes'
    BY <1>8 DEF WorkerCrash, dbVars, TableTypes, QueueTypes, BootTypes
  <2>3. 1 \in 1..LastSegment + 1
    BY SegmentAssumption
  <2>4. WorkerTypes' /\ Holding' /\ WorkerPending' /\ InLoop'
    BY <1>8, <2>3, <1>2 DEF WorkerCrash, Go, WorkerTypes, Holding, WorkerPending, InLoop,
       BootPC, RunPC, Statements
  <2> QED BY <2>1, <2>2, <2>4, <1>2
<1>9. ASSUME RunStep(w) PROVE Shape'
  <2>0. RunPC \subseteq BootPC \cup {"idle"} \cup RunPC /\ wpc[w] \in RunPC
    BY <1>9 DEF RunStep, At, RunPC, Guard, Begin, NoKeys, Setup, Fetch, FetchBlocked, Snapshot, Segment,
       Run, Render, Persist, MarkDone, EmitDone, Abort, Refuse, RunRaises, Fail, PrepareRetry,
       UpdateByRun, Finish, Raise
  <2>1. ASSUME NoWrite PROVE TableTypes' /\ QueueTypes' /\ BootTypes' /\ crashes' = crashes
    BY <2>1 DEF NoWrite, dbVars, bootVars, TableTypes, QueueTypes, BootTypes
  <2>2. ASSUME RunFrame
        PROVE  TableTypes' /\ QueueTypes' /\ BootTypes' /\ crashes' = crashes /\ UNCHANGED taskVars
    BY <2>2 DEF RunFrame, dbVars, bootVars, TableTypes, QueueTypes, BootTypes
  <2>3. ASSUME NoWrite, wpc[w] # "update",
               NEW pc \in RunPC, Go(w, pc), pc # "update",
               pc \in {"run", "render", "persist"} => wseg[w] \in Segments
        PROVE  Shape'
    BY <2>0, <2>1, <2>3, <1>2, <1>3, <1>t, <1>5 DEF NoWrite
  <2>4. ASSUME RunFrame, wpc[w] # "update", NEW s \in RunStatements, NEW next \in AfterUpdate,
               UpdateTo(w, s, next), next = "render" => wseg[w] \in Segments
        PROVE  Shape'
    BY <2>0, <2>2, <2>4, <1>2, <1>4, <1>t
  <2>5. wseg[w] \in 1..LastSegment + 1 /\ LastSegment \in Nat
    BY SegmentAssumption DEF WorkerTypes
  <2>6. CASE Guard(w) \/ Setup(w) \/ Fetch(w) \/ RunRaises(w)
    BY <2>6, <2>3 DEF Guard, Setup, Fetch, RunRaises, Checkpoint, At, RunPC
  <2>7. CASE Segment(w)
    BY <2>7, <2>3, <2>5 DEF Segment, Checkpoint, At, RunPC, Segments
  <2>8. CASE Render(w)
    BY <2>8, <2>3 DEF Render, Checkpoint, At, RunPC, InLoop
  <2>9. CASE Begin(w) \/ NoKeys(w) \/ FetchBlocked(w) \/ Snapshot(w) \/ MarkDone(w) \/ Abort(w) \/ Fail(w)
    BY <2>9, <2>4 DEF Begin, NoKeys, FetchBlocked, Snapshot, MarkDone, Abort, Fail, At,
       RunStatements, AfterUpdate
  <2>10. CASE Run(w)
    <3>1. CASE MyRow(w).cancel
      BY <2>10, <3>1, <2>3 DEF Run, RunFrame, NoWrite, At, RunPC
    <3>2. CASE ~MyRow(w).cancel
      BY <2>10, <3>2, <2>4 DEF Run, At, RunStatements, AfterUpdate, InLoop
    <3> QED BY <3>1, <3>2
  <2>11. CASE Refuse(w)
    BY <2>11, <2>3, <2>4 DEF Refuse, At, RunPC, RunStatements, AfterUpdate
  <2>12. CASE Persist(w)
    <3>1. wseg[w] \in Segments /\ wjob[w] \in Jobs
      BY <2>12, <2>0, <1>5 DEF Persist, At, InLoop
    <3>2. TableTypes'
      <4>1. Touched(rows[wjob[w]]) \in Row
        BY <2>0, <1>5, TouchedIsRow
      <4> QED BY <2>12, <3>1, <4>1 DEF Persist, TableTypes
    <3>3. WorkerTypes' /\ Holding' /\ WorkerPending' /\ InLoop'
      BY <2>12, <3>1, <2>5, <1>2 DEF Persist, At, Go, sqlVars, WorkerTypes, Holding, WorkerPending,
         InLoop, RunPC, Segments
    <3> QED BY <2>12, <3>2, <3>3, <1>2 DEF Persist, bootVars, QueueTypes, BootTypes
  <2>13. CASE EmitDone(w)
    <3>1. TableTypes'
      BY <2>13, <2>0, <1>5 DEF EmitDone, TableTypes
    <3> QED BY <2>13, <3>1, <2>0, <1>2, <1>3, <1>t, <1>5 DEF EmitDone, At, RunPC, QueueTypes, BootTypes, bootVars
  <2>14. CASE PrepareRetry(w)
    <3>1. wjob[w] \in Jobs /\ rq[wjob[w]] \in Task /\ wleft[w] \in Nat
      BY <2>0, <1>5 DEF WorkerTypes
    <3> DEFINE left == IF Authoritative /\ wleft[w] = 0 THEN 1 ELSE wleft[w]
    <3>2. /\ rq' \in {rq, [rq EXCEPT ![wjob[w]] = Saved(@, left)]}
          /\ wleft' \in {wleft, [wleft EXCEPT ![w] = left]}
          /\ UpdateTo(w, "error", "raise") \/ UpdateTo(w, "waiting_retry", "raise")
          /\ At(w, "retry") /\ UNCHANGED <<dbVars, crashes, wjob, wseg, bootVars>>
      BY <2>14 DEF PrepareRetry
    <3>3. left \in Nat
      BY <3>1
    <3> HIDE DEF left
    <3>4. QueueTypes'
      <4>1. Saved(rq[wjob[w]], left) \in Task
        BY <3>1, <3>3, TaskFacts
      <4> QED BY <3>2, <4>1 DEF QueueTypes
    <3>5. wleft' \in [Workers -> Nat]
      BY <3>2, <3>3 DEF WorkerTypes
    <3>6. WorkerTypes' /\ Holding' /\ WorkerPending' /\ InLoop'
      BY <3>2, <3>5, <2>0, <1>4 DEF At, RunStatements, AfterUpdate
    <3> QED BY <3>2, <3>4, <3>6, <1>2 DEF dbVars, bootVars, TableTypes, BootTypes
  <2>15. CASE UpdateByRun(w)
    <3>1. wset[w] \in RunStatements /\ wthen[w] \in AfterUpdate /\ wjob[w] \in Jobs
      BY <2>15, <2>0, <1>5 DEF UpdateByRun, At, WorkerPending
    <3>2. Applied(rows[wjob[w]], wset[w]) \in Row
      BY <3>1, <2>0, <1>5, AppliedIsRow DEF RunStatements, Statements
    <3>3. TableTypes'
      BY <2>15, <3>1, <3>2 DEF UpdateByRun, TableTypes
    <3>4. /\ UNCHANGED <<taskVars, bootVars, rq, crashes>>
          /\ \E pc \in {wthen[w], "raise", "fail"} : wpc' = [wpc EXCEPT ![w] = pc]
          /\ wset' = [wset EXCEPT ![w] = "skip"]
          /\ wthen' = [wthen EXCEPT ![w] = "idle"]
      BY <2>15 DEF UpdateByRun, Go
    <3>5. WorkerTypes' /\ Holding' /\ WorkerPending' /\ InLoop'
      BY <3>1, <3>4, <1>2 DEF taskVars, WorkerTypes, Holding, WorkerPending, InLoop, AfterUpdate,
         RunPC, Statements
    <3> QED BY <3>3, <3>4, <3>5, <1>2 DEF bootVars, QueueTypes, BootTypes
  <2>16. CASE Finish(w) \/ Raise(w)
    <3>1. wjob[w] \in Jobs /\ rq[wjob[w]] \in Task /\ wleft[w] \in Nat
      BY <2>0, <1>5 DEF WorkerTypes
    <3>2. QueueTypes'
      BY <2>16, <3>1, TaskFacts DEF Finish, Raise, QueueTypes
    <3>3. Free(w) /\ wpc[w] # "update" /\ UNCHANGED <<dbVars, crashes, sqlVars, bootVars>>
      BY <2>16 DEF Finish, Raise, At
    <3>4. WorkerTypes' /\ Holding' /\ WorkerPending' /\ InLoop'
      BY <3>3, <1>2, <2>5 DEF Free, Go, sqlVars, WorkerTypes, Holding, WorkerPending, InLoop, RunPC
    <3> QED BY <3>2, <3>3, <3>4, <1>2 DEF dbVars, bootVars, TableTypes, BootTypes
  <2> QED BY <1>9, <2>6, <2>7, <2>8, <2>9, <2>10, <2>11, <2>12, <2>13, <2>14, <2>15, <2>16 DEF RunStep
<1> QED BY <1>6, <1>7, <1>8, <1>9 DEF Work

(* The shape is inductive: what any process of the system does keeps it. *)
LEMMA NextShape == Shape /\ [Next]_vars => Shape'
<1> SUFFICES ASSUME Shape, [Next]_vars PROVE Shape'
  OBVIOUS
<1>1. CASE Next
  BY <1>1, ClientShape, WorkerShape, EnvironmentShape DEF Next
<1>2. CASE UNCHANGED vars
  BY <1>2 DEF vars, dbVars, clientVars, workerVars, taskVars, sqlVars, bootVars, Shape, TypeOK,
     TableTypes, QueueTypes, ClientTypes, WorkerTypes, BootTypes, Holding, ClientPending,
     WorkerPending, InLoop
<1> QED BY <1>1, <1>2

(* Every reachable state is well typed, and every process that holds a row  *)
(* or a pending UPDATE holds it in a state where the code does.             *)
THEOREM ShapeAlways == Spec => []Shape
<1> QED BY InitShape, NextShape, PTL DEF Spec

(* Type correctness for any number of jobs, clients, workers and pipelines. *)
THEOREM TypesAlways == Spec => []TypeOK
<1>1. Shape => TypeOK
  BY DEF Shape
<1> QED BY <1>1, ShapeAlways, PTL

-----------------------------------------------------------------------------
(* Who writes a row, and what a write may do to it. *)

Process(c) == Request(c) \/ ClientStep(c) \/ ClientCrash(c)

(* The steps that can write the job table; every other one leaves each row *)
(* alone. *)
LEMMA RowWriters ==
  ASSUME Next
  PROVE  \/ UNCHANGED rows
         \/ \E c \in Clients : Enqueue(c) \/ UpdateByClient(c) \/
               \E k \in Keys : Create(c, k) \/ Supersede(c, k) \/ CreateDirect(c, k)
         \/ \E w \in Workers : MarkRetrying(w) \/ UpdateByRun(w) \/ Persist(w) \/ MarkAbandoned(w)
         \/ \E j \in Jobs : GoStale(j)
<1>1. ASSUME NEW c \in Clients, Process(c),
             ~Enqueue(c), ~UpdateByClient(c), \A k \in Keys : ~Create(c, k) /\ ~Supersede(c, k) /\ ~CreateDirect(c, k)
      PROVE  UNCHANGED rows
  BY <1>1 DEF Process, Request, ClientStep, ClientCrash, Attach, Conflict, LookUp, Cancel, Probe, EnqueueFails,
     Push, RecordEnqueueFailure, Unqueue, MarkCancel, ProbeOrphan, AbandonOrphan, Select, dbVars
<1>2. ASSUME NEW w \in Workers, Work(w) \/ WorkerCrash(w),
             ~MarkRetrying(w), ~UpdateByRun(w), ~Persist(w), ~MarkAbandoned(w)
      PROVE  UNCHANGED rows
  BY <1>2 DEF Work, Boot, RunStep, ReadQueues, ReadRegistries, SkipReconciliation, ReadRows, SelectRetrying,
     SelectAbandoned, Dequeue, Guard, Begin, NoKeys, Setup, Fetch, FetchBlocked, Snapshot, Segment, Run,
     Render, MarkDone, EmitDone, Abort, Refuse, RunRaises, Fail, PrepareRetry, Finish, Raise,
     WorkerCrash, NoWrite, RunFrame, dbVars
<1>3. ASSUME NEW j \in Jobs, RetryDue(j) \/ CleanRegistry(j) PROVE UNCHANGED rows
  BY <1>3 DEF RetryDue, CleanRegistry, dbVars
<1> QED BY <1>1, <1>2, <1>3 DEF Next, Process

(* What an UPDATE does to a row that exists: when it becomes active, settles *)
(* or is flagged.                                                           *)
LEMMA AppliedFacts ==
  ASSUME NEW r \in Row, NEW s \in Statements
  PROVE  /\ r.cancel => Applied(r, s).cancel
         /\ r.status # "absent" => Applied(r, s).status # "absent"
         /\ s \in {"error", "close", "flag", "abandon"} => ~Holds(Applied(r, s))
         /\ s = "skip" => Holds(Applied(r, s)) = Holds(r)
         /\ Applied(r, s).status = "cancelled" =>
               s \in {"close", "cancelled"} \/ (r.status = "cancelled" /\ s \in {"flag", "skip"})
         /\ s = "close" => Applied(r, s).cancel
         /\ Applied(r, s).status = "done" =>
               (s = "done" /\ Applied(r, s).filed) \/ (r.status = "done" /\ s \in {"flag", "skip"})
         /\ r.filed => Applied(r, s).filed
  BY DEF Applied, Row, Statements, Active, Terminal, Holds

(* The statement that a process is about to run on the row of a job. *)
Pending(j, s) ==
    \/ s = "close" /\ rows[j].status \in Active
    \/ \E c \in Clients : cpc[c] = "update" /\ cjob[c] = j /\ cset[c] = s
    \/ \E w \in Workers : wpc[w] = "requeued" /\ wjob[w] = j /\ s = "waiting_retry"
    \/ \E w \in Workers : wpc[w] = "update" /\ wjob[w] = j /\ wset[w] = s
    \/ \E w \in Workers : wpc[w] = "abandon" /\ j \in lost[w] /\ s = "abandon"

Kept(j)     == rows'[j].status = rows[j].status /\ rows'[j].cancel = rows[j].cancel
               /\ rows'[j].filed = rows[j].filed
Inserted(j) == rows[j].status = "absent" /\ rows'[j] = NewRow
Written(j)  == \E s \in Statements : Pending(j, s) /\ rows'[j] = Applied(rows[j], s)

(* A step changes a row only by a pending UPDATE, by inserting it, by       *)
(* superseding it, by the touch of append_event or by letting it grow stale. *)
LEMMA RowWrites ==
  ASSUME Shape, [Next]_vars, NEW j \in Jobs
  PROVE  Kept(j) \/ Inserted(j) \/ Written(j)
<1> USE DEF Shape, TypeOK
<1>1. rows \in [Jobs -> Row] /\ rows[j] \in Row
  BY DEF TableTypes
<1>2. CASE UNCHANGED rows
  BY <1>2 DEF Kept
<1>3. ASSUME NEW c \in Clients, NEW k \in Keys, Create(c, k) PROVE Kept(j) \/ Inserted(j)
  BY <1>1, <1>3 DEF Create, Kept, Inserted
<1>13. ASSUME NEW c \in Clients, NEW k \in Keys, CreateDirect(c, k) PROVE Kept(j) \/ Inserted(j)
  BY <1>1, <1>13, DirectAssumption DEF CreateDirect, Kept, Inserted
<1>4. ASSUME NEW c \in Clients, NEW k \in Keys, Supersede(c, k)
      PROVE  Kept(j) \/ Inserted(j) \/ Written(j)
  BY <1>1, <1>4 DEF Supersede, Kept, Inserted, Written, Pending, Statements, Indexed, Holds
<1>5. ASSUME NEW c \in Clients, Enqueue(c) PROVE Kept(j)
  <2>1. Touched(rows[j]).status = rows[j].status /\ Touched(rows[j]).cancel = rows[j].cancel
        /\ Touched(rows[j]).filed = rows[j].filed
    BY <1>1 DEF Touched, Row
  <2> QED BY <1>1, <2>1, <1>5 DEF Enqueue, Kept
<1>6. ASSUME NEW c \in Clients, UpdateByClient(c) PROVE Kept(j) \/ Written(j)
  <2>1. cset[c] \in Statements
    BY DEF ClientTypes
  <2> QED BY <1>1, <2>1, <1>6 DEF UpdateByClient, Kept, Written, Pending
<1>7. ASSUME NEW w \in Workers, MarkRetrying(w) PROVE Kept(j) \/ Written(j)
  BY <1>1, <1>7 DEF MarkRetrying, At, Kept, Written, Pending, Statements
<1>8. ASSUME NEW w \in Workers, UpdateByRun(w) PROVE Kept(j) \/ Written(j)
  <2>1. wset[w] \in Statements
    BY DEF WorkerTypes
  <2> QED BY <1>1, <2>1, <1>8 DEF UpdateByRun, At, Kept, Written, Pending
<1>9. ASSUME NEW w \in Workers, Persist(w) PROVE Kept(j)
  <2>1. Touched(rows[j]).status = rows[j].status /\ Touched(rows[j]).cancel = rows[j].cancel
        /\ Touched(rows[j]).filed = rows[j].filed
    BY <1>1 DEF Touched, Row
  <2> QED BY <1>1, <2>1, <1>9 DEF Persist, Kept
<1>10. ASSUME NEW w \in Workers, MarkAbandoned(w) PROVE Kept(j) \/ Written(j)
  BY <1>1, <1>10 DEF MarkAbandoned, At, Kept, Written, Pending, Statements
<1>11. ASSUME NEW i \in Jobs, GoStale(i) PROVE Kept(j)
  BY <1>1, <1>11 DEF GoStale, Kept, Row
<1>12. CASE UNCHANGED vars
  BY <1>12 DEF vars, dbVars, Kept
<1> QED BY <1>2, <1>3, <1>4, <1>5, <1>6, <1>7, <1>8, <1>9, <1>10, <1>11, <1>12, <1>13, RowWriters

-----------------------------------------------------------------------------
(* One active job per key. *)

(* A key with at most one unflagged active row has no more if none is added. *)
LEMMA FewerHolders ==
  ASSUME Unique(rows), \A j \in Jobs : Holds(rows'[j]) => Holds(rows[j])
  PROVE  Unique(rows')
  BY DEF Unique

(* create_or_attach, with the unique index it meets, is the only writer     *)
(* that could give a key a second active row, and it does not.              *)
LEMMA NextUnique ==
  ASSUME Shape, Unique(rows), [Next]_vars
  PROVE  Unique(rows')
<1> USE DEF Shape, TypeOK
<1>1. \A j \in Jobs : rows[j] \in Row
  BY DEF TableTypes
<1>2. \A j \in Jobs : Kept(j) => Holds(rows'[j]) = Holds(rows[j])
  BY DEF Kept, Holds
<1>3. CASE UNCHANGED rows
  BY <1>3
<1>4. ASSUME NEW c \in Clients, NEW k \in Keys, Create(c, k) \/ CreateDirect(c, k)
      PROVE  Unique(rows')
  <2>1. PICK j \in Jobs : KeyOf[j] = k /\ rows' = [rows EXCEPT ![j] = NewRow]
    BY <1>4, DirectAssumption DEF Create, CreateDirect
  <2>2. \A i \in Jobs : KeyOf[i] = k => ~Holds(rows[i])
    BY <1>4 DEF Create, CreateDirect, Indexed
  <2> QED BY <2>1, <2>2 DEF Unique, TableTypes
<1>5. ASSUME NEW c \in Clients, NEW k \in Keys, Supersede(c, k) PROVE Unique(rows')
  <2>1. PICK j \in Jobs :
           /\ KeyOf[j] = k
           /\ rows' = [i \in Jobs |-> IF i = j THEN NewRow
                                      ELSE IF i \in Indexed(rows, k) THEN Applied(rows[i], "close")
                                      ELSE rows[i]]
    BY <1>5 DEF Supersede
  <2>2. \A i \in Jobs : Holds(rows'[i]) => i = j \/ (KeyOf[i] # k /\ Holds(rows[i]))
    BY <1>1, <2>1, AppliedFacts DEF Indexed, Statements
  <2> QED BY <2>1, <2>2 DEF Unique
<1>6. ASSUME NEW c \in Clients, UpdateByClient(c) PROVE Unique(rows')
  <2>1. cset[c] \in {"error", "close", "flag", "abandon"}
    BY <1>6 DEF UpdateByClient, ClientPending
  <2>2. cset[c] \in Statements
    BY DEF ClientTypes
  <2>3. \A j \in Jobs : Holds(rows'[j]) => Holds(rows[j])
    BY <1>1, <1>6, <2>1, <2>2, AppliedFacts DEF UpdateByClient, TableTypes
  <2> QED BY <2>3, FewerHolders
<1>7. ASSUME NEW w \in Workers, MarkRetrying(w) \/ UpdateByRun(w) PROVE Unique(rows')
  BY <1>7 DEF MarkRetrying, UpdateByRun
<1>8. ASSUME NEW w \in Workers, MarkAbandoned(w) PROVE Unique(rows')
  <2>1. \A j \in Jobs : Holds(rows'[j]) => Holds(rows[j])
    BY <1>1, <1>8, AppliedFacts DEF MarkAbandoned, Statements
  <2> QED BY <2>1, FewerHolders
<1>9. ASSUME \/ \E c \in Clients : Enqueue(c)
             \/ \E w \in Workers : Persist(w)
             \/ \E j \in Jobs : GoStale(j)
      PROVE  Unique(rows')
  <2>1. \A r \in Row : Holds(Touched(r)) = Holds(r)
    BY DEF Touched, Row, Holds
  <2>2. \A j \in Jobs : Holds(rows'[j]) => Holds(rows[j])
    BY <1>1, <1>9, <2>1 DEF Enqueue, Persist, GoStale, TableTypes, Holds, Row
  <2> QED BY <2>2, FewerHolders
<1>10. CASE UNCHANGED vars
  BY <1>10 DEF vars, dbVars
<1> QED BY <1>3, <1>4, <1>5, <1>6, <1>7, <1>8, <1>9, <1>10, RowWriters

(* A (ticker, pipeline) never has two active jobs that nobody cancelled,    *)
(* whatever requests, retries, reconciliations and crashes come together.   *)
THEOREM OneActiveAlways == Spec => []OneActivePerKey
<1>1. Init => Unique(rows)
  BY DEF Init, Unique, Holds, NoRow, Active
<1>2. Unique(rows) => OneActivePerKey
  BY DEF OneActivePerKey
<1>3. Shape /\ Unique(rows) /\ [Next]_vars => Unique(rows)'
  BY NextUnique
<1> QED BY <1>1, <1>2, <1>3, ShapeAlways, PTL DEF Spec

-----------------------------------------------------------------------------
(* Cancels. *)

(* Whoever is about to write a row writes one that exists. *)
Existing ==
    /\ \A j \in Jobs : rows[j].status = "absent" => ~rows[j].cancel
    /\ \A c \in Clients : cpc[c] = "update" => rows[cjob[c]].status # "absent"
    /\ \A w \in Workers : wpc[w] \in {"update", "requeued"} => rows[wjob[w]].status # "absent"
    /\ \A w \in Workers : \A j \in lost[w] : rows[j].status # "absent"

(* Rows stay in the table, and a cancel flag stays set. *)
LEMMA NextRows ==
  ASSUME Shape, Existing, [Next]_vars, NEW j \in Jobs
  PROVE  /\ rows[j].status # "absent" => rows'[j].status # "absent"
         /\ rows[j].cancel => rows'[j].cancel
<1>1. rows[j] \in Row
  BY DEF Shape, TypeOK, TableTypes
<1> QED BY <1>1, RowWrites, AppliedFacts DEF Existing, Kept, Inserted, Written

(* A step is a step of one process: the others stay where they are. *)
ClientStays(c) == UNCHANGED <<cpc[c], cjob[c], cnew[c], cset[c]>>
WorkerStays(w) == UNCHANGED <<wpc[w], wjob[w], wseg[w], wset[w], wthen[w], lost[w]>>

(* What a worker does leaves the locals of the other workers alone. *)
LEMMA WorkersApart ==
  ASSUME Shape, NEW w \in Workers, Work(w) \/ WorkerCrash(w), NEW v \in Workers \ {w}
  PROVE  WorkerStays(v)
<1> USE DEF Shape, TypeOK
<1>1. CASE Boot(w)
  BY <1>1 DEF Boot, ReadQueues, ReadRegistries, SkipReconciliation, ReadRows, SelectRetrying, MarkRetrying,
     SelectAbandoned, MarkAbandoned, Go, taskVars, sqlVars, WorkerTypes, BootTypes, WorkerStays
<1>2. ASSUME NEW pc, Go(w, pc), UNCHANGED <<taskVars, sqlVars, lost>> PROVE WorkerStays(v)
  BY <1>2 DEF Go, taskVars, sqlVars, WorkerTypes, WorkerStays
<1>3. ASSUME NEW s, NEW next, UpdateTo(w, s, next), UNCHANGED <<wjob, wseg, lost>> PROVE WorkerStays(v)
  BY <1>3 DEF UpdateTo, Go, sqlVars, WorkerTypes, WorkerStays
<1>4. CASE Guard(w) \/ Setup(w) \/ Fetch(w) \/ RunRaises(w) \/ Segment(w) \/ Render(w) \/ EmitDone(w)
  BY <1>2, <1>4 DEF Guard, Setup, Fetch, RunRaises, Segment, Render, EmitDone, Checkpoint, NoWrite, bootVars
<1>5. CASE Begin(w) \/ NoKeys(w) \/ FetchBlocked(w) \/ Snapshot(w) \/ MarkDone(w) \/ Abort(w) \/ Fail(w)
           \/ Run(w) \/ Refuse(w)
  BY <1>2, <1>3, <1>5 DEF Begin, NoKeys, FetchBlocked, Snapshot, MarkDone, Abort, Fail, Run, Refuse, NoWrite,
     RunFrame, taskVars, bootVars
<1>6. CASE PrepareRetry(w)
  BY <1>3, <1>6 DEF PrepareRetry, bootVars
<1>7. CASE Persist(w) \/ UpdateByRun(w) \/ Finish(w) \/ Raise(w) \/ WorkerCrash(w)
  BY <1>7 DEF Persist, UpdateByRun, Finish, Raise, WorkerCrash, Free, Go, taskVars, sqlVars, bootVars,
     WorkerTypes, BootTypes, WorkerStays
<1>8. ASSUME NEW j \in Jobs, Dequeue(w, j) PROVE WorkerStays(v)
  BY <1>8 DEF Dequeue, Go, sqlVars, bootVars, WorkerTypes, WorkerStays
<1> QED BY <1>1, <1>4, <1>5, <1>6, <1>7, <1>8 DEF Work, RunStep

(* The step of one process leaves the locals of the others alone. *)
LEMMA Stays ==
  ASSUME Shape, [Next]_vars
  PROVE  /\ \A c \in Clients : ClientStays(c) \/ Process(c)
         /\ \A w \in Workers : WorkerStays(w) \/ Work(w) \/ WorkerCrash(w)
<1> USE DEF Shape, TypeOK
<1>1. CASE UNCHANGED vars
  BY <1>1 DEF vars, clientVars, workerVars, taskVars, sqlVars, bootVars, ClientStays, WorkerStays
<1>2. ASSUME NEW j \in Jobs, RetryDue(j) \/ CleanRegistry(j) \/ GoStale(j)
      PROVE  (\A c \in Clients : ClientStays(c)) /\ (\A w \in Workers : WorkerStays(w))
  BY <1>2 DEF RetryDue, CleanRegistry, GoStale, clientVars, workerVars, taskVars, sqlVars, bootVars,
     ClientStays, WorkerStays
<1>3. ASSUME NEW c \in Clients, Process(c)
      PROVE  (\A d \in Clients \ {c} : ClientStays(d)) /\ (\A w \in Workers : WorkerStays(w))
  <2>1. workerVars' = workerVars
    BY <1>3, Zenon DEF Process, Request, ClientStep, Attach, Create, CreateDirect, Supersede, Conflict, LookUp, Cancel, Probe,
       Enqueue, EnqueueFails, Push, RecordEnqueueFailure, Unqueue, MarkCancel, ProbeOrphan, AbandonOrphan,
       UpdateByClient, ClientCrash, Select
  <2>2. ASSUME NEW d \in Clients \ {c} PROVE ClientStays(d)
    <3>1. ASSUME NEW pc, NEW j, NEW new, Ask(c, pc, j, new) PROVE ClientStays(d)
      BY <3>1 DEF Ask, ClientStays, ClientTypes
    <3>2. ASSUME NEW s, Select(c, s) PROVE ClientStays(d)
      BY <3>1, <3>2 DEF Select, Done, ClientStays, ClientTypes
    <3>3. CASE Request(c)
      BY <3>1, <3>3 DEF Request, Attach, Create, CreateDirect, Supersede, Conflict, LookUp, Cancel, Done, clientVars,
         ClientStays
    <3>4. CASE ClientStep(c) \/ ClientCrash(c)
      BY <3>1, <3>2, <3>4 DEF ClientStep, ClientCrash, Probe, Enqueue, EnqueueFails, Push, RecordEnqueueFailure, Unqueue,
         MarkCancel, ProbeOrphan, AbandonOrphan, UpdateByClient, Done
    <3> QED BY <1>3, <3>3, <3>4 DEF Process
  <2> QED BY <2>1, <2>2 DEF workerVars, taskVars, sqlVars, bootVars, WorkerStays
<1>4. ASSUME NEW w \in Workers, Work(w) \/ WorkerCrash(w)
      PROVE  (\A c \in Clients : ClientStays(c)) /\ (\A v \in Workers \ {w} : WorkerStays(v))
  <2>1. clientVars' = clientVars
    BY <1>4, Zenon DEF Work, Boot, RunStep, ReadQueues, ReadRegistries, SkipReconciliation, ReadRows, SelectRetrying,
       MarkRetrying, SelectAbandoned, MarkAbandoned, Dequeue, Guard, Begin, NoKeys, Setup, Fetch,
       FetchBlocked, Snapshot, Segment, Run, Render, Persist, MarkDone, EmitDone, Abort, Refuse,
       RunRaises, Fail, PrepareRetry, UpdateByRun, Finish, Raise, WorkerCrash, NoWrite, RunFrame
  <2> QED BY <1>4, <2>1, WorkersApart DEF clientVars, ClientStays
<1> QED BY <1>1, <1>2, <1>3, <1>4 DEF Next, Process

(* Nobody is ever about to update a row that is not there. *)
LEMMA NextExisting ==
  ASSUME Shape, Existing, [Next]_vars
  PROVE  Existing'
<1> USE DEF Shape, TypeOK
<1>1. \A j \in Jobs : rows'[j].status = "absent" => ~rows'[j].cancel
  <2> TAKE j \in Jobs
  <2>1. rows[j] \in Row
    BY DEF TableTypes
  <2>2. CASE Kept(j)
    BY <2>2 DEF Kept, Existing
  <2>3. CASE Inserted(j)
    BY <2>3 DEF Inserted, NewRow
  <2>4. CASE Written(j)
    <3>1. PICK s \in Statements : Pending(j, s) /\ rows'[j] = Applied(rows[j], s)
      BY <2>4 DEF Written
    <3>2. rows[j].status # "absent"
      BY <3>1 DEF Pending, Existing, Active
    <3> QED BY <2>1, <3>1, <3>2, AppliedFacts
  <2> QED BY <2>2, <2>3, <2>4, RowWrites
<1>2. ASSUME NEW c \in Clients, cpc'[c] = "update" PROVE rows'[cjob'[c]].status # "absent"
  <2>1. cjob[c] \in Jobs => (rows[cjob[c]].status # "absent" => rows'[cjob[c]].status # "absent")
    BY NextRows
  <2>2. CASE ClientStays(c)
    BY <1>2, <2>1, <2>2 DEF ClientStays, Existing, Holding
  <2>3. CASE Process(c)
    <3>1. ASSUME NEW pc, NEW j, NEW new, pc # "update", Ask(c, pc, j, new) PROVE FALSE
      BY <1>2, <3>1 DEF Ask, ClientTypes
    <3>2. ASSUME NEW s, Select(c, s), s # "skip" => rows[cjob[c]].status # "absent", cpc[c] # "idle"
          PROVE  rows'[cjob'[c]].status # "absent"
      BY <3>1, <3>2, <2>1 DEF Select, Done, Holding
    <3>3. CASE Request(c)
      BY <1>2, <2>1, <3>1, <3>3 DEF Request, Attach, Create, CreateDirect, Supersede, Conflict, LookUp, Cancel, Done, clientVars
    <3>4. CASE RecordEnqueueFailure(c) \/ MarkCancel(c) \/ AbandonOrphan(c)
      BY <3>2, <3>4 DEF RecordEnqueueFailure, MarkCancel, AbandonOrphan, UpdateChoice, CancelChoice,
         AbandonChoice, Active
    <3>5. CASE Probe(c) \/ Enqueue(c) \/ EnqueueFails(c) \/ Push(c) \/ Unqueue(c) \/ ProbeOrphan(c)
               \/ UpdateByClient(c) \/ ClientCrash(c)
      BY <3>1, <3>5 DEF Probe, Enqueue, EnqueueFails, Push, Unqueue, ProbeOrphan, UpdateByClient, ClientCrash,
         Done
    <3> QED BY <2>3, <3>3, <3>4, <3>5 DEF Process, ClientStep
  <2> QED BY <2>2, <2>3, Stays
<1>3. ASSUME NEW w \in Workers, wpc'[w] \in {"update", "requeued"}
      PROVE  rows'[wjob'[w]].status # "absent"
  <2>1. wjob[w] \in Jobs => (rows[wjob[w]].status # "absent" => rows'[wjob[w]].status # "absent")
    BY NextRows
  <2>2. CASE WorkerStays(w)
    BY <1>3, <2>1, <2>2 DEF WorkerStays, Existing, Holding, RunPC
  <2>3. ASSUME NEW pc, Go(w, pc) PROVE pc \in {"update", "requeued"}
    BY <1>3, <2>3 DEF Go, WorkerTypes
  <2>4. ASSUME NEW s, NEW next \in AfterUpdate, UpdateTo(w, s, next), UNCHANGED wjob, wjob[w] \in Jobs
        PROVE  rows'[wjob'[w]].status # "absent"
    BY <2>1, <2>3, <2>4 DEF UpdateTo, UpdateChoice, MyRow, AfterUpdate
  <2>5. CASE Boot(w)
    <3>1. CASE SelectRetrying(w)
      <4>1. PICK j \in back[w] :
               IF UpdateChoice(rows[j], "waiting_retry") = "skip"
               THEN UNCHANGED <<wpc, wjob>>
               ELSE Go(w, "requeued") /\ wjob' = [wjob EXCEPT ![w] = j]
        BY <3>1 DEF SelectRetrying
      <4>2. j \in Jobs /\ wpc[w] = "retrying" /\ UNCHANGED rows
        BY <3>1 DEF BootTypes, SelectRetrying, At, dbVars
      <4>3. wjob'[w] = j /\ UpdateChoice(rows[j], "waiting_retry") # "skip"
        BY <1>3, <4>1, <4>2 DEF WorkerTypes
      <4> QED BY <4>2, <4>3 DEF UpdateChoice
    <3>2. CASE ~SelectRetrying(w)
      BY <2>3, <2>5, <3>2 DEF Boot, ReadQueues, ReadRegistries, SkipReconciliation, ReadRows, MarkRetrying,
         SelectAbandoned, MarkAbandoned
    <3> QED BY <3>1, <3>2
  <2>6. ASSUME NEW j \in Jobs, Dequeue(w, j) PROVE rows'[wjob'[w]].status # "absent"
    BY <1>3, <2>3, <2>6 DEF Dequeue, At
  <2>7. CASE WorkerCrash(w)
    BY <2>3, <2>7 DEF WorkerCrash
  <2>8. CASE RunStep(w)
    <3>1. CASE Guard(w) \/ Setup(w) \/ Fetch(w) \/ RunRaises(w) \/ Segment(w) \/ Render(w) \/ EmitDone(w)
               \/ Persist(w) \/ Finish(w) \/ Raise(w)
      BY <2>3, <3>1 DEF Guard, Setup, Fetch, RunRaises, Segment, Render, EmitDone, Persist, Finish, Raise,
         Free, Checkpoint
    <3>2. CASE Begin(w) \/ NoKeys(w) \/ FetchBlocked(w) \/ Snapshot(w) \/ MarkDone(w) \/ Abort(w) \/ Fail(w)
               \/ Run(w) \/ Refuse(w) \/ PrepareRetry(w)
      <4>1. wjob[w] \in Jobs
        BY <3>2 DEF Begin, NoKeys, FetchBlocked, Snapshot, MarkDone, Abort, Fail, Run, Refuse, PrepareRetry,
           At, Holding, RunPC
      <4>2. UNCHANGED wjob
        BY <3>2 DEF Begin, NoKeys, FetchBlocked, Snapshot, MarkDone, Abort, Fail, Run, Refuse, PrepareRetry,
           RunFrame, NoWrite, taskVars
      <4> QED BY <2>3, <2>4, <3>2, <4>1, <4>2 DEF Begin, NoKeys, FetchBlocked, Snapshot, MarkDone, Abort, Fail, Run,
              Refuse, PrepareRetry, AfterUpdate
    <3>3. CASE UpdateByRun(w)
      <4>1. wthen[w] \in AfterUpdate
        BY <3>3 DEF UpdateByRun, At, WorkerPending
      <4> QED BY <2>3, <3>3, <4>1 DEF UpdateByRun, AfterUpdate
    <3> QED BY <2>8, <3>1, <3>2, <3>3 DEF RunStep
  <2> QED BY <2>2, <2>5, <2>6, <2>7, <2>8, Stays DEF Work
<1>4. ASSUME NEW w \in Workers, NEW j \in lost'[w] PROVE rows'[j].status # "absent"
  <2>1. j \in Jobs => (rows[j].status # "absent" => rows'[j].status # "absent")
    BY NextRows
  <2>2. CASE j \in lost[w]
    BY <2>1, <2>2 DEF Existing, BootTypes
  <2>3. CASE j \notin lost[w]
    <3>1. ReadRows(w)
      <4>1. ~WorkerStays(w) /\ ~RunStep(w) /\ ~WorkerCrash(w) /\ \A i \in Jobs : ~Dequeue(w, i)
        BY <1>4, <2>3 DEF WorkerStays, WorkerCrash, Dequeue, RunStep, Guard, Begin, NoKeys, Setup, Fetch,
           FetchBlocked, Snapshot, Segment, Run, Render, Persist, MarkDone, EmitDone, Abort, Refuse,
           RunRaises, Fail, PrepareRetry, UpdateByRun, Finish, Raise, NoWrite, RunFrame, bootVars, BootTypes
      <4> QED BY <1>4, <2>3, <4>1, Stays DEF Work, Boot, ReadQueues, ReadRegistries, SkipReconciliation,
              SelectRetrying, MarkRetrying, SelectAbandoned, MarkAbandoned, BootTypes
    <3> QED BY <1>4, <2>1, <2>3, <3>1 DEF ReadRows, BootTypes, Active
  <2> QED BY <2>2, <2>3
<1> QED BY <1>1, <1>2, <1>3, <1>4 DEF Existing

(* A run that is aborting, or about to store "cancelled", saw the flag. *)
Requested ==
    /\ CancelledWasRequested
    /\ \A w \in Workers : wpc[w] = "abort" \/ wset[w] = "cancelled" => rows[wjob[w]].cancel

(* The status cancelled is only ever written over, or with, a set flag. *)
LEMMA NextRequested ==
  ASSUME Shape, Existing, Requested, [Next]_vars
  PROVE  Requested'
<1> USE DEF Shape, TypeOK
<1>1. \A j \in Jobs : rows'[j].status = "cancelled" => rows'[j].cancel
  <2> TAKE j \in Jobs
  <2>1. rows[j] \in Row
    BY DEF TableTypes
  <2>2. CASE Kept(j)
    BY <2>2 DEF Kept, Requested, CancelledWasRequested
  <2>3. CASE Inserted(j)
    BY <2>3 DEF Inserted, NewRow
  <2>4. CASE Written(j)
    <3>1. PICK s \in Statements : Pending(j, s) /\ rows'[j] = Applied(rows[j], s)
      BY <2>4 DEF Written
    <3>2. s = "cancelled" => rows[j].cancel
      BY <3>1 DEF Pending, Requested, ClientPending
    <3> QED BY <2>1, <3>1, <3>2, AppliedFacts DEF Requested, CancelledWasRequested
  <2> QED BY <2>2, <2>3, <2>4, RowWrites
<1>2. ASSUME NEW w \in Workers, wpc'[w] = "abort" \/ wset'[w] = "cancelled"
      PROVE  rows'[wjob'[w]].cancel
  <2>1. wjob[w] \in Jobs => (rows[wjob[w]].cancel => rows'[wjob[w]].cancel)
    BY NextRows
  <2>2. CASE WorkerStays(w)
    BY <1>2, <2>1, <2>2 DEF WorkerStays, Requested, Holding, RunPC, WorkerPending
  <2>3. ASSUME NEW pc, Go(w, pc), pc # "abort", UNCHANGED wset \/ wset'[w] = "skip", wpc[w] # "update"
        PROVE  FALSE
    BY <1>2, <2>3 DEF Go, WorkerTypes, WorkerPending
  <2>4. ASSUME NEW next \in AfterUpdate, NEW s, s = "cancelled" => rows[wjob[w]].cancel,
               UpdateTo(w, s, next), UNCHANGED wjob, wjob[w] \in Jobs, wpc[w] # "update"
        PROVE  rows'[wjob'[w]].cancel
    <3>1. CASE UpdateChoice(MyRow(w), s) = "skip"
      BY <2>3, <2>4, <3>1 DEF UpdateTo, AfterUpdate, sqlVars
    <3>2. CASE UpdateChoice(MyRow(w), s) # "skip"
      <4>1. UpdateChoice(MyRow(w), s) = "cancelled"
        BY <1>2, <2>4, <3>2 DEF UpdateTo, Go, WorkerTypes
      <4> QED BY <2>1, <2>4, <4>1 DEF UpdateChoice, MyRow
    <3> QED BY <3>1, <3>2
  <2>5. CASE Boot(w)
    BY <1>2, <2>5 DEF Boot, ReadQueues, ReadRegistries, SkipReconciliation, ReadRows, SelectRetrying, MarkRetrying,
       SelectAbandoned, MarkAbandoned, At, Go, sqlVars, WorkerTypes, WorkerPending
  <2>6. ASSUME NEW j \in Jobs, Dequeue(w, j) PROVE FALSE
    BY <1>2, <2>6 DEF Dequeue, At, Go, sqlVars, WorkerTypes, WorkerPending
  <2>7. CASE WorkerCrash(w)
    BY <1>2, <2>7 DEF WorkerCrash, Go, WorkerTypes
  <2>8. CASE RunStep(w)
    <3>0. wpc[w] \in RunPC /\ wjob[w] \in Jobs
      <4>1. wpc[w] \in RunPC
        BY <2>8 DEF RunStep, At, RunPC, Guard, Begin, NoKeys, Setup, Fetch, FetchBlocked, Snapshot, Segment,
           Run, Render, Persist, MarkDone, EmitDone, Abort, Refuse, RunRaises, Fail, PrepareRetry,
           UpdateByRun, Finish, Raise
      <4> QED BY <4>1 DEF Holding
    <3>1. ASSUME NEW pc, pc # "abort", Checkpoint(w, pc), UNCHANGED <<wset, wjob>>, wpc[w] # "update"
          PROVE  rows'[wjob'[w]].cancel
      BY <2>1, <2>3, <3>0, <3>1 DEF Checkpoint, MyRow
    <3>2. CASE Guard(w) \/ RunRaises(w) \/ EmitDone(w) \/ Persist(w) \/ Finish(w) \/ Raise(w)
      BY <2>3, <3>2 DEF Guard, RunRaises, EmitDone, Persist, Finish, Raise, Free, At, NoWrite, sqlVars
    <3>3. CASE Setup(w) \/ Fetch(w) \/ Segment(w) \/ Render(w)
      BY <2>3, <3>1, <3>3 DEF Setup, Fetch, Segment, Render, At, NoWrite, taskVars, sqlVars
    <3>4. CASE Begin(w) \/ NoKeys(w) \/ FetchBlocked(w) \/ Snapshot(w) \/ MarkDone(w) \/ Fail(w)
               \/ Refuse(w) \/ PrepareRetry(w)
      <4>1. UNCHANGED wjob /\ wpc[w] # "update"
        BY <3>4 DEF Begin, NoKeys, FetchBlocked, Snapshot, MarkDone, Fail, Refuse, PrepareRetry,
           RunFrame, NoWrite, taskVars, At
      <4> QED BY <2>3, <2>4, <3>0, <3>4, <4>1 DEF Begin, NoKeys, FetchBlocked, Snapshot, MarkDone, Fail,
              Refuse, PrepareRetry, AfterUpdate, NoWrite, sqlVars
    <3>5. CASE Abort(w)
      BY <2>4, <3>0, <3>5 DEF Abort, At, RunFrame, taskVars, AfterUpdate, Requested
    <3>6. CASE Run(w)
      <4>1. CASE MyRow(w).cancel
        BY <2>1, <3>0, <3>6, <4>1 DEF Run, RunFrame, taskVars, MyRow
      <4>2. CASE ~MyRow(w).cancel
        BY <2>4, <3>0, <3>6, <4>2 DEF Run, At, RunFrame, taskVars, AfterUpdate
      <4> QED BY <4>1, <4>2
    <3>7. CASE UpdateByRun(w)
      <4>1. wthen[w] \in AfterUpdate
        BY <3>7 DEF UpdateByRun, At, WorkerPending
      <4> QED BY <1>2, <3>7, <4>1 DEF UpdateByRun, AfterUpdate, Go, WorkerTypes
    <3> QED BY <2>8, <3>2, <3>3, <3>4, <3>5, <3>6, <3>7 DEF RunStep
  <2> QED BY <2>2, <2>5, <2>6, <2>7, <2>8, Stays DEF Work
<1> QED BY <1>1, <1>2 DEF Requested, CancelledWasRequested

(* The two facts hold at the start: there is no row and nobody is running. *)
LEMMA InitRequested == Init => Existing /\ Requested
  BY DEF Init, Existing, Requested, CancelledWasRequested, NoRow

(* A job ends "cancelled" only if somebody asked for it, however cancels,   *)
(* supersessions, abandonments and late UPDATEs of the run interleave.      *)
THEOREM CancelledWasRequestedAlways == Spec => []CancelledWasRequested
<1>1. Shape /\ Existing /\ Requested /\ [Next]_vars => (Existing /\ Requested)'
  BY NextExisting, NextRequested
<1>2. Requested => CancelledWasRequested
  BY DEF Requested
<1> QED BY <1>1, <1>2, InitRequested, ShapeAlways, PTL DEF Spec

-----------------------------------------------------------------------------
(* Reports. *)

(* A run has published what its loop counter says. *)
Published ==
    \A w \in Workers :
       /\ wpc[w] \in RunPC => 1..(wseg[w] - 1) \subseteq reports[wjob[w]]
       /\ wpc[w] \notin RunPC => wseg[w] = 1
       /\ wpc[w] = "done" => wseg[w] = LastSegment + 1
       /\ wset[w] = "done" => reports[wjob[w]] = Segments

(* render_and_persist_report only ever adds reports. *)
LEMMA ReportsGrow ==
  ASSUME Shape, [Next]_vars
  PROVE  /\ \A j \in Jobs : reports[j] \subseteq reports'[j]
         /\ \A j \in Jobs : reports'[j] # reports[j] =>
               \E w \in Workers : Persist(w) /\ wjob[w] = j /\ reports'[j] = reports[j] \cup {wseg[w]}
<1> USE DEF Shape, TypeOK
<1>1. CASE UNCHANGED reports
  BY <1>1
<1>2. ASSUME NEW w \in Workers, Persist(w)
      PROVE  \A j \in Jobs : /\ reports[j] \subseteq reports'[j]
                             /\ reports'[j] # reports[j] =>
                                   wjob[w] = j /\ reports'[j] = reports[j] \cup {wseg[w]}
  BY <1>2 DEF Persist, TableTypes
<1>3. ASSUME NEW c \in Clients, Process(c) PROVE UNCHANGED reports
  BY <1>3 DEF Process, Request, ClientStep, ClientCrash, Attach, Create, CreateDirect, Supersede, Conflict, LookUp, Cancel, Probe,
     Enqueue, EnqueueFails, Push, RecordEnqueueFailure, Unqueue, MarkCancel, ProbeOrphan, AbandonOrphan,
     UpdateByClient, Select, dbVars
<1>4. ASSUME NEW w \in Workers, Work(w) \/ WorkerCrash(w), ~Persist(w) PROVE UNCHANGED reports
  BY <1>4 DEF Work, Boot, RunStep, ReadQueues, ReadRegistries, SkipReconciliation, ReadRows, SelectRetrying,
     MarkRetrying, SelectAbandoned, MarkAbandoned, Dequeue, Guard, Begin, NoKeys, Setup, Fetch,
     FetchBlocked, Snapshot, Segment, Run, Render, MarkDone, EmitDone, Abort, Refuse, RunRaises, Fail,
     PrepareRetry, UpdateByRun, Finish, Raise, WorkerCrash, NoWrite, RunFrame, dbVars
<1>5. ASSUME NEW j \in Jobs, RetryDue(j) \/ CleanRegistry(j) \/ GoStale(j) PROVE UNCHANGED reports
  BY <1>5 DEF RetryDue, CleanRegistry, GoStale, dbVars
<1>6. CASE UNCHANGED vars
  BY <1>6 DEF vars, dbVars
<1> QED BY <1>1, <1>2, <1>3, <1>4, <1>5, <1>6 DEF Next, Process

(* The loop of run_stock_analysis_job never gets ahead of its reports. *)
LEMMA NextPublished ==
  ASSUME Shape, Published, [Next]_vars
  PROVE  Published'
<1> USE SegmentAssumption DEF Shape, TypeOK
<1> SUFFICES ASSUME NEW w \in Workers
             PROVE  /\ wpc'[w] \in RunPC => 1..(wseg'[w] - 1) \subseteq reports'[wjob'[w]]
                    /\ wpc'[w] \notin RunPC => wseg'[w] = 1
                    /\ wpc'[w] = "done" => wseg'[w] = LastSegment + 1
                    /\ wset'[w] = "done" => reports'[wjob'[w]] = Segments
  BY DEF Published
<1>1. /\ \A j \in Jobs : reports[j] \subseteq reports'[j]
      /\ reports \in [Jobs -> SUBSET Segments] /\ reports' \in [Jobs -> SUBSET Segments]
      /\ wseg[w] \in 1..LastSegment + 1
      /\ wpc[w] \in RunPC => wjob[w] \in Jobs
      /\ wpc[w] # "update" => wset[w] = "skip"
  BY ReportsGrow, NextShape DEF TableTypes, WorkerTypes, Holding, WorkerPending
<1>2. wpc[w] \in RunPC => 1..(wseg[w] - 1) \subseteq reports'[wjob[w]]
  BY <1>1 DEF Published
<1>3. wset[w] = "done" => reports'[wjob[w]] = Segments
  <2>1. wset[w] = "done" => wjob[w] \in Jobs
    BY <1>1 DEF RunPC
  <2>2. \A j \in Jobs : reports[j] = Segments => reports'[j] = Segments
    BY <1>1, Zenon
  <2> QED BY <2>1, <2>2 DEF Published
<1>4. CASE WorkerStays(w)
  BY <1>2, <1>3, <1>4 DEF WorkerStays, Published
<1> DEFINE Goal == /\ wpc'[w] \in RunPC => 1..(wseg'[w] - 1) \subseteq reports'[wjob'[w]]
                   /\ wpc'[w] \notin RunPC => wseg'[w] = 1
                   /\ wpc'[w] = "done" => wseg'[w] = LastSegment + 1
                   /\ wset'[w] = "done" => reports'[wjob'[w]] = Segments
<1>5. ASSUME NEW pc \in RunPC, Go(w, pc), UNCHANGED <<wjob, wseg>>, wset'[w] \in {wset[w], "skip"},
             wpc[w] \in RunPC, pc = "done" => wseg[w] = LastSegment + 1
      PROVE  Goal
  <2>1. wpc'[w] = pc
    BY <1>5 DEF Go, WorkerTypes
  <2> QED BY <1>2, <1>3, <1>5, <2>1
<1>6. ASSUME wpc'[w] \notin RunPC, wset'[w] = "skip", wseg'[w] = 1 PROVE Goal
  BY <1>6 DEF RunPC
<1>7. CASE Boot(w)
  <2>1. wpc'[w] \notin RunPC /\ wset'[w] = "skip" /\ wpc[w] \notin RunPC /\ wseg' = wseg
    BY <1>1, <1>7 DEF Boot, taskVars, ReadQueues, ReadRegistries, SkipReconciliation, ReadRows, SelectRetrying, MarkRetrying,
       SelectAbandoned, MarkAbandoned, At, Go, sqlVars, WorkerTypes, RunPC
  <2> QED BY <1>6, <2>1 DEF Published
<1>8. ASSUME NEW j \in Jobs, Dequeue(w, j) PROVE Goal
  <2>1. wpc[w] = "idle" /\ wset'[w] = "skip" /\ wseg' = wseg
    BY <1>1, <1>8 DEF Dequeue, At, sqlVars
  <2>2. wseg[w] = 1
    BY <2>1 DEF Published, RunPC
  <2>3. wpc'[w] # "done"
    BY <1>8, <2>1 DEF Dequeue, Go, WorkerTypes
  <2>4. 1..(1 - 1) = {}
    OBVIOUS
  <2> QED BY <2>1, <2>2, <2>3, <2>4
<1>9. CASE WorkerCrash(w)
  <2>1. wpc'[w] \notin RunPC /\ wset'[w] = "skip" /\ wseg'[w] = 1
    BY <1>9 DEF WorkerCrash, Go, WorkerTypes, RunPC
  <2> QED BY <1>6, <2>1
<1>10. CASE RunStep(w)
  <2>0. wpc[w] \in RunPC
    BY <1>10 DEF RunStep, At, RunPC, Guard, Begin, NoKeys, Setup, Fetch, FetchBlocked, Snapshot, Segment,
       Run, Render, Persist, MarkDone, EmitDone, Abort, Refuse, RunRaises, Fail, PrepareRetry,
       UpdateByRun, Finish, Raise
  <2>1. CASE Guard(w) \/ Setup(w) \/ Fetch(w) \/ RunRaises(w) \/ Render(w) \/ EmitDone(w)
    BY <1>5, <2>0, <2>1 DEF Guard, Setup, Fetch, RunRaises, Render, EmitDone, Checkpoint, NoWrite, taskVars, sqlVars, RunPC
  <2>2. CASE Segment(w)
    BY <1>1, <1>5, <2>0, <2>2 DEF Segment, Checkpoint, NoWrite, taskVars, sqlVars, RunPC
  <2>3. ASSUME NEW s, NEW next \in AfterUpdate, UpdateTo(w, s, next), UNCHANGED <<wjob, wseg>>,
               s = "done" => wpc[w] = "done"
        PROVE  Goal
    <3>1. CASE UpdateChoice(MyRow(w), s) = "skip"
      BY <1>5, <2>0, <2>3, <3>1 DEF UpdateTo, AfterUpdate, sqlVars, RunPC
    <3>2. CASE UpdateChoice(MyRow(w), s) # "skip"
      <4>1. wpc'[w] = "update" /\ wset'[w] = UpdateChoice(MyRow(w), s)
        BY <2>3, <3>2 DEF UpdateTo, Go, WorkerTypes
      <4>2. UpdateChoice(MyRow(w), s) = "done" => s = "done"
        BY DEF UpdateChoice
      <4>3. wpc[w] = "done" => reports'[wjob[w]] = Segments
        <5>1. wpc[w] = "done" => 1..LastSegment \subseteq reports'[wjob[w]]
          BY <1>1, <1>2, <2>0 DEF Published
        <5> QED BY <1>1, <2>0, <5>1 DEF Segments
      <4> QED BY <1>2, <2>0, <2>3, <4>1, <4>2, <4>3 DEF RunPC
    <3> QED BY <3>1, <3>2
  <2>4. CASE Begin(w) \/ NoKeys(w) \/ FetchBlocked(w) \/ Snapshot(w) \/ MarkDone(w) \/ Abort(w) \/ Fail(w)
             \/ PrepareRetry(w)
    BY <2>3, <2>4 DEF Begin, NoKeys, FetchBlocked, Snapshot, MarkDone, Abort, Fail, PrepareRetry, At, RunFrame,
       taskVars, AfterUpdate
  <2>5. CASE Run(w) \/ Refuse(w)
    BY <1>5, <2>0, <2>3, <2>5 DEF Run, Refuse, RunFrame, NoWrite, taskVars, sqlVars, AfterUpdate, RunPC
  <2>6. CASE UpdateByRun(w)
    <3>1. wthen[w] \in AfterUpdate
      BY <2>6 DEF UpdateByRun, At, WorkerPending
    <3> QED BY <1>5, <2>0, <2>6, <3>1 DEF UpdateByRun, taskVars, WorkerTypes, AfterUpdate, RunPC
  <2>7. CASE Persist(w)
    <3>1. /\ wseg'[w] = wseg[w] + 1 /\ wjob'[w] = wjob[w] /\ wset'[w] = "skip" /\ wpc'[w] = "segment"
          /\ reports'[wjob[w]] = reports[wjob[w]] \cup {wseg[w]}
      BY <1>1, <2>0, <2>7 DEF Persist, At, Go, sqlVars, WorkerTypes
    <3>2. 1..(wseg[w] - 1) \subseteq reports[wjob[w]]
      BY <2>0 DEF Published
    <3>3. 1..(wseg[w] + 1 - 1) = 1..(wseg[w] - 1) \cup {wseg[w]}
      BY <1>1
    <3> QED BY <3>1, <3>2, <3>3 DEF RunPC
  <2>8. CASE Finish(w) \/ Raise(w)
    <3>1. wpc'[w] \notin RunPC /\ wset'[w] = "skip" /\ wseg'[w] = 1
      BY <1>1, <2>8 DEF Finish, Raise, Free, At, Go, sqlVars, WorkerTypes, RunPC
    <3> QED BY <1>6, <3>1
  <2> QED BY <1>10, <2>1, <2>2, <2>4, <2>5, <2>6, <2>7, <2>8 DEF RunStep
<1> QED BY <1>4, <1>7, <1>8, <1>9, <1>10, Stays DEF Work

(* update_job stores done only after the loop is through. *)
LEMMA NextDone ==
  ASSUME Shape, Published, DoneHasEveryReport, [Next]_vars
  PROVE  DoneHasEveryReport'
<1> USE DEF Shape, TypeOK
<1> SUFFICES ASSUME NEW j \in Jobs, rows'[j].status = "done"
             PROVE  reports'[j] = Segments /\ rows'[j].filed
  BY DEF DoneHasEveryReport
<1>1. rows[j] \in Row
  BY DEF TableTypes
<1>2. reports[j] = Segments => reports'[j] = Segments
  <2>1. reports[j] \subseteq reports'[j] /\ reports'[j] \subseteq Segments
    BY ReportsGrow, NextShape DEF TableTypes
  <2> QED BY <2>1
<1>3. CASE Kept(j)
  BY <1>2, <1>3 DEF Kept, DoneHasEveryReport
<1>4. CASE Inserted(j)
  BY <1>4 DEF Inserted, NewRow
<1>5. CASE Written(j)
  <2>1. PICK s \in Statements : Pending(j, s) /\ rows'[j] = Applied(rows[j], s)
    BY <1>5 DEF Written
  <2>2. s = "done" => reports[j] = Segments
    BY <2>1 DEF Pending, ClientPending, Published
  <2>3. CASE s = "done"
    BY <1>1, <1>2, <2>1, <2>2, <2>3, AppliedFacts
  <2>4. CASE rows[j].status = "done"
    BY <1>1, <1>2, <2>1, <2>4, AppliedFacts DEF DoneHasEveryReport
  <2> QED BY <1>1, <2>1, <2>3, <2>4, AppliedFacts
<1> QED BY <1>3, <1>4, <1>5, RowWrites

(* "done" means that every pipeline of the sequence has its report, across  *)
(* replays, retries, worker deaths and any number of workers on the job.    *)
THEOREM DoneHasEveryReportAlways == Spec => []DoneHasEveryReport
<1>1. Init => Published /\ DoneHasEveryReport
  <2>1. 1..(1 - 1) = {}
    OBVIOUS
  <2> QED BY <2>1 DEF Init, Published, DoneHasEveryReport, NoRow, RunPC
<1>2. Shape /\ (Published /\ DoneHasEveryReport) /\ [Next]_vars => (Published /\ DoneHasEveryReport)'
  BY NextPublished, NextDone
<1> QED BY <1>1, <1>2, ShapeAlways, PTL DEF Spec

-----------------------------------------------------------------------------
(* Stages. *)

(* A check of the cancel flag lies before every stage that a step could enter. *)
LEMMA NoStage ==
  ASSUME Shape, [Next]_vars, NEW w \in Workers, rows[wjob[w]].cancel, wpc'[w] # wpc[w]
  PROVE  wpc'[w] \notin {"run", "persist", "done"}
<1> USE DEF Shape, TypeOK
<1>1. ASSUME NEW pc, Go(w, pc), pc \notin {"run", "persist", "done"}
      PROVE  wpc'[w] \notin {"run", "persist", "done"}
  BY <1>1 DEF Go, WorkerTypes
<1>2. ~WorkerStays(w)
  BY DEF WorkerStays
<1>3. CASE Boot(w)
  BY <1>1, <1>3 DEF Boot, ReadQueues, ReadRegistries, SkipReconciliation, ReadRows, SelectRetrying, MarkRetrying,
     SelectAbandoned, MarkAbandoned
<1>4. CASE WorkerCrash(w) \/ \E j \in Jobs : Dequeue(w, j)
  BY <1>1, <1>4 DEF WorkerCrash, Dequeue
<1>5. ASSUME NEW s, NEW next \in AfterUpdate, UpdateTo(w, s, next)
      PROVE  wpc'[w] \notin {"run", "persist", "done"}
  BY <1>1, <1>5 DEF UpdateTo, AfterUpdate
<1>6. CASE RunStep(w)
  <2>1. CASE Guard(w) \/ Setup(w) \/ Fetch(w) \/ RunRaises(w) \/ EmitDone(w) \/ Persist(w)
             \/ Finish(w) \/ Raise(w)
    BY <1>1, <2>1 DEF Guard, Setup, Fetch, RunRaises, EmitDone, Persist, Finish, Raise, Free, Checkpoint
  <2>2. CASE Segment(w) \/ Render(w)
    BY <1>1, <2>2 DEF Segment, Render, Checkpoint, MyRow
  <2>3. CASE Begin(w) \/ NoKeys(w) \/ FetchBlocked(w) \/ Snapshot(w) \/ MarkDone(w) \/ Abort(w) \/ Fail(w)
             \/ PrepareRetry(w) \/ Run(w) \/ Refuse(w)
    BY <1>1, <1>5, <2>3 DEF Begin, NoKeys, FetchBlocked, Snapshot, MarkDone, Abort, Fail, PrepareRetry, Run,
       Refuse, AfterUpdate
  <2>4. CASE UpdateByRun(w)
    <3>1. wthen[w] \in AfterUpdate
      BY <2>4 DEF UpdateByRun, At, WorkerPending
    <3> QED BY <1>1, <2>4, <3>1 DEF UpdateByRun, AfterUpdate
  <2> QED BY <1>6, <2>1, <2>2, <2>3, <2>4 DEF RunStep
<1> QED BY <1>2, <1>3, <1>4, <1>6, Stays DEF Work

(* After a cancel, a supersession or an abandonment of its job no run       *)
(* starts another agent pipeline, publishes a report or completes.          *)
THEOREM NoStageAfterCancelAlways == Spec => NoStageAfterCancel
<1>1. Shape /\ [Next]_vars =>
         [\A w \in Workers :
             /\ wjob[w] # NoJob /\ rows[wjob[w]].cancel
             /\ wpc'[w] # wpc[w]
             => wpc'[w] \notin {"run", "persist", "done"}]_vars
  BY NoStage
<1> QED BY <1>1, ShapeAlways, PTL DEF Spec, NoStageAfterCancel
=============================================================================
