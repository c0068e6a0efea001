------------------------ MODULE NightlyDispatchProofs ------------------------
(***************************************************************************)
(* Proofs about NightlyDispatch, for any number of sessions, ticks, manual *)
(* jobs, attempts and faults.                                              *)
(*                                                                         *)
(* Typed is the shape of the tables and processes.  On it rest five        *)
(* inductive invariants: Counts (a row without a task was not pushed),     *)
(* Existing (a job is of a recorded row, a task of a job), Evidence (what  *)
(* acknowledges a row came from a push, a worker or a request), Inputs (a  *)
(* job exists only for a row whose input is stored, and the copy a tick    *)
(* works on is the row's as long as its token is in it) and Quiesced       *)
(* (nobody works between a baseline and its resume).                       *)
(***************************************************************************)
EXTENDS NightlyDispatch, TLAPS

Claiming == {"claimed", "find", "read", "fetch", "fetched", "create", "enqueue", "mark"}
TickPC   == {"idle", "fenced", "seed", "check", "claim"} \cup Claiming

(* A row of a session that was not recorded is untouched, and one that is   *)
(* acknowledged has no lease.                                               *)
WorkTypes ==
    /\ work \in [Rows -> WorkRow]
    /\ \A r \in Rows :
          /\ work[r].state = "pending" => work[r].data = None
          /\ work[r].state = "prepared" => work[r].data # None
          /\ work[r].state = "absent" => work[r].data = None /\ work[r].holder = None
          /\ work[r].state = "dispatched" => work[r].holder = None

JobTypes ==
    /\ status \in [Jobs -> {"absent"} \cup Active \cup Ended]
    /\ task \in [Jobs -> {"none", "queued", "popped", "started", "finished"}]
    /\ pushes \in [Rows -> Nat] /\ reached \subseteq Jobs

TickTypes ==
    /\ tpc \in [Ticks -> TickPC] /\ session \in [Ticks -> 0..Nights] /\ stopping \subseteq Ticks
    /\ item \in [Ticks -> [data : Ticks \cup {None}, attempts : 0..MaxAttempts]]
    /\ \A t \in Ticks : tpc[t] \notin {"idle", "fenced"} => session[t] # 0

(* A worker has a job exactly while it is at one. *)
WorldTypes ==
    /\ night \in 0..Nights /\ open \in BOOLEAN /\ (open => night # 0)
    /\ api \in Rows \cup {None} /\ paused \in BOOLEAN /\ faults \in 0..MaxFaults
    /\ wpc \in {"boot", "free", "suspended", "waiting", "popped", "running"}
    /\ IF wpc \in {"popped", "running"} THEN wjob \in Jobs ELSE wjob = None
    /\ ctl \in {"none", "gone", "pausing", "fenced", "drained"}

Typed == WorkTypes /\ JobTypes /\ TickTypes /\ WorldTypes

(* A tick past its first checks serves a row. *)
LEMMA Serving ==
  ASSUME Typed, NEW t \in Ticks, tpc[t] \notin {"idle", "fenced"}
  PROVE  /\ Row(t) \in Rows
         /\ work[Row(t)] \in WorkRow
         /\ item[t] \in [data : Ticks \cup {None}, attempts : 0..MaxAttempts]
  BY NightsAssumption DEF Typed, WorkTypes, TickTypes, Row, Rows

(* What the helpers of a tick make of a row. *)
LEMMA RowHelpers ==
  ASSUME NEW row \in WorkRow
  PROVE  /\ Released(row) \in WorkRow /\ Deferred(row) \in WorkRow
         /\ Released(row).state = row.state /\ Deferred(row).state = row.state
         /\ Released(row).data = row.data /\ Deferred(row).data = row.data
         /\ Released(row).holder = None /\ Deferred(row).holder = None
  BY DEF WorkRow, Released, Deferred

(* An attempt more, up to the bound. *)
LEMMA CountedType ==
  ASSUME NEW t \in Ticks, item[t].attempts \in 0..MaxAttempts
  PROVE  Counted(t) \in 0..MaxAttempts
  BY NightsAssumption DEF Counted

(* A tick whose token is in its row has a row that was claimed. *)
LEMMA MineSeeded ==
  ASSUME Typed, NEW t \in Ticks, tpc[t] \notin {"idle", "fenced"}, Mine(t)
  PROVE  work[Row(t)].state \in {"pending", "prepared"}
  BY Serving, NoneAssumption DEF Mine, Typed, WorkTypes, WorkRow

(* Empty tables and idle processes have their types. *)
LEMMA InitTyped == Init => Typed
<1> SUFFICES ASSUME Init PROVE Typed
  OBVIOUS
<1> USE DEF Init
<1>1. WorkTypes
  BY NightsAssumption DEF WorkTypes, Absent, WorkRow
<1>2. JobTypes
  BY DEF JobTypes
<1>3. TickTypes
  BY NightsAssumption DEF TickTypes, Nothing, TickPC
<1>4. WorldTypes
  <2>1. 0 \in 0..Nights /\ 0 \in 0..MaxFaults
    BY NightsAssumption
  <2> QED BY <2>1 DEF WorldTypes
<1> QED BY <1>1, <1>2, <1>3, <1>4 DEF Typed

-----------------------------------------------------------------------------
(* How a step of a tick changes its row: not at all, or in one of these ways. *)

(* The record of the session. *)
Seeded(t) == tpc[t] = "seed" /\ work[Row(t)].state = "absent" /\ work' = [work EXCEPT ![Row(t)].state = "pending"]

(* The lease. *)
Leased(t) ==
    /\ tpc[t] = "claim" /\ Claimable(work[Row(t)])
    /\ work' = [work EXCEPT ![Row(t)].holder = t, ![Row(t)].lapsed = FALSE]
    /\ item' = [item EXCEPT ![t] = [data |-> work[Row(t)].data, attempts |-> work[Row(t)].attempts]]
    /\ tpc' = [tpc EXCEPT ![t] = "claimed"]

(* A write under the tick's own token. *)
Wrote(t, row) ==
    /\ tpc[t] \in Claiming /\ Mine(t) /\ row \in WorkRow
    /\ work' = [work EXCEPT ![Row(t)] = row]
    /\ \/ row.state = work[Row(t)].state /\ row.data = work[Row(t)].data
       \/ tpc[t] = "fetch" /\ row.state = "prepared" /\ row.data = t
       \/ row.state = "dispatched" /\ row.data = work[Row(t)].data /\ row.holder = None
          /\ (tpc[t] = "mark" \/ (tpc[t] = "read" /\ status[Row(t)] \in Ended \cup {"running"}))
    /\ row.holder = None \/ (row.holder = t /\ row.state = "prepared")
    /\ tpc'[t] # tpc[t]

TickWork(t) ==
    UNCHANGED work \/ Seeded(t) \/ Leased(t) \/ \E row \in WorkRow : Wrote(t, row)

LEMMA Failing ==
  ASSUME Typed, NEW t \in Ticks, tpc[t] \in Claiming, FailItem(t)
  PROVE  TickWork(t)
<1>1. CASE ~Owned(t)
  BY <1>1 DEF FailItem, Write, TickWork
<1>2. CASE Owned(t)
  <2> DEFINE row == [Deferred(work[Row(t)]) EXCEPT !.attempts = Counted(t)]
  <2>1. Mine(t) /\ work' = [work EXCEPT ![Row(t)] = row]
    BY <1>2 DEF FailItem, Write, Owned
  <2>2. work[Row(t)] \in WorkRow /\ Counted(t) \in 0..MaxAttempts
    BY Serving, CountedType DEF Claiming
  <2>3. /\ row \in WorkRow /\ row.state = work[Row(t)].state
        /\ row.data = work[Row(t)].data /\ row.holder = None
    BY <2>2, RowHelpers DEF WorkRow
  <2>4. tpc'[t] = "idle"
    BY DEF FailItem, Return, Typed, TickTypes
  <2> QED BY <2>1, <2>3, <2>4 DEF TickWork, Wrote, Claiming
<1> QED BY <1>1, <1>2

(* Every step of a tick changes its row in one of these ways. *)
LEMMA TickWrites ==
  ASSUME Typed, NEW t \in Ticks, TickStep(t) \/ TickFault(t)
  PROVE  TickWork(t)
<1> USE DEF Typed
<1>1. ASSUME UNCHANGED work PROVE TickWork(t)
  BY <1>1 DEF TickWork
<1>2. CASE Enter(t) \/ Admit(t) \/ Check(t) \/ CancelWaiter(t) \/ TickCrash(t)
  BY <1>1, <1>2 DEF Enter, Admit, Check, CancelWaiter, TickCrash, TickOnly
<1>3. CASE Seed(t)
  BY <1>3 DEF Seed, Seeded, TickWork
<1>4. CASE Claim(t)
  BY <1>4 DEF Claim, Leased, TickWork
<1>5. ASSUME tpc[t] \in Claiming, tpc'[t] = "idle", NEW owns \in BOOLEAN, owns => Mine(t),
             NEW row \in WorkRow, Write(t, owns, row), row.holder = None,
             row.state = work[Row(t)].state, row.data = work[Row(t)].data
      PROVE  TickWork(t)
  BY <1>5 DEF Write, TickWork, Wrote, Claiming
<1>6. tpc[t] \in Claiming => work[Row(t)] \in WorkRow /\ item[t].attempts \in 0..MaxAttempts
  BY Serving DEF Claiming
<1>7. ASSUME Return(t) PROVE tpc'[t] = "idle"
  BY <1>7 DEF Return, TickTypes
<1>8. CASE Recheck(t)
  <2>1. CASE paused
    BY <1>5, <1>6, <1>7, <1>8, <2>1, RowHelpers DEF Recheck, Owned, Mine, Claiming
  <2>2. CASE ~paused
    BY <1>1, <1>8, <2>2 DEF Recheck
  <2> QED BY <2>1, <2>2
<1>9. CASE Find(t)
  <2>1. CASE Holders \ {Row(t)} # {}
    BY <1>5, <1>6, <1>7, <1>9, <2>1, RowHelpers DEF Find, Mine, Claiming
  <2>2. CASE Holders \ {Row(t)} = {}
    BY <1>1, <1>9, <2>2 DEF Find
  <2> QED BY <2>1, <2>2
<1>10. CASE FetchRefused(t)
  <2> DEFINE row == [Deferred(work[Row(t)]) EXCEPT !.attempts = Counted(t)]
  <2>1. tpc[t] \in Claiming /\ Write(t, Owned(t), row) /\ Return(t)
    BY <1>10 DEF FetchRefused, Claiming
  <2>2. FailItem(t)
    BY <2>1 DEF FailItem
  <2> QED BY <2>1, <2>2, Failing
<1>11. CASE TickFails(t)
  <2>1. tpc[t] \in Claiming
    BY <1>11 DEF TickFails, Claiming
  <2>2. CASE t \in stopping \/ tpc[t] \in {"claimed", "fetched"}
    BY <1>5, <1>6, <1>7, <1>11, <2>1, <2>2, RowHelpers DEF TickFails, Owned, Mine
  <2>3. CASE ~(t \in stopping \/ tpc[t] \in {"claimed", "fetched"})
    BY <1>11, <2>1, <2>3, Failing DEF TickFails
  <2> QED BY <2>2, <2>3
<1>12. CASE CreateJob(t) \/ Enqueue(t) \/ EnqueueFails(t)
  <2>1. tpc[t] \in Claiming /\ (FailItem(t) \/ UNCHANGED work)
    BY <1>12 DEF CreateJob, Enqueue, EnqueueFails, Claiming
  <2> QED BY <1>1, <2>1, Failing
<1>13. CASE Read(t) \/ Mark(t)
  <2> DEFINE row == [Released(work[Row(t)]) EXCEPT !.state = "dispatched"]
  <2>1. tpc[t] \in {"read", "mark"}
    BY <1>13 DEF Read, Mark
  <2>2. row \in WorkRow /\ row.state = "dispatched" /\ row.data = work[Row(t)].data /\ row.holder = None
    BY <1>6, <2>1, RowHelpers DEF WorkRow, Claiming
  <2>3. CASE UNCHANGED work
    BY <1>1, <2>3
  <2>4. CASE ~UNCHANGED work
    <3>1. /\ Mine(t) /\ work' = [work EXCEPT ![Row(t)] = row] /\ Return(t)
          /\ tpc[t] = "mark" \/ (tpc[t] = "read" /\ status[Row(t)] \in Ended \cup {"running"})
      BY <1>13, <2>4 DEF Read, Mark, Write, Owned
    <3> QED BY <1>7, <2>1, <2>2, <3>1 DEF TickWork, Wrote, Claiming
  <2> QED BY <2>3, <2>4
<1>14. CASE FetchEligible(t)
  <2> DEFINE prepared == [work[Row(t)] EXCEPT !.state = "prepared", !.data = t, !.attempts = Counted(t)]
             row == IF t \in stopping THEN Released(prepared) ELSE prepared
  <2>1. tpc[t] = "fetch" /\ Write(t, Owned(t), row) /\ (Return(t) \/ Tick(t, "fetched"))
    BY <1>14 DEF FetchEligible
  <2>2. prepared \in WorkRow /\ prepared.state = "prepared" /\ prepared.data = t /\ prepared.holder = work[Row(t)].holder
    BY <1>6, <2>1, CountedType DEF WorkRow, Claiming
  <2>3. row \in WorkRow /\ row.state = "prepared" /\ row.data = t /\ row.holder \in {None, work[Row(t)].holder}
    BY <2>2, RowHelpers
  <2>4. tpc'[t] # tpc[t]
    BY <1>7, <2>1 DEF Tick, TickTypes
  <2>5. CASE ~Owned(t)
    BY <1>1, <2>1, <2>5 DEF Write
  <2>6. CASE Owned(t)
    BY <2>1, <2>3, <2>4, <2>6 DEF Write, Owned, Mine, TickWork, Wrote, Claiming
  <2> QED BY <2>5, <2>6
<1> QED BY <1>2, <1>3, <1>4, <1>8, <1>9, <1>10, <1>11, <1>12, <1>13, <1>14 DEF TickStep, TickFault

-----------------------------------------------------------------------------
(* Types. *)

(* A step of a tick leaves the tables typed ... *)
LEMMA TickTyped ==
  ASSUME Typed, NEW t \in Ticks, TickStep(t) \/ TickFault(t)
  PROVE  Typed'
<1>1. WorkTypes'
  <2>1. CASE UNCHANGED work
    BY <2>1 DEF Typed, WorkTypes
  <2>2. CASE Seeded(t)
    BY <2>2, Serving DEF Seeded, Typed, WorkTypes, WorkRow
  <2>3. CASE Leased(t)
    <3> DEFINE row == [work[Row(t)] EXCEPT !.holder = t, !.lapsed = FALSE]
    <3>1. Row(t) \in Rows /\ work[Row(t)] \in WorkRow /\ work[Row(t)].state \in {"pending", "prepared"}
      BY <2>3, Serving DEF Leased, Claimable
    <3>2. row \in WorkRow /\ row.state = work[Row(t)].state /\ row.data = work[Row(t)].data
      BY <3>1 DEF WorkRow
    <3>3. work' = [work EXCEPT ![Row(t)] = row]
      BY <2>3, <3>1 DEF Leased, Typed, WorkTypes
    <3> HIDE DEF row
    <3> QED BY <3>1, <3>2, <3>3 DEF Typed, WorkTypes
  <2>4. ASSUME NEW row \in WorkRow, Wrote(t, row) PROVE WorkTypes'
    <3>1. Row(t) \in Rows /\ work[Row(t)].state \in {"pending", "prepared"}
      BY <2>4, Serving, MineSeeded DEF Wrote, Claiming
    <3> QED BY <2>4, <3>1, NoneAssumption DEF Wrote, Typed, WorkTypes
  <2> QED BY <2>1, <2>2, <2>3, <2>4, TickWrites DEF TickWork
<1>2. ASSUME Return(t) PROVE TickTypes'
  BY <1>2, NightsAssumption DEF Typed, Return, TickTypes, Nothing, TickPC
<1>3. ASSUME NEW pc \in TickPC, Tick(t, pc), tpc[t] \notin {"idle", "fenced"} \/ pc = "fenced" PROVE TickTypes'
  BY <1>3 DEF Typed, Tick, TickTypes
<1>4. TickTypes'
  <2>1. CASE Enter(t) \/ Seed(t) \/ Check(t) \/ Recheck(t)
    BY <1>2, <1>3, <2>1 DEF Enter, Seed, Check, Recheck, TickPC, Claiming
  <2>2. CASE Find(t) \/ Read(t) \/ FetchRefused(t) \/ FetchEligible(t)
    BY <1>2, <1>3, <2>2 DEF Find, Read, FetchRefused, FetchEligible, TickPC, Claiming
  <2>3. CASE CreateJob(t) \/ Enqueue(t) \/ Mark(t) \/ TickFails(t) \/ EnqueueFails(t) \/ TickCrash(t)
    BY <1>2, <1>3, <2>3 DEF CreateJob, Enqueue, Mark, TickFails, EnqueueFails, TickCrash, FailItem, TickPC, Claiming
  <2>4. CASE Admit(t)
    <3>1. CASE paused \/ ~open
      BY <1>2, <2>4, <3>1 DEF Admit
    <3>2. CASE ~paused /\ open
      BY <2>4, <3>2 DEF Admit, Typed, TickTypes, WorldTypes, TickPC
    <3> QED BY <3>1, <3>2
  <2>5. CASE Claim(t)
    <3>1. CASE ~Claimable(work[Row(t)])
      BY <1>2, <2>5, <3>1 DEF Claim
    <3>2. CASE Claimable(work[Row(t)])
      <4>1. work[Row(t)] \in WorkRow
        BY <2>5, Serving DEF Claim
      <4>2. [data |-> work[Row(t)].data, attempts |-> work[Row(t)].attempts]
               \in [data : Ticks \cup {None}, attempts : 0..MaxAttempts]
        BY <4>1 DEF WorkRow
      <4>3. item' \in [Ticks -> [data : Ticks \cup {None}, attempts : 0..MaxAttempts]]
        BY <2>5, <3>2, <4>2 DEF Claim, Typed, TickTypes
      <4> QED BY <2>5, <3>2, <4>3 DEF Claim, Typed, TickTypes, TickPC, Claiming
    <3> QED BY <3>1, <3>2
  <2>6. CASE CancelWaiter(t)
    BY <2>6 DEF CancelWaiter, Typed, TickTypes
  <2> QED BY <2>1, <2>2, <2>3, <2>4, <2>5, <2>6 DEF TickStep, TickFault
<1>5. JobTypes'
  <2>1. CASE CreateJob(t) \/ Enqueue(t) \/ EnqueueFails(t)
    <3>1. Row(t) \in Rows
      BY <2>1, Serving DEF CreateJob, Enqueue, EnqueueFails
    <3> QED BY <2>1, <3>1 DEF CreateJob, Enqueue, EnqueueFails, Push, Typed, JobTypes, Active, Jobs
  <2>2. CASE ~(CreateJob(t) \/ Enqueue(t) \/ EnqueueFails(t))
    <3>1. UNCHANGED jobVars
      BY <2>2 DEF TickStep, TickFault, Enter, Admit, Seed, Check, Claim, Recheck, Find, Read, FetchRefused, FetchEligible,
         Mark, CancelWaiter, TickFails, TickCrash, TickOnly, RowOnly
    <3> QED BY <3>1 DEF jobVars, Typed, JobTypes
  <2> QED BY <2>1, <2>2
<1>6. WorldTypes'
  <2>1. Elsewhere /\ (faults' = faults \/ Fault)
    BY DEF TickStep, TickFault, Enter, Admit, Seed, Check, Claim, Recheck, Find, Read, FetchRefused, FetchEligible,
       CreateJob, Enqueue, EnqueueFails, Mark, CancelWaiter, TickFails, TickCrash, TickOnly, RowOnly
  <2>2. faults' \in 0..MaxFaults
    BY <2>1, NightsAssumption DEF Fault, Typed, WorldTypes
  <2> QED BY <2>1, <2>2 DEF Elsewhere, workerVars, deployVars, Typed, WorldTypes
<1> QED BY <1>1, <1>4, <1>5, <1>6 DEF Typed

(* ... and so do time, requests, the worker and a deployment. *)
LEMMA OthersTyped ==
  ASSUME Typed,
         \/ NightBegins \/ NightEnds \/ \E r \in Rows : Due(r) \/ Lapse(r)
         \/ WorkerStep \/ WorkerCrash \/ Request \/ Deployment \/ UNCHANGED vars
  PROVE  Typed'
<1> USE DEF Typed, jobVars, tickVars, workerVars, deployVars
<1>1. Fault => faults' \in 0..MaxFaults
  BY NightsAssumption DEF Fault, WorldTypes
<1>2. CASE NightBegins \/ NightEnds
  <2>1. night' \in 0..Nights /\ open' \in BOOLEAN /\ (open' => night' # 0)
    <3>1. CASE NightBegins
      <4>1. night \in 0..Nights /\ night < Nights /\ night' = night + 1
        BY <3>1 DEF NightBegins, WorldTypes
      <4>2. night' \in 0..Nights /\ night' # 0
        BY <4>1, NightsAssumption
      <4> QED BY <3>1, <4>2 DEF NightBegins
    <3>2. CASE NightEnds
      BY <3>2 DEF NightEnds, WorldTypes
    <3> QED BY <1>2, <3>1, <3>2
  <2> QED BY <1>2, <2>1 DEF NightBegins, NightEnds, WorkTypes, JobTypes, TickTypes, WorldTypes
<1>3. ASSUME NEW r \in Rows, Due(r) \/ Lapse(r) PROVE Typed'
  <2>1. WorkTypes'
    <3>1. PICK row \in WorkRow : /\ work' = [work EXCEPT ![r] = row] /\ row.state = work[r].state
                                /\ row.data = work[r].data /\ row.holder = work[r].holder
      <4>1. work[r] \in WorkRow
        BY DEF WorkTypes
      <4>2. CASE Due(r)
        <5> DEFINE row == [work[r] EXCEPT !.due = TRUE]
        <5>1. row \in WorkRow /\ row.state = work[r].state /\ row.data = work[r].data /\ row.holder = work[r].holder
          BY <4>1 DEF WorkRow
        <5>2. work' = [work EXCEPT ![r] = row]
          BY <4>2 DEF Due, WorkTypes
        <5> QED BY <5>1, <5>2
      <4>3. CASE Lapse(r)
        <5> DEFINE row == [work[r] EXCEPT !.lapsed = TRUE]
        <5>1. row \in WorkRow /\ row.state = work[r].state /\ row.data = work[r].data /\ row.holder = work[r].holder
          BY <4>1 DEF WorkRow
        <5>2. work' = [work EXCEPT ![r] = row]
          BY <4>3 DEF Lapse, WorkTypes
        <5> QED BY <5>1, <5>2
      <4> QED BY <1>3, <4>2, <4>3
    <3> QED BY <3>1 DEF WorkTypes
  <2>2. JobTypes' /\ TickTypes' /\ WorldTypes'
    BY <1>1, <1>3 DEF Due, Lapse, JobTypes, TickTypes, WorldTypes
  <2> QED BY <2>1, <2>2
<1>4. CASE WorkerStep \/ WorkerCrash
  <2>1. WorkTypes' /\ TickTypes'
    BY <1>4 DEF WorkerStep, WorkerCrash, Boot, Suspend, Start, Finish, Pop, CleanRegistry, ByWorker, WorkTypes, TickTypes
  <2>2. JobTypes'
    BY <1>4 DEF WorkerStep, WorkerCrash, Boot, Suspend, Start, Finish, Pop, CleanRegistry, ByWorker, JobTypes, WorldTypes,
       Active, Ended
  <2>3. WorldTypes'
    BY <1>1, <1>4 DEF WorkerStep, WorkerCrash, Boot, Suspend, Start, Finish, Pop, CleanRegistry, ByWorker, WorldTypes
  <2> QED BY <2>1, <2>2, <2>3
<1>5. CASE Request
  <2>1. WorkTypes' /\ TickTypes'
    BY <1>5 DEF Request, AttachPush, Submit, Attach, Cancel, ApiLookup, SchedulerLookup, ByRequest, WorkTypes, TickTypes
  <2>2. JobTypes'
    BY <1>5 DEF Request, AttachPush, Submit, Attach, Cancel, ApiLookup, SchedulerLookup, ByRequest, JobTypes, WorldTypes,
       Active, Ended, Holders, Jobs
  <2>3. WorldTypes'
    BY <1>1, <1>5 DEF Request, AttachPush, Submit, Attach, Cancel, ApiLookup, SchedulerLookup, ByRequest, WorldTypes
  <2> QED BY <2>1, <2>2, <2>3
<1>6. CASE Deployment
  <2>1. ByDeployment /\ faults' \in 0..MaxFaults
    BY <1>1, <1>6 DEF Deployment, Pause, Fence, Baseline, Resume, DeploymentCrash, WorldTypes
  <2>2. paused' \in BOOLEAN /\ ctl' \in {"none", "gone", "pausing", "fenced", "drained"}
    BY <1>6 DEF Deployment, Pause, Fence, Baseline, Resume, DeploymentCrash, WorldTypes
  <2> QED BY <2>1, <2>2 DEF ByDeployment, WorkTypes, JobTypes, TickTypes, WorldTypes
<1>7. CASE UNCHANGED vars
  BY <1>7 DEF vars, WorkTypes, JobTypes, TickTypes, WorldTypes
<1> QED BY <1>2, <1>3, <1>4, <1>5, <1>6, <1>7

LEMMA NextTyped == Typed /\ [Next]_vars => Typed'
  BY TickTyped, OthersTyped DEF Next

(* Every reachable state is well typed. *)
THEOREM TypedAlways == Spec => []Typed
<1> QED BY InitTyped, NextTyped, PTL DEF Spec

(* Type correctness for any number of sessions, ticks and manual jobs. *)
THEOREM TypesAlways == Spec => []TypeOK
<1>1. Typed => TypeOK
  BY DEF Typed, WorkTypes, JobTypes, TickTypes, WorldTypes, TypeOK
<1> QED BY <1>1, TypedAlways, PTL

-----------------------------------------------------------------------------
(* What a step may do to the job and the task of a row. *)

TaskMoves(r) ==
    \/ task'[r] = task[r] /\ pushes'[r] = pushes[r]
    \/ /\ task[r] = "none" /\ task'[r] = "queued" /\ pushes'[r] = pushes[r] + 1
       /\ \E t \in Ticks : tpc[t] = "enqueue" /\ Row(t) = r
    \/ task'[r] = "none" /\ pushes'[r] = 0 /\ r \in reached'
    \/ task'[r] = "queued" /\ pushes'[r] = pushes[r] /\ api = r /\ r \in reached'
    \/ /\ task'[r] = "started" /\ pushes'[r] = pushes[r]
       /\ wpc = "popped" /\ wjob = r /\ (r \in reached' \/ status[r] \in Ended)
    \/ task[r] # "none" /\ task'[r] # "none" /\ pushes'[r] = pushes[r]

StatusMoves(r) ==
    \/ status'[r] = status[r]
    \/ status[r] = "absent" /\ status'[r] = "queued" /\ \E t \in Ticks : tpc[t] = "create" /\ Row(t) = r
    \/ /\ status'[r] \in Ended \cup {"running"}
       /\ \/ status[r] # "absent" /\ r \in reached'
          \/ status[r] # "absent" /\ r \notin PendingJobs
          \/ api = r /\ r \in reached'
          \/ wpc = "popped" /\ wjob = r /\ r \in reached'
          \/ wpc = "running" /\ wjob = r
       /\ status'[r] = "running" => wpc = "popped" /\ wjob = r

JobMoves == reached \subseteq reached' /\ \A r \in Rows : TaskMoves(r) /\ StatusMoves(r)

LEMMA TickJobs ==
  ASSUME Typed, NEW t \in Ticks, TickStep(t) \/ TickFault(t)
  PROVE  JobMoves /\ (~UNCHANGED jobVars => tpc[t] \in {"create", "enqueue"} /\ tpc'[t] \in {"enqueue", "mark", "idle"})
<1>1. CASE UNCHANGED jobVars
  BY <1>1 DEF jobVars, JobMoves, TaskMoves, StatusMoves
<1>2. CASE CreateJob(t) \/ Enqueue(t) \/ EnqueueFails(t)
  <2>1. Row(t) \in Rows /\ Rows \subseteq Jobs
    BY <1>2, Serving DEF CreateJob, Enqueue, EnqueueFails, Jobs
  <2>2. tpc[t] \in {"create", "enqueue"} /\ tpc'[t] \in {"enqueue", "mark", "idle"}
    BY <1>2 DEF CreateJob, Enqueue, EnqueueFails, FailItem, Return, Tick, Typed, TickTypes
  <2>3. JobMoves
    <3>1. CASE CreateJob(t)
      BY <2>1, <3>1 DEF CreateJob, JobMoves, TaskMoves, StatusMoves, Typed, JobTypes
    <3>2. CASE Enqueue(t) \/ EnqueueFails(t)
      BY <2>1, <3>2 DEF Enqueue, EnqueueFails, Push, JobMoves, TaskMoves, StatusMoves, Typed, JobTypes
    <3> QED BY <1>2, <3>1, <3>2
  <2> QED BY <2>2, <2>3
<1>3. CASE ~(CreateJob(t) \/ Enqueue(t) \/ EnqueueFails(t))
  <2>1. UNCHANGED jobVars
    BY <1>3 DEF TickStep, TickFault, Enter, Admit, Seed, Check, Claim, Recheck, Find, Read, FetchRefused, FetchEligible,
       Mark, CancelWaiter, TickFails, TickCrash, TickOnly, RowOnly
  <2> QED BY <1>1, <2>1
<1> QED BY <1>2, <1>3

LEMMA OthersJobs ==
  ASSUME Typed,
         \/ NightBegins \/ NightEnds \/ \E r \in Rows : Due(r) \/ Lapse(r)
         \/ WorkerStep \/ WorkerCrash \/ Request \/ Deployment \/ UNCHANGED vars
  PROVE  JobMoves
<1> USE DEF Typed
<1>1. CASE UNCHANGED jobVars
  BY <1>1 DEF jobVars, JobMoves, TaskMoves, StatusMoves
<1>2. Rows \subseteq Jobs
  BY DEF Jobs
<1>3. CASE WorkerStep \/ WorkerCrash
  <2> USE <1>2 DEF ByWorker, JobMoves, TaskMoves, StatusMoves, JobTypes, WorldTypes
  <2>1. CASE Boot
    BY <2>1 DEF Boot, Holders, Active, Ended
  <2>2. CASE Suspend \/ WorkerCrash
    BY <2>2 DEF Suspend, WorkerCrash
  <2>3. CASE Start
    BY <2>3 DEF Start, Ended
  <2>4. CASE Finish
    BY <2>4 DEF Finish, Ended
  <2>5. ASSUME NEW j \in Jobs, Pop(j) \/ CleanRegistry(j) PROVE JobMoves
    BY <2>5 DEF Pop, CleanRegistry
  <2> QED BY <1>3, <2>1, <2>2, <2>3, <2>4, <2>5 DEF WorkerStep
<1>4. CASE Request
  <2> USE <1>2 DEF ByRequest, JobMoves, TaskMoves, StatusMoves, JobTypes, WorldTypes
  <2>1. CASE AttachPush
    BY <2>1 DEF AttachPush, Ended
  <2>2. ASSUME NEW j \in Jobs, Submit(j) PROVE JobMoves
    BY <2>2, NoneAssumption DEF Submit, Holders, Active, Ended, Rows
  <2>3. ASSUME NEW j \in Jobs, Cancel(j) PROVE JobMoves
    BY <2>3 DEF Cancel, Ended
  <2>4. ASSUME NEW j \in Jobs, ApiLookup(j) \/ SchedulerLookup(j) PROVE JobMoves
    BY <2>4 DEF ApiLookup, SchedulerLookup, Holders, Active, Ended
  <2>5. ASSUME NEW j \in Jobs, Attach(j) PROVE JobMoves
    BY <1>1, <2>5 DEF Attach
  <2> QED BY <1>4, <2>1, <2>2, <2>3, <2>4, <2>5 DEF Request
<1>5. CASE NightBegins \/ NightEnds \/ Deployment \/ UNCHANGED vars \/ \E r \in Rows : Due(r) \/ Lapse(r)
  BY <1>1, <1>5 DEF NightBegins, NightEnds, Deployment, Pause, Fence, Baseline, Resume, DeploymentCrash, ByDeployment,
     Due, Lapse, vars
<1> QED BY <1>3, <1>4, <1>5

LEMMA NextJobs == Typed /\ [Next]_vars => JobMoves
  BY TickJobs, OthersJobs DEF Next

-----------------------------------------------------------------------------
(* A row is pushed once. *)

Counts == \A r \in Rows : pushes[r] <= 1 /\ (task[r] = "none" => pushes[r] = 0)

(* "One paid analysis job": overlapping ticks, lost replies and requests    *)
(* that push the task themselves never make a tick push it twice.           *)
THEOREM OnePushAlways == Spec => []OnePush
<1>1. Init => Counts
  BY DEF Init, Counts, Jobs
<1>2. Typed /\ Counts /\ [Next]_vars => Counts'
  BY NextJobs DEF Typed, JobTypes, Counts, JobMoves, TaskMoves
<1>3. Counts => OnePush
  BY DEF Counts, OnePush
<1> QED BY <1>1, <1>2, <1>3, TypedAlways, PTL DEF Spec

-----------------------------------------------------------------------------
(* The path of a tick through _process_admitted, once it has claimed a row. *)

Path(t) ==
    \/ tpc'[t] = tpc[t]
    \/ tpc[t] = "claimed" /\ tpc'[t] = "find"
    \/ tpc[t] = "find" /\ tpc'[t] = "read"
    \/ tpc[t] = "read" /\ tpc'[t] = "fetch" /\ item[t].data = None
    \/ tpc[t] = "read" /\ tpc'[t] = "fetched" /\ item[t].data # None
    \/ tpc[t] = "fetch" /\ tpc'[t] = "fetched" /\ work'[Row(t)].data # None
    \/ tpc[t] = "fetched" /\ tpc'[t] = "create"
    \/ tpc[t] = "create" /\ tpc'[t] = "enqueue" /\ status'[Row(t)] # "absent"
    \/ tpc[t] = "enqueue" /\ tpc'[t] = "mark" /\ (task[Row(t)] # "none" \/ pushes'[Row(t)] = pushes[Row(t)] + 1)

TickMoves(t) ==
    \/ tpc'[t] = tpc[t] /\ UNCHANGED <<session, item>>
    \/ tpc'[t] \notin Claiming
    \/ Leased(t) /\ UNCHANGED session
    \/ tpc[t] \in Claiming /\ UNCHANGED <<session, item>> /\ Path(t)

LEMMA TickPath ==
  ASSUME Typed, NEW t \in Ticks, TickStep(t) \/ TickFault(t)
  PROVE  /\ TickMoves(t)
         /\ \A u \in Ticks \ {t} : tpc'[u] = tpc[u] /\ session'[u] = session[u] /\ item'[u] = item[u]
<1> USE DEF Typed, TickTypes
<1>1. ASSUME Return(t)
      PROVE  /\ tpc'[t] = "idle"
             /\ \A u \in Ticks \ {t} : tpc'[u] = tpc[u] /\ session'[u] = session[u] /\ item'[u] = item[u]
  BY <1>1 DEF Return
<1>2. ASSUME NEW pc, Tick(t, pc)
      PROVE  /\ tpc'[t] = pc /\ UNCHANGED <<session, item>>
             /\ \A u \in Ticks \ {t} : tpc'[u] = tpc[u]
  BY <1>2 DEF Tick
<1>3. CASE Enter(t) \/ Seed(t) \/ Check(t)
  BY <1>1, <1>2, <1>3 DEF Enter, Seed, Check, TickMoves, Claiming
<1>4. CASE Admit(t) \/ TickCrash(t)
  BY <1>1, <1>4 DEF Admit, TickCrash, TickMoves, Claiming
<1>5. CASE Claim(t)
  BY <1>1, <1>5 DEF Claim, Leased, TickMoves, Claiming
<1>6. CASE Recheck(t) \/ Find(t) \/ Read(t)
  BY <1>1, <1>2, <1>6 DEF Recheck, Find, Read, TickMoves, Path, Claiming
<1>7. CASE FetchRefused(t) \/ Mark(t) \/ TickFails(t) \/ EnqueueFails(t)
  BY <1>1, <1>7 DEF FetchRefused, Mark, TickFails, EnqueueFails, FailItem, TickMoves, Claiming
<1>8. CASE FetchEligible(t)
  <2>1. CASE Return(t)
    BY <1>1, <2>1 DEF TickMoves, Claiming
  <2>2. CASE ~Return(t)
    <3>1. tpc[t] = "fetch" /\ tpc'[t] = "fetched" /\ UNCHANGED <<session, item>> /\ Owned(t)
      BY <1>2, <1>8, <2>2 DEF FetchEligible
    <3>2. work'[Row(t)].data = t
      BY <1>8, <2>2, <3>1, Serving DEF FetchEligible, Write, WorkTypes, WorkRow
    <3> QED BY <1>2, <1>8, <2>2, <3>1, <3>2, NoneAssumption DEF FetchEligible, TickMoves, Path, Claiming
  <2> QED BY <2>1, <2>2
<1>9. CASE CancelWaiter(t)
  BY <1>9 DEF CancelWaiter, TickMoves
<1>10. CASE CreateJob(t)
  <2>1. Row(t) \in Jobs
    BY <1>10, Serving DEF CreateJob, Jobs
  <2>2. CASE FailItem(t)
    BY <1>1, <2>2 DEF FailItem, TickMoves, Claiming
  <2>3. CASE ~FailItem(t)
    BY <1>2, <1>10, <2>1, <2>3 DEF CreateJob, TickMoves, Path, Claiming, JobTypes
  <2> QED BY <2>2, <2>3
<1>11. CASE Enqueue(t)
  <2>1. Row(t) \in Rows
    BY <1>11, Serving DEF Enqueue
  <2>2. CASE FailItem(t)
    BY <1>1, <2>2 DEF FailItem, TickMoves, Claiming
  <2>3. CASE ~FailItem(t)
    BY <1>2, <1>11, <2>1, <2>3 DEF Enqueue, Push, TickMoves, Path, Claiming, JobTypes
  <2> QED BY <2>2, <2>3
<1> QED BY <1>3, <1>4, <1>5, <1>6, <1>7, <1>8, <1>9, <1>10, <1>11 DEF TickStep, TickFault

(* The rows and the ticks over any step of the system. *)
Moves ==
    \/ UNCHANGED <<tpc, session, item>> /\ \A r \in Rows : /\ work'[r].state = work[r].state
                                                         /\ work'[r].data = work[r].data
                                                         /\ work'[r].holder = work[r].holder
    \/ \E t \in Ticks :
          /\ TickMoves(t) /\ TickWork(t)
          /\ \A u \in Ticks \ {t} : tpc'[u] = tpc[u] /\ session'[u] = session[u] /\ item'[u] = item[u]

LEMMA NextMoves == Typed /\ [Next]_vars => Moves
<1> SUFFICES ASSUME Typed, [Next]_vars PROVE Moves
  OBVIOUS
<1>1. ASSUME NEW t \in Ticks, TickStep(t) \/ TickFault(t) PROVE Moves
  BY <1>1, TickPath, TickWrites DEF Moves
<1>2. ASSUME NEW r \in Rows, Due(r) \/ Lapse(r) PROVE Moves
  <2>1. /\ work'[r].state = work[r].state /\ work'[r].data = work[r].data /\ work'[r].holder = work[r].holder
        /\ \A q \in Rows \ {r} : work'[q] = work[q]
    BY <1>2 DEF Due, Lapse, Typed, WorkTypes, WorkRow
  <2> QED BY <1>2, <2>1 DEF Due, Lapse, tickVars, Moves
<1>3. ASSUME UNCHANGED <<work, tickVars>> PROVE Moves
  BY <1>3 DEF tickVars, Moves
<1>4. CASE NightBegins \/ NightEnds \/ Deployment \/ UNCHANGED vars
  BY <1>3, <1>4 DEF NightBegins, NightEnds, Deployment, Pause, Fence, Baseline, Resume, DeploymentCrash, ByDeployment, vars
<1>5. CASE WorkerStep \/ WorkerCrash
  BY <1>3, <1>5 DEF WorkerStep, WorkerCrash, Boot, Suspend, Start, Finish, Pop, CleanRegistry, ByWorker
<1>6. CASE Request
  BY <1>3, <1>6 DEF Request, AttachPush, Submit, Attach, Cancel, ApiLookup, SchedulerLookup, ByRequest
<1> QED BY <1>1, <1>2, <1>4, <1>5, <1>6 DEF Next

(* How one row moves. *)
RowMoves(r) ==
    \/ work'[r].state = work[r].state /\ work'[r].data = work[r].data /\ work'[r].holder = work[r].holder
    \/ /\ work[r].state = "absent" /\ work'[r].state = "pending"
       /\ work'[r].data = work[r].data /\ work'[r].holder = work[r].holder
    \/ /\ work'[r].state = work[r].state /\ work'[r].data = work[r].data
       /\ \E t \in Ticks : Leased(t) /\ Row(t) = r /\ work'[r].holder = t
    \/ \E t \in Ticks : /\ TickMoves(t) /\ Row(t) = r /\ Wrote(t, work'[r])

LEMMA OneRow ==
  ASSUME Typed, Moves, NEW r \in Rows
  PROVE  RowMoves(r)
<1>1. CASE \A q \in Rows : /\ work'[q].state = work[q].state
                           /\ work'[q].data = work[q].data
                           /\ work'[q].holder = work[q].holder
  BY <1>1 DEF RowMoves
<1>2. ASSUME NEW t \in Ticks, TickMoves(t), TickWork(t) PROVE RowMoves(r)
  <2>1. CASE UNCHANGED work
    BY <2>1 DEF RowMoves
  <2>2. CASE Seeded(t)
    BY <2>2, Serving DEF Seeded, RowMoves, Typed, WorkTypes, WorkRow
  <2>3. CASE Leased(t)
    BY <2>3, Serving DEF Leased, RowMoves, Typed, WorkTypes, WorkRow
  <2>4. ASSUME NEW row \in WorkRow, Wrote(t, row) PROVE RowMoves(r)
    <3>1. Row(t) \in Rows /\ work' = [work EXCEPT ![Row(t)] = row]
      BY <2>4, Serving DEF Wrote, Claiming
    <3>2. CASE r = Row(t)
      BY <1>2, <2>4, <3>1, <3>2 DEF RowMoves, Typed, WorkTypes
    <3>3. CASE r # Row(t)
      BY <3>1, <3>3 DEF RowMoves, Typed, WorkTypes
    <3> QED BY <3>2, <3>3
  <2> QED BY <1>2, <2>1, <2>2, <2>3, <2>4 DEF TickWork
<1> QED BY <1>1, <1>2 DEF Moves

(* A recorded row stays recorded, and an acknowledged one acknowledged. *)
LEMMA RowsKept ==
  ASSUME Typed, Moves, NEW r \in Rows
  PROVE  /\ work'[r].state = "absent" => work[r].state = "absent"
         /\ work[r].state = "dispatched" => work'[r].state = "dispatched"
<1>1. ASSUME NEW t \in Ticks, Row(t) = r, Wrote(t, work'[r])
      PROVE  work[r].state \in {"pending", "prepared"} /\ work'[r].state # "absent"
  BY <1>1, MineSeeded DEF Wrote, Claiming
<1> QED BY <1>1, OneRow DEF RowMoves

(* How a step moves the worker and the request that pushes a task again. *)
WorldMoves ==
    /\ wjob' = wjob \/ wjob' = None \/ task[wjob'] # "none"
    /\ api' = api \/ api' = None \/ status[api'] # "absent"
    /\ wpc' = "running" =>
          /\ wjob' = wjob
          /\ wpc = "running" \/ (wpc = "popped" /\ (wjob \in reached' \/ status[wjob] \in Ended))

LEMMA NextWorld == Typed /\ [Next]_vars => WorldMoves
<1> SUFFICES ASSUME Typed, [Next]_vars PROVE WorldMoves
  OBVIOUS
<1>1. ASSUME UNCHANGED <<workerVars, api>> PROVE WorldMoves
  BY <1>1 DEF workerVars, WorldMoves
<1>2. ASSUME NEW t \in Ticks, TickStep(t) \/ TickFault(t) PROVE UNCHANGED <<workerVars, api>>
  BY <1>2 DEF TickStep, TickFault, Enter, Admit, Seed, Check, Claim, Recheck, Find, Read, FetchRefused, FetchEligible,
     CreateJob, Enqueue, EnqueueFails, Mark, CancelWaiter, TickFails, TickCrash, TickOnly, RowOnly, Elsewhere
<1>3. CASE WorkerStep \/ WorkerCrash
  BY <1>3 DEF WorkerStep, WorkerCrash, Boot, Suspend, Start, Finish, Pop, CleanRegistry, ByWorker, workerVars, WorldMoves,
     Typed, WorldTypes, JobTypes
<1>4. CASE Request
  BY <1>4 DEF Request, AttachPush, Submit, Attach, Cancel, ApiLookup, SchedulerLookup, ByRequest, workerVars, WorldMoves
<1>5. CASE NightBegins \/ NightEnds \/ Deployment \/ UNCHANGED vars \/ \E r \in Rows : Due(r) \/ Lapse(r)
  BY <1>1, <1>5 DEF NightBegins, NightEnds, Deployment, Pause, Fence, Baseline, Resume, DeploymentCrash, ByDeployment,
     Due, Lapse, vars
<1> QED BY <1>1, <1>2, <1>3, <1>4, <1>5 DEF Next

(* All that the invariants below need of a step. *)
LEMMA StepMoves == Typed /\ [Next]_vars => JobMoves /\ Moves /\ WorldMoves
  BY NextJobs, NextMoves, NextWorld

-----------------------------------------------------------------------------
(* A job is of a recorded row, and a task of a job. *)

Existing ==
    /\ \A r \in Rows :
          /\ status[r] # "absent" => work[r].state # "absent"
          /\ task[r] # "none" \/ wjob = r \/ api = r => status[r] # "absent"
    /\ \A t \in Ticks :
          /\ tpc[t] \in Claiming => work[Row(t)].state # "absent"
          /\ tpc[t] \in {"enqueue", "mark"} => status[Row(t)] # "absent"

LEMMA ExistingKept ==
  ASSUME Typed, Existing, JobMoves, Moves, WorldMoves
  PROVE  Existing'
<1> USE DEF Existing
<1>1. \A t \in Ticks : tpc[t] \in Claiming => Row(t) \in Rows
  BY Serving DEF Claiming
<1>2. ASSUME NEW r \in Rows PROVE status[r] # "absent" => status'[r] # "absent"
  BY <1>2 DEF JobMoves, StatusMoves, Ended
<1>3. ASSUME NEW r \in Rows PROVE status'[r] # "absent" => work'[r].state # "absent"
  <2>1. status'[r] # "absent" => work[r].state # "absent"
    BY NoneAssumption DEF JobMoves, StatusMoves, Claiming
  <2> QED BY <2>1, RowsKept
<1>4. ASSUME NEW r \in Rows PROVE task'[r] # "none" \/ wjob' = r \/ api' = r => status'[r] # "absent"
  <2>1. task'[r] # "none" => status[r] # "absent"
    BY DEF JobMoves, TaskMoves
  <2>2. wjob' = r \/ api' = r => status[r] # "absent"
    BY NoneAssumption DEF WorldMoves, Rows
  <2> QED BY <1>2, <2>1, <2>2
<1>5. ASSUME NEW t \in Ticks, tpc'[t] \in Claiming
      PROVE  /\ Row(t)' \in Rows /\ work'[Row(t)'].state # "absent"
             /\ tpc'[t] \in {"enqueue", "mark"} => status'[Row(t)'] # "absent"
  <2>1. CASE tpc'[t] = tpc[t] /\ session'[t] = session[t]
    BY <1>1, <1>2, <1>5, <2>1, RowsKept DEF Row
  <2>2. CASE Leased(t) /\ UNCHANGED session
    <3>1. Row(t) \in Rows /\ work[Row(t)].state # "absent" /\ Row(t)' = Row(t) /\ tpc'[t] = "claimed"
      BY <2>2, Serving DEF Leased, Claimable, Row, Typed, TickTypes
    <3> QED BY <3>1, RowsKept
  <2>3. CASE tpc[t] \in Claiming /\ UNCHANGED session /\ Path(t)
    <3>1. Row(t) \in Rows /\ Row(t)' = Row(t) /\ work'[Row(t)].state # "absent"
      BY <1>1, <2>3, RowsKept DEF Row
    <3> QED BY <1>2, <2>3, <3>1 DEF Path
  <2> QED BY <1>5, <2>1, <2>2, <2>3 DEF Moves, TickMoves
<1> QED BY <1>3, <1>4, <1>5 DEF Claiming

(* Jobs without rows do not exist. *)
LEMMA ExistingAlways == Spec => []Existing
<1>1. Init => Existing
  BY NoneAssumption DEF Init, Existing, Jobs, Absent, Claiming, Rows
<1>2. Typed /\ Existing /\ [Next]_vars => Existing'
  BY StepMoves, ExistingKept
<1> QED BY <1>1, <1>2, TypedAlways, PTL DEF Spec

-----------------------------------------------------------------------------
(* What acknowledges a row came from a push of a tick, from a worker or     *)
(* from a request.                                                          *)

Evident(r) == pushes[r] > 0 \/ r \in reached

Evidence ==
    /\ \A r \in Rows :
          \/ work[r].state = "dispatched" \/ status[r] \in Ended \cup {"running"} \/ task[r] # "none"
          \/ wpc = "running" /\ wjob = r
          => Evident(r)
    /\ \A t \in Ticks : tpc[t] = "mark" => Evident(Row(t))

LEMMA EvidenceKept ==
  ASSUME Typed, Existing, Evidence, JobMoves, Moves, WorldMoves
  PROVE  Evidence'
<1> USE DEF Evidence, Evident
<1>1. \A t \in Ticks : tpc[t] \in Claiming => Row(t) \in Rows
  BY Serving DEF Claiming
<1>2. ASSUME NEW r \in Rows, Evident(r) PROVE Evident(r)'
  BY <1>2 DEF JobMoves, TaskMoves, Typed, JobTypes
<1>3. ASSUME NEW r \in Rows, work'[r].state = "dispatched" PROVE Evident(r)'
  <2>1. CASE work[r].state = "dispatched"
    BY <1>2, <2>1
  <2>2. ASSUME NEW t \in Ticks, Row(t) = r, Wrote(t, work'[r]), work[r].state # "dispatched" PROVE Evident(r)'
    BY <1>2, <1>3, <2>2 DEF Wrote
  <2> QED BY <1>3, <2>1, <2>2, OneRow DEF RowMoves
<1>4. ASSUME NEW r \in Rows, status'[r] \in Ended \cup {"running"} PROVE Evident(r)'
  <2>1. CASE status[r] # "absent" /\ r \notin PendingJobs
    <3>1. work[r].state = "dispatched"
      BY <2>1 DEF PendingJobs, Existing, Typed, WorkTypes, WorkRow
    <3> QED BY <1>2, <3>1
  <2>2. CASE status'[r] = status[r] \/ (wpc = "running" /\ wjob = r)
    BY <1>2, <1>4, <2>2
  <2> QED BY <1>4, <2>1, <2>2 DEF JobMoves, StatusMoves, Ended
<1>5. ASSUME NEW r \in Rows, task'[r] # "none" PROVE Evident(r)'
  <2>1. CASE task[r] # "none" \/ status[r] \in Ended
    BY <1>2, <2>1
  <2>2. CASE task[r] = "none" /\ status[r] \notin Ended
    BY <1>5, <2>2 DEF JobMoves, TaskMoves, Typed, JobTypes
  <2> QED BY <2>1, <2>2
<1>6. ASSUME NEW r \in Rows, wpc' = "running", wjob' = r PROVE Evident(r)'
  BY <1>2, <1>6 DEF WorldMoves
<1>7. ASSUME NEW t \in Ticks, tpc'[t] = "mark" PROVE Row(t)' \in Rows /\ Evident(Row(t))'
  <2>1. CASE tpc[t] = "mark" /\ session'[t] = session[t]
    BY <1>1, <1>2, <2>1 DEF Row, Claiming
  <2>2. CASE tpc[t] = "enqueue" /\ UNCHANGED session
    <3>1. Row(t) \in Rows /\ Row(t)' = Row(t)
      BY <1>1, <2>2 DEF Row, Claiming
    <3>2. task[Row(t)] # "none" \/ pushes'[Row(t)] = pushes[Row(t)] + 1
      BY <1>7, <2>2 DEF Moves, TickMoves, Path, Leased, Claiming
    <3> QED BY <1>2, <3>1, <3>2 DEF Typed, JobTypes
  <2> QED BY <1>7, <2>1, <2>2 DEF Typed, TickTypes, Moves, TickMoves, Path, Leased, Claiming
<1> QED BY <1>3, <1>4, <1>5, <1>6, <1>7 DEF Row

(* A row is acknowledged only for work that reached the queue, or whose job *)
(* a request took over, whatever crashes, lapsed leases, cancelled waiters  *)
(* and restarts of the worker come between its fetch and its push.          *)
THEOREM NoRowDroppedAlways == Spec => []NoRowDropped
<1>1. Init => Evidence
  BY NoneAssumption DEF Init, Evidence, Jobs, Absent, Ended, Rows
<1>2. Typed /\ Existing /\ Evidence /\ [Next]_vars => Evidence'
  BY StepMoves, EvidenceKept
<1>3. Evidence => NoRowDropped
  BY DEF Evidence, Evident, NoRowDropped
<1> QED BY <1>1, <1>2, <1>3, TypedAlways, ExistingAlways, PTL DEF Spec

-----------------------------------------------------------------------------
(* A job exists only for a row whose input is stored, and the copy a tick   *)
(* works on is the row's as long as its token is in it.                     *)

Inputs ==
    /\ \A r \in Rows : status[r] # "absent" => work[r].data # None
    /\ \A t \in Ticks :
          /\ tpc[t] \in {"fetched", "create", "enqueue", "mark"} => work[Row(t)].data # None
          /\ tpc[t] = "fetch" => item[t].data = None
          /\ tpc[t] \in Claiming /\ item[t].data # None => work[Row(t)].data # None
          /\ tpc[t] \in {"claimed", "find", "read", "fetch"} /\ Mine(t) => work[Row(t)].data = item[t].data

(* A stored input stays: a tick stores one only under its token, and then   *)
(* the row had none when the tick read it, and has none yet.                *)
LEMMA InputStays ==
  ASSUME Typed, Inputs, Moves, NEW r \in Rows, work[r].data # None
  PROVE  work'[r].data = work[r].data
<1>1. ASSUME NEW t \in Ticks, Row(t) = r, Wrote(t, work'[r]) PROVE work'[r].data = work[r].data
  BY <1>1 DEF Wrote, Inputs
<1> QED BY <1>1, OneRow DEF RowMoves

LEMMA InputsKept ==
  ASSUME Typed, Existing, Inputs, JobMoves, Moves, WorldMoves
  PROVE  Inputs'
<1>1. \A t \in Ticks : tpc[t] \in Claiming => Row(t) \in Rows
  BY Serving DEF Claiming
<1>2. ASSUME NEW r \in Rows, status'[r] # "absent" PROVE work'[r].data # None
  <2>1. work[r].data # None
    BY <1>2 DEF Inputs, Existing, JobMoves, StatusMoves
  <2> QED BY <2>1, InputStays
<1>3. ASSUME NEW t \in Ticks, tpc'[t] \in Claiming
      PROVE  /\ tpc'[t] \in {"fetched", "create", "enqueue", "mark"} => work'[Row(t)'].data # None
             /\ tpc'[t] = "fetch" => item'[t].data = None
             /\ item'[t].data # None => work'[Row(t)'].data # None
             /\ tpc'[t] \in {"claimed", "find", "read", "fetch"} /\ Mine(t)' => work'[Row(t)'].data = item'[t].data
  <2>1. CASE Leased(t) /\ UNCHANGED session
    <3>1. Row(t) \in Rows /\ Row(t)' = Row(t) /\ tpc'[t] = "claimed"
      BY <2>1, Serving DEF Leased, Row, Typed, TickTypes
    <3>2. work'[Row(t)].data = work[Row(t)].data /\ item'[t].data = work[Row(t)].data
      BY <2>1, <3>1 DEF Leased, Typed, WorkTypes, WorkRow, TickTypes
    <3> QED BY <3>1, <3>2
  <2>2. CASE tpc[t] \in Claiming /\ session'[t] = session[t] /\ item'[t] = item[t] /\ (tpc'[t] = tpc[t] \/ Path(t))
    <3>1. Row(t) \in Rows /\ Row(t)' = Row(t)
      BY <1>1, <2>2 DEF Row
    <3>2. tpc'[t] \in {"fetched", "create", "enqueue", "mark"} => work'[Row(t)].data # None
      BY <2>2, <3>1, InputStays DEF Inputs, Path
    <3>3. tpc'[t] = "fetch" => item[t].data = None
      BY <2>2 DEF Inputs, Path
    <3>4. item[t].data # None => work'[Row(t)].data # None
      BY <2>2, <3>1, InputStays DEF Inputs
    <3>5. ASSUME tpc'[t] \in {"claimed", "find", "read", "fetch"}, work'[Row(t)].holder = t
          PROVE  work'[Row(t)].data = item[t].data
      <4>1. tpc[t] \in {"claimed", "find", "read", "fetch"}
        BY <2>2, <3>5 DEF Path
      <4>2. ASSUME NEW u \in Ticks, Row(u) = Row(t), Wrote(u, work'[Row(t)]), TickMoves(u)
            PROVE  work'[Row(t)].data = work[Row(t)].data /\ Mine(t)
        <5>1. u = t
          BY <3>5, <4>2, NoneAssumption DEF Wrote
        <5> QED BY <2>2, <3>5, <4>2, <5>1 DEF Wrote, Path
      <4>3. ASSUME NEW u \in Ticks, Leased(u), Row(u) = Row(t), work'[Row(t)].holder = u PROVE FALSE
        BY <2>2, <3>5, <4>1, <4>3 DEF Leased, Path
      <4>4. work'[Row(t)].data = work[Row(t)].data /\ work[Row(t)].holder = t
        BY <3>1, <3>5, <4>2, <4>3, OneRow DEF RowMoves, Mine
      <4> QED BY <4>1, <4>4 DEF Inputs, Mine
    <3> QED BY <2>2, <3>1, <3>2, <3>3, <3>4, <3>5 DEF Mine
  <2> QED BY <1>3, <2>1, <2>2 DEF Moves, TickMoves
<1> QED BY <1>2, <1>3 DEF Inputs, Claiming

LEMMA InputsAlways == Spec => []Inputs
<1>1. Init => Inputs
  BY DEF Init, Inputs, Jobs, Absent, Claiming
<1>2. Typed /\ Existing /\ Inputs /\ [Next]_vars => Inputs'
  BY StepMoves, InputsKept
<1> QED BY <1>1, <1>2, TypedAlways, ExistingAlways, PTL DEF Spec

(* An input once stored is the input of the row, and what a worker executes *)
(* for a row was fetched and stored before.                                 *)
THEOREM InputFixedAlways == Spec => InputFixed
<1>1. Typed /\ Existing /\ Inputs /\ [Next]_vars =>
         \A r \in Rows : /\ work[r].data # None => work'[r].data = work[r].data
                         /\ (status[r] # "running" /\ status'[r] = "running") => work[r].data # None
  <2> SUFFICES ASSUME Typed, Existing, Inputs, [Next]_vars, NEW r \in Rows
               PROVE  /\ work[r].data # None => work'[r].data = work[r].data
                      /\ (status[r] # "running" /\ status'[r] = "running") => work[r].data # None
    OBVIOUS
  <2>1. work[r].data # None => work'[r].data = work[r].data
    BY StepMoves, InputStays
  <2>2. (status[r] # "running" /\ status'[r] = "running") => status[r] # "absent"
    BY StepMoves DEF JobMoves, StatusMoves, Existing
  <2> QED BY <2>1, <2>2 DEF Inputs
<1> QED BY <1>1, TypedAlways, ExistingAlways, InputsAlways, PTL DEF Spec, InputFixed

-----------------------------------------------------------------------------
(* Nobody but the tick whose token is in a row, time, and the claim of a    *)
(* row whose lease is over change the row.                                  *)
THEOREM LeaseRespectedAlways == Spec => LeaseRespected
<1> DEFINE Respected(r) ==
      /\ work[r].state = "dispatched" =>
            work'[r] = [work[r] EXCEPT !.due = work'[r].due, !.lapsed = work'[r].lapsed]
      /\ (work[r].holder # None /\ ~work[r].lapsed /\ work'[r].holder # work[r].holder)
            => tpc'[work[r].holder] # tpc[work[r].holder]
<1>1. ASSUME Typed, [Next]_vars, NEW r \in Rows PROVE Respected(r)
  <2>1. work[r] \in WorkRow /\ work \in [Rows -> WorkRow]
    BY <1>1 DEF Typed, WorkTypes
  <2>2. ASSUME work'[r] = work[r] PROVE Respected(r)
    BY <2>1, <2>2 DEF WorkRow
  <2>3. ASSUME NEW q \in Rows, Due(q) \/ Lapse(q) PROVE Respected(r)
    <3>1. \/ work'[r] = work[r] \/ work'[r] = [work[r] EXCEPT !.due = TRUE]
          \/ work'[r] = [work[r] EXCEPT !.lapsed = TRUE]
      BY <2>1, <2>3 DEF Due, Lapse
    <3> QED BY <2>1, <2>2, <3>1 DEF WorkRow
  <2>4. ASSUME NEW t \in Ticks, TickStep(t) \/ TickFault(t) PROVE Respected(r)
    <3>1. TickWork(t)
      BY <1>1, <2>4, TickWrites
    <3>2. CASE UNCHANGED work \/ (tpc[t] \notin {"idle", "fenced"} /\ r # Row(t))
      BY <1>1, <2>1, <2>2, <3>1, <3>2, Serving DEF TickWork, Seeded, Leased, Wrote
    <3>3. CASE Seeded(t) /\ r = Row(t)
      BY <2>1, <3>3 DEF Seeded, WorkRow
    <3>4. CASE Leased(t) /\ r = Row(t)
      BY <2>1, <3>4 DEF Leased, Claimable
    <3>5. ASSUME NEW row \in WorkRow, Wrote(t, row), r = Row(t) PROVE Respected(r)
      BY <1>1, <3>5, MineSeeded DEF Wrote, Mine, Claiming
    <3> QED BY <3>1, <3>2, <3>3, <3>4, <3>5 DEF TickWork, Seeded, Leased, Wrote, Claiming
  <2>5. UNCHANGED work \/ (\E q \in Rows : Due(q) \/ Lapse(q)) \/ (\E t \in Ticks : TickStep(t) \/ TickFault(t))
    BY <1>1 DEF Next, vars, NightBegins, NightEnds, WorkerStep, WorkerCrash, Boot, Suspend, Start, Finish, Pop, CleanRegistry,
       ByWorker, Request, AttachPush, Submit, Attach, Cancel, ApiLookup, SchedulerLookup, ByRequest,
       Deployment, Pause, Fence, Baseline, Resume, DeploymentCrash, ByDeployment
  <2> QED BY <2>2, <2>3, <2>4, <2>5
<1>2. Typed /\ [Next]_vars => \A r \in Rows : Respected(r)
  BY <1>1
<1> QED BY <1>2, TypedAlways, PTL DEF Spec, LeaseRespected

-----------------------------------------------------------------------------
(* From a baseline to its resume the queue is suspended, and no tick is past *)
(* its first check: the exclusive fence waited for all of them, and whoever  *)
(* enters later, when a crash of the controller has dropped the fence, reads *)
(* the suspension that is still there.                                       *)

Quiesced ==
    /\ base # <<>> => /\ paused /\ wpc \in {"boot", "free", "suspended"}
                      /\ \A t \in Ticks : tpc[t] \in {"idle", "fenced"}
    /\ ctl \in {"pausing", "fenced", "drained"} => paused
    /\ ctl \in {"fenced", "drained"} => \A t \in Ticks : tpc[t] = "idle"

(* Behind the fence and under the suspension a tick moves no further. *)
LEMMA TickHeld ==
  ASSUME Typed, Quiesced, NEW t \in Ticks, TickStep(t) \/ TickFault(t)
  PROVE  /\ Elsewhere
         /\ ctl \notin {"fenced", "drained"}
         /\ \A u \in Ticks \ {t} : tpc'[u] = tpc[u]
         /\ base # <<>> => tpc'[t] \in {"idle", "fenced"} /\ UNCHANGED <<work, jobVars>>
<1>1. Elsewhere
  BY DEF TickStep, TickFault, Enter, Admit, Seed, Check, Claim, Recheck, Find, Read, FetchRefused, FetchEligible,
     CreateJob, Enqueue, EnqueueFails, Mark, CancelWaiter, TickFails, TickCrash, TickOnly, RowOnly
<1>2. tpc[t] = "idle" => Enter(t)
  BY DEF TickStep, TickFault, Enter, Admit, Seed, Check, Claim, Recheck, Find, Read, FetchRefused, FetchEligible,
     CreateJob, Enqueue, EnqueueFails, Mark, CancelWaiter, TickFails, TickCrash
<1>3. tpc[t] = "fenced" => Admit(t) \/ TickCrash(t)
  BY DEF TickStep, TickFault, Enter, Admit, Seed, Check, Claim, Recheck, Find, Read, FetchRefused, FetchEligible,
     CreateJob, Enqueue, EnqueueFails, Mark, CancelWaiter, TickFails, TickCrash
<1>4. ctl \notin {"fenced", "drained"}
  BY <1>2 DEF Quiesced, Enter
<1>5. ASSUME base # <<>> PROVE tpc'[t] \in {"idle", "fenced"} /\ UNCHANGED <<work, jobVars>>
  <2>1. paused /\ tpc[t] \in {"idle", "fenced"}
    BY <1>5 DEF Quiesced
  <2>2. CASE Enter(t)
    BY <2>2 DEF Enter, Tick, TickOnly, Typed, TickTypes
  <2>3. CASE Admit(t) \/ TickCrash(t)
    BY <2>1, <2>3 DEF Admit, TickCrash, Return, TickOnly, Typed, TickTypes
  <2> QED BY <1>2, <1>3, <2>1, <2>2, <2>3
<1> QED BY <1>1, <1>4, <1>5, TickPath

LEMMA QuiescedKept == Typed /\ Quiesced /\ [Next]_vars => Quiesced'
<1> SUFFICES ASSUME Typed, Quiesced, [Next]_vars PROVE Quiesced'
  OBVIOUS
<1>1. ASSUME UNCHANGED <<deployVars, tpc>>, wpc' = wpc \/ wpc' \in {"boot", "free", "suspended"} \/ base = <<>>
      PROVE  Quiesced'
  BY <1>1 DEF Quiesced, deployVars
<1>2. ASSUME NEW t \in Ticks, TickStep(t) \/ TickFault(t) PROVE Quiesced'
  BY <1>2, TickHeld DEF Quiesced, Elsewhere, workerVars, deployVars
<1>3. CASE WorkerStep \/ WorkerCrash
  BY <1>1, <1>3 DEF WorkerStep, WorkerCrash, Boot, Suspend, Start, Finish, Pop, CleanRegistry, ByWorker, workerVars,
     tickVars, Quiesced
<1>4. CASE NightBegins \/ NightEnds \/ Request \/ UNCHANGED vars \/ \E r \in Rows : Due(r) \/ Lapse(r)
  BY <1>1, <1>4 DEF NightBegins, NightEnds, Due, Lapse, vars, tickVars, workerVars, Request, AttachPush, Submit, Attach,
     Cancel, ApiLookup, SchedulerLookup, ByRequest
<1>5. CASE Deployment
  <2> USE <1>5 DEF ByDeployment, tickVars, workerVars, Quiesced
  <2>1. CASE Pause \/ Fence \/ DeploymentCrash
    BY <2>1 DEF Pause, Fence, DeploymentCrash
  <2>2. CASE Baseline
    BY <2>2 DEF Baseline, Drained
  <2>3. CASE Resume
    BY <2>3 DEF Resume
  <2> QED BY <2>1, <2>2, <2>3 DEF Deployment
<1> QED BY <1>2, <1>3, <1>4, <1>5 DEF Next

LEMMA QuiescedAlways == Spec => []Quiesced
<1>1. Init => Quiesced
  BY DEF Init, Quiesced
<1>2. Typed /\ Quiesced /\ [Next]_vars => Quiesced'
  BY QuiescedKept
<1> QED BY <1>1, <1>2, TypedAlways, PTL DEF Spec

(* The two snapshots of a deployment are comparable: between them no tick   *)
(* leases, prepares or pushes anything and no worker takes a task, though   *)
(* the controller may die, losing its locks, and be recovered.              *)
THEOREM BaselineHeldAlways == Spec => BaselineHeld
<1> DEFINE Held == /\ \A r \in Rows : Untimed(r)' = Untimed(r) /\ pushes'[r] <= pushes[r]
                   /\ wjob' = wjob
<1>1. ASSUME Typed, Quiesced, [Next]_vars, base # <<>> PROVE Held
  <2>1. ASSUME NEW r \in Rows PROVE Untimed(r)' = Untimed(r)
    <3>1. work \in [Rows -> WorkRow] /\ work[r] \in WorkRow
      BY <1>1 DEF Typed, WorkTypes
    <3>2. CASE UNCHANGED work
      BY <3>2 DEF Untimed
    <3>3. ASSUME NEW q \in Rows, Due(q) \/ Lapse(q) PROVE Untimed(r)' = Untimed(r)
      <4>1. \/ work'[r] = work[r] \/ work'[r] = [work[r] EXCEPT !.due = TRUE]
            \/ work'[r] = [work[r] EXCEPT !.lapsed = TRUE]
        BY <3>1, <3>3 DEF Due, Lapse
      <4> QED BY <3>1, <4>1 DEF Untimed, WorkRow
    <3>4. (\E t \in Ticks : TickStep(t) \/ TickFault(t)) => UNCHANGED work
      BY <1>1, TickHeld
    <3>5. UNCHANGED work \/ (\E q \in Rows : Due(q) \/ Lapse(q)) \/ (\E t \in Ticks : TickStep(t) \/ TickFault(t))
      BY <1>1 DEF Next, vars, NightBegins, NightEnds, WorkerStep, WorkerCrash, Boot, Suspend, Start, Finish, Pop,
         CleanRegistry, ByWorker, Request, AttachPush, Submit, Attach, Cancel, ApiLookup, SchedulerLookup, ByRequest,
         Deployment, Pause, Fence, Baseline, Resume, DeploymentCrash, ByDeployment
    <3> QED BY <3>2, <3>3, <3>4, <3>5
  <2>2. ASSUME NEW r \in Rows PROVE pushes'[r] <= pushes[r]
    <3>1. \A t \in Ticks : tpc[t] # "enqueue"
      BY <1>1 DEF Quiesced
    <3> QED BY <1>1, <3>1, NextJobs DEF JobMoves, TaskMoves, Typed, JobTypes
  <2>3. wjob' = wjob
    <3>1. wpc \in {"boot", "free", "suspended"} /\ wjob = None
      BY <1>1 DEF Quiesced, Typed, WorldTypes
    <3>2. (\E t \in Ticks : TickStep(t) \/ TickFault(t)) => wjob' = wjob
      BY <1>1, TickHeld DEF Elsewhere, workerVars
    <3> QED BY <1>1, <3>1, <3>2 DEF Next, vars, workerVars, NightBegins, NightEnds, Due, Lapse, WorkerStep, WorkerCrash, Boot,
       Suspend, Start, Finish, Pop, CleanRegistry, Request, AttachPush, Submit, Attach, Cancel, ApiLookup,
       SchedulerLookup, ByRequest, Deployment, Pause, Fence, Baseline, Resume, DeploymentCrash, ByDeployment
  <2> QED BY <2>1, <2>2, <2>3
<1>2. Typed /\ Quiesced /\ [Next]_vars => ((base # <<>> /\ base' = base) => Held)
  BY <1>1
<1> QED BY <1>2, TypedAlways, QuiescedAlways, PTL DEF Spec, BaselineHeld
=============================================================================
