----------------------- MODULE WatchlistDispatchProofs -----------------------
(***************************************************************************)
(* Theorems about WatchlistDispatch, for any number of slots, manual jobs, *)
(* ticks and faults.                                                       *)
(*                                                                         *)
(* Shape types every variable and says what a process holds at each of its *)
(* steps: whoever works on a slot or a job has one.  It is inductive alone *)
(* and gives TypeOK and LeaseRespected; with the count of pushes it gives  *)
(* OnePush.  Evidence is what NoSlotDropped needs on top: it says for each *)
(* step of a tick, of a request and of the worker what it already knows    *)
(* about the job it is about to write.                                     *)
(***************************************************************************)
EXTENDS WatchlistDispatch, TLAPS, WellFoundedInduction

-----------------------------------------------------------------------------
(* The shape of the variables.                                              *)

Receipts == {"attached_active", "sql_execution_or_terminal", "rq_existing", "rq_created"}

Rows == [state : {"absent", "pending", "leased", "acknowledged"},
         holder : Schedulers \cup {None}, lapsed : BOOLEAN, receipt : Receipts \cup {"none"}]

(* A row has a holder while it is leased, and a receipt once acknowledged. *)
Coherent(r) == /\ r.holder # None <=> r.state = "leased"
               /\ r.receipt # "none" <=> r.state = "acknowledged"

RowShape == disp \in [Dispatches -> Rows] /\ \A d \in Dispatches : Coherent(disp[d])

JobShape ==
    /\ status \in [Jobs -> {"absent"} \cup Active \cup Ended]
    /\ cancel \in [Jobs -> BOOLEAN]
    /\ dropped \subseteq Jobs

QueueShape ==
    /\ task \in [Jobs -> {"none", "queued", "popped", "started", "finished"}]
    /\ pushes \in [Jobs -> Nat]
    /\ queued \subseteq Jobs

(* A tick past "next" works on a slot, and on what it found for it. *)
TickShape ==
    /\ spc \in [Schedulers -> {"idle", "next", "renew", "find", "probe", "orphan", "receipt",
                               "create", "read", "watch", "exec", "ack", "release"}]
    /\ todo \in [Schedulers -> SUBSET Dispatches]
    /\ item \in [Schedulers -> Dispatches \cup {None}]
    /\ act \in [Schedulers -> Jobs \cup {None}]
    /\ kind \in [Schedulers -> Receipts \cup {"none"}]
    /\ \A s \in Schedulers :
          /\ spc[s] \notin {"idle", "next"} => item[s] \in Dispatches
          /\ spc[s] \in {"probe", "orphan", "receipt"} => act[s] \in Jobs
          /\ spc[s] = "ack" => kind[s] \in Receipts

ApiShape ==
    /\ api \in {"idle", "enqueue", "attach", "recover", "close", "abandon"}
    /\ target \in Jobs \cup {None}
    /\ api # "idle" => target \in Jobs

WorkerShape ==
    /\ wpc \in {"boot", "pending", "rows", "idle", "popped", "started"}
    /\ wjob \in Jobs \cup {None}
    /\ wpc \in {"popped", "started"} => wjob \in Jobs
    /\ seen \subseteq Jobs /\ kept \subseteq Jobs

Shape == RowShape /\ JobShape /\ QueueShape /\ TickShape /\ ApiShape /\ WorkerShape
            /\ faults \in 0..MaxFaults

-----------------------------------------------------------------------------
(* Evidence.                                                                *)

(* Nobody else acts while the worker reconciles.  What depends on it is     *)
(* stated under it; the rest holds in every environment of its theorem.     *)
Alone == "boot_race" \notin Env

(* Of a slot: its row was inserted, it was acknowledged. *)
Known(j)   == j \in Dispatches => disp[j].state # "absent"
Settled(j) == j \in Dispatches => disp[j].state = "acknowledged"

(* A task was pushed by somebody; a job that went on before its slot was   *)
(* acknowledged was pushed or withdrawn.                                    *)
JobEvidence ==
    /\ \A j \in Jobs : task[j] # "none" => Reached(j) /\ Known(j)
    /\ \A d \in Dispatches : status[d] # "absent" => Known(d)
    /\ Alone => \A d \in Dispatches : status[d] \notin {"absent", "queued"} => Reached(d) \/ Settled(d)

(* What a tick knows when it writes. *)
TickEvidence ==
    \A s \in Schedulers :
        /\ \A d \in todo[s] : Known(d)
        /\ spc[s] \notin {"idle", "next"} => Known(item[s])
        /\ spc[s] = "receipt" => act[s] # item[s]
        /\ spc[s] = "read" => status[item[s]] # "absent"
        /\ spc[s] = "ack" =>
              IF kind[s] = "attached_active" THEN \E j \in Jobs \ {item[s]} : Reached(j)
              ELSE Alone => Reached(item[s]) \/ Settled(item[s])

(* A request that pushes or closes a job of a slot came after its receipt; *)
(* one that cancels it says so first.                                       *)
ApiEvidence ==
    /\ api = "attach" => Known(target)
    /\ api \in {"recover", "enqueue", "abandon"} => Settled(target)
    /\ api = "close" => target \in dropped

WorkerEvidence ==
    /\ wpc \in {"popped", "started"} => Reached(wjob) /\ Known(wjob)
    /\ Alone /\ wpc = "rows" => PendingJobs \subseteq kept

Evidence == JobEvidence /\ TickEvidence /\ ApiEvidence /\ WorkerEvidence
               /\ (Alone => NoSlotDropped)

-----------------------------------------------------------------------------
(* Operators.                                                               *)

(* The smallest of a nonempty set of slots is one of them: the slot that a  *)
(* tick takes from its list is on the list.                                 *)
LEMMA MinIsIn == ASSUME NEW S, S \subseteq Nat, S # {} PROVE Min(S) \in S
<1> DEFINE R == OpToRel(<, Nat)
<1>1. IsWellFoundedOn(R, Nat)
  BY NatLessThanWellFounded
<1>2. \A x, y \in Nat : y < x => <<y, x>> \in R
  BY DEF OpToRel
<1> HIDE DEF R
<1>3. \E x \in S : \A y \in S : <<y, x>> \notin R
  BY <1>1, WFMin, Zenon
<1>4. PICK x \in S : \A y \in S : <<y, x>> \notin R
  BY <1>3
<1>5. \A y \in S : x \in Nat /\ y \in Nat /\ ~(y < x)
  BY <1>2, <1>4
<1>6. \A y \in S : x =< y
  BY <1>5
<1> QED
  BY <1>6 DEF Min

(* Writing a coherent row keeps the table coherent. *)
LEMMA RowWritten ==
    ASSUME RowShape, NEW d \in Dispatches, NEW r \in Rows, Coherent(r),
           disp' = [disp EXCEPT ![d] = r]
    PROVE  RowShape'
BY SMT DEF RowShape

(* The rows that a tick writes, leased by it, free again or acknowledged. *)
LEMMA RowsToWrite ==
    /\ NoLease \in Rows /\ Coherent(NoLease) /\ NoLease.state = "pending" /\ NoLease.holder = None
    /\ \A s \in Schedulers : /\ Row("leased", s, "none") \in Rows /\ Coherent(Row("leased", s, "none"))
                             /\ Row("leased", s, "none").state = "leased"
    /\ \A k \in Receipts : /\ Row("acknowledged", None, k) \in Rows
                           /\ Coherent(Row("acknowledged", None, k))
                           /\ Row("acknowledged", None, k).state = "acknowledged"
                           /\ Row("acknowledged", None, k).receipt = k
BY SchedulersAssumption, SMT DEF NoLease, Row, Rows, Coherent, Receipts

(* A mark of time on a lease changes nothing else of the row. *)
LEMMA LapseMarked ==
    ASSUME RowShape, NEW d \in Dispatches, NEW b \in BOOLEAN,
           disp' = [disp EXCEPT ![d].lapsed = b]
    PROVE  /\ RowShape'
           /\ \A e \in Dispatches : /\ disp'[e].state = disp[e].state
                                    /\ disp'[e].holder = disp[e].holder
                                    /\ disp'[e].receipt = disp[e].receipt
BY SMT DEF RowShape, Rows, Coherent

(* mark_jobs_abandoned writes well typed rows. *)
LEMMA AbandonedShape == ASSUME JobShape, NEW js, Abandoned(js), UNCHANGED dropped PROVE JobShape'
BY SMT DEF JobShape, Abandoned, Active, Ended

(* So do the two ways to push. *)
LEMMA PushShape == ASSUME QueueShape, NEW j \in Jobs, Push(j) PROVE QueueShape'
BY SMT DEF QueueShape, Push

LEMMA RequeueShape == ASSUME QueueShape, target \in Jobs, Requeue PROVE QueueShape'
<1>1. CASE Push(target)
  BY <1>1, PushShape
<1>2. CASE ~Push(target)
  BY <1>2, SMT DEF QueueShape, Requeue
<1> QED
  BY <1>1, <1>2

-----------------------------------------------------------------------------
(* Every step keeps the shape.                                              *)

Elsewhere == <<apiVars, workerVars>>

LEMMA LapseShape == ASSUME Shape, NEW d \in Dispatches, Lapse(d) PROVE Shape'
<1>1. disp' = [disp EXCEPT ![d].lapsed = TRUE]
  BY DEF Lapse
<1>2. RowShape'
  BY <1>1, LapseMarked DEF Shape
<1>3. faults' \in 0..MaxFaults
  BY SlotsAssumption, SMT DEF Lapse, Fault, Shape
<1>4. /\ UNCHANGED <<status, cancel, dropped>> /\ UNCHANGED <<task, pushes, queued>>
      /\ UNCHANGED <<spc, todo, item, act, kind>> /\ UNCHANGED <<api, target>>
      /\ UNCHANGED <<wpc, wjob, seen, kept>>
  BY DEF Lapse, jobVars, rqVars, schedVars, apiVars, workerVars
<1>5. JobShape' /\ QueueShape'
  BY <1>4 DEF Shape, JobShape, QueueShape
<1>6. TickShape'
  BY <1>4 DEF Shape, TickShape
<1>7. ApiShape' /\ WorkerShape'
  BY <1>4 DEF Shape, ApiShape, WorkerShape
<1> QED
  BY <1>2, <1>3, <1>5, <1>6, <1>7 DEF Shape

(* What a step of a tick leaves alone. *)
LEMMA TickLeaves ==
    ASSUME Shape, UNCHANGED Elsewhere
    PROVE  ApiShape' /\ WorkerShape'
<1>1. UNCHANGED <<api, target>> /\ UNCHANGED <<wpc, wjob, seen, kept>>
  BY DEF Elsewhere, apiVars, workerVars
<1>2. ApiShape'
  BY <1>1 DEF Shape, ApiShape
<1>3. WorkerShape'
  BY <1>1 DEF Shape, WorkerShape
<1> QED
  BY <1>2, <1>3

LEMMA JobsLeft == ASSUME Shape, UNCHANGED jobVars, UNCHANGED dropped PROVE JobShape'
BY SMT DEF Shape, JobShape, jobVars

LEMMA QueueLeft == ASSUME Shape, UNCHANGED rqVars PROVE QueueShape'
BY SMT DEF Shape, QueueShape, rqVars

LEMMA RowsLeft == ASSUME Shape, UNCHANGED disp PROVE RowShape'
BY SMT DEF Shape, RowShape

LEMMA TicksLeft == ASSUME Shape, UNCHANGED schedVars PROVE TickShape'
<1>1. UNCHANGED <<spc, todo, item, act, kind>>
  BY DEF schedVars
<1> QED
  BY <1>1 DEF Shape, TickShape

LEMMA FaultShape == ASSUME Shape, Fault PROVE faults' \in 0..MaxFaults
BY SlotsAssumption, SMT DEF Shape, Fault

(* Letting go of a slot. *)
LEMMA RestShape ==
    ASSUME TickShape, NEW s \in Schedulers, NEW pc \in {"idle", "next"}, Rest(s, pc),
           NEW t \in SUBSET Dispatches, todo' = [todo EXCEPT ![s] = t]
    PROVE  TickShape'
BY SMT DEF TickShape, Rest, To

(* Going on with what is in its hands. *)
LEMMA GoShape ==
    ASSUME TickShape, NEW s \in Schedulers, spc[s] \notin {"idle", "next"},
           NEW pc \in {"next", "renew", "find", "create", "read", "watch", "exec", "release"},
           To(s, pc), UNCHANGED <<todo, item, kind>>,
           act' = act \/ \E j \in Jobs : act' = [act EXCEPT ![s] = j]
    PROVE  TickShape'
<1>1. todo' = todo /\ item' = item /\ kind' = kind
  OBVIOUS
<1>2. act' \in [Schedulers -> Jobs \cup {None}]
  BY SMT DEF TickShape
<1>3. \A q \in Schedulers : q # s => spc'[q] = spc[q] /\ act'[q] = act[q]
  BY SMT DEF TickShape, To
<1>4. spc'[s] = pc /\ spc' \in [Schedulers -> {"idle", "next", "renew", "find", "probe", "orphan",
                                 "receipt", "create", "read", "watch", "exec", "ack", "release"}]
  BY SMT DEF TickShape, To
<1> QED
  BY <1>1, <1>2, <1>3, <1>4, SMT DEF TickShape

(* ... with a job to look at ... *)
LEMMA LookShape ==
    ASSUME TickShape, NEW s \in Schedulers, spc[s] \notin {"idle", "next"},
           NEW pc \in {"probe", "orphan", "receipt"}, To(s, pc), UNCHANGED <<todo, item, kind>>,
           NEW j \in Jobs, act' = [act EXCEPT ![s] = j] \/ (act' = act /\ act[s] = j)
    PROVE  TickShape'
<1>1. todo' = todo /\ item' = item /\ kind' = kind
  OBVIOUS
<1>2. act' \in [Schedulers -> Jobs \cup {None}] /\ act'[s] = j
  BY SMT DEF TickShape
<1>3. \A q \in Schedulers : q # s => spc'[q] = spc[q] /\ act'[q] = act[q]
  BY SMT DEF TickShape, To
<1>4. spc'[s] = pc /\ spc' \in [Schedulers -> {"idle", "next", "renew", "find", "probe", "orphan",
                                 "receipt", "create", "read", "watch", "exec", "ack", "release"}]
  BY SMT DEF TickShape, To
<1> QED
  BY <1>1, <1>2, <1>3, <1>4, SMT DEF TickShape

(* ... or with a receipt to store. *)
LEMMA AckShape ==
    ASSUME TickShape, NEW s \in Schedulers, spc[s] \notin {"idle", "next"}, To(s, "ack"),
           UNCHANGED <<todo, item, act>>, NEW k \in Receipts, kind' = [kind EXCEPT ![s] = k]
    PROVE  TickShape'
<1>1. todo' = todo /\ item' = item /\ act' = act
  OBVIOUS
<1>2. kind' \in [Schedulers -> Receipts \cup {"none"}] /\ kind'[s] = k
  BY SMT DEF TickShape
<1>3. \A q \in Schedulers : q # s => spc'[q] = spc[q] /\ kind'[q] = kind[q]
  BY SMT DEF TickShape, To
<1>4. spc'[s] = "ack" /\ spc' \in [Schedulers -> {"idle", "next", "renew", "find", "probe", "orphan",
                                 "receipt", "create", "read", "watch", "exec", "ack", "release"}]
  BY SMT DEF TickShape, To
<1> QED
  BY <1>1, <1>2, <1>3, <1>4, SMT DEF TickShape

(* The claim: the rows of the due and free slots become leases of s. *)
LEMMA ClaimShape == ASSUME Shape, NEW s \in Schedulers, Claim(s) PROVE Shape'
<1>1. PICK due \in SUBSET {d \in Dispatches : disp[d].state = "absent"} :
          /\ disp' = [d \in Dispatches |->
                         IF d \in Free \cup due THEN Row("leased", s, "none") ELSE disp[d]]
          /\ todo' = [todo EXCEPT ![s] = Free \cup due]
  BY Zenon DEF Claim
<1>2. /\ To(s, "next") /\ UNCHANGED <<jobVars, rqVars, dropped, item, act, kind, apiVars, workerVars, faults>>
  BY Zenon DEF Claim
<1>3. RowShape'
  BY <1>1, RowsToWrite, SMT DEF Shape, RowShape
<1>4. Free \cup due \in SUBSET Dispatches
  BY DEF Free
<1>5. TickShape'
  BY <1>1, <1>2, <1>4, SMT DEF Shape, TickShape, To
<1>6. JobShape' /\ QueueShape' /\ ApiShape' /\ WorkerShape' /\ faults' = faults
  BY <1>2, JobsLeft, QueueLeft, TickLeaves DEF Elsewhere
<1> QED
  BY <1>3, <1>5, <1>6 DEF Shape

LEMMA NextItemShape == ASSUME Shape, NEW s \in Schedulers, NextItem(s) PROVE Shape'
<1>1. UNCHANGED <<disp, jobVars, rqVars, dropped, act, kind, apiVars, workerVars, faults>>
  BY DEF NextItem
<1>2. ASSUME todo[s] = {} PROVE TickShape'
  <2>1. To(s, "idle") /\ UNCHANGED <<item, todo>>
    BY <1>2 DEF NextItem
  <2> QED
    BY <1>1, <2>1, SMT DEF Shape, TickShape, To
<1>3. ASSUME todo[s] # {} PROVE TickShape'
  <2>1. /\ item' = [item EXCEPT ![s] = Min(todo[s])]
        /\ todo' = [todo EXCEPT ![s] = @ \ {Min(todo[s])}] /\ To(s, "renew")
    BY <1>3, Zenon DEF NextItem
  <2>2. todo[s] \subseteq Dispatches
    BY DEF Shape, TickShape
  <2>3. Min(todo[s]) \in Dispatches
    BY <1>3, <2>2, MinIsIn, SlotsAssumption DEF Dispatches
  <2> QED
    BY <1>1, <2>1, <2>3, SMT DEF Shape, TickShape, To
<1>4. TickShape'
  BY <1>2, <1>3 DEF Shape
<1>5. RowShape' /\ JobShape' /\ QueueShape' /\ ApiShape' /\ WorkerShape' /\ faults' = faults
  BY <1>1, RowsLeft, JobsLeft, QueueLeft, TickLeaves DEF Elsewhere
<1> QED
  BY <1>4, <1>5 DEF Shape

LEMMA StopShape == ASSUME Shape, NEW s \in Schedulers, Stop(s) PROVE Shape'
<1>1. /\ Fault /\ To(s, "idle") /\ todo' = [todo EXCEPT ![s] = {}]
      /\ disp' = [d \in Dispatches |->
                     IF d \in todo[s] /\ disp[d].state = "leased" /\ disp[d].holder = s
                     THEN NoLease ELSE disp[d]]
  BY Zenon DEF Stop
<1>2. UNCHANGED <<jobVars, rqVars, dropped, item, act, kind, apiVars, workerVars>>
  BY DEF Stop
<1>3. RowShape'
  BY <1>1, RowsToWrite, SMT DEF Shape, RowShape
<1>4. TickShape'
  BY <1>1, <1>2, SMT DEF Shape, TickShape, To
<1>5. JobShape' /\ QueueShape' /\ ApiShape' /\ WorkerShape'
  BY <1>2, JobsLeft, QueueLeft, TickLeaves DEF Elsewhere
<1> QED
  BY <1>1, <1>3, <1>4, <1>5, FaultShape DEF Shape

(* A step that moves the tick, and nothing of the tables. *)
LEMMA TickKeepsShape ==
    ASSUME Shape, NEW s \in Schedulers, spc[s] \notin {"idle", "next"},
           NEW pc \in {"create", "read", "watch", "exec", "release"}, Tick(s, pc)
    PROVE  Shape'
<1>1. To(s, pc) /\ UNCHANGED <<disp, jobVars, rqVars, dropped, todo, item, act, kind, apiVars, workerVars, faults>>
  BY DEF Tick
<1>2. TickShape'
  BY <1>1, GoShape DEF Shape
<1>3. RowShape' /\ JobShape' /\ QueueShape' /\ ApiShape' /\ WorkerShape' /\ faults' = faults
  BY <1>1, RowsLeft, JobsLeft, QueueLeft, TickLeaves DEF Elsewhere
<1> QED
  BY <1>2, <1>3 DEF Shape

LEMMA TickLooksShape ==
    ASSUME Shape, NEW s \in Schedulers, spc[s] \in {"probe", "orphan"},
           NEW pc \in {"orphan", "receipt"}, Tick(s, pc)
    PROVE  Shape'
<1>1. To(s, pc) /\ UNCHANGED <<disp, jobVars, rqVars, dropped, todo, item, act, kind, apiVars, workerVars, faults>>
  BY DEF Tick
<1>2. act[s] \in Jobs
  BY DEF Shape, TickShape
<1>3. TickShape'
  BY <1>1, <1>2, LookShape DEF Shape
<1>4. RowShape' /\ JobShape' /\ QueueShape' /\ ApiShape' /\ WorkerShape' /\ faults' = faults
  BY <1>1, RowsLeft, JobsLeft, QueueLeft, TickLeaves DEF Elsewhere
<1> QED
  BY <1>3, <1>4 DEF Shape

LEMMA FoundShape ==
    ASSUME Shape, NEW s \in Schedulers, spc[s] \in {"probe", "orphan"}, Found(s)
    PROVE  Shape'
BY TickKeepsShape, TickLooksShape DEF Found

LEMMA RenewShape == ASSUME Shape, NEW s \in Schedulers, Renew(s) PROVE Shape'
<1>1. spc[s] = "renew" /\ UNCHANGED <<jobVars, rqVars, dropped, todo, apiVars, workerVars, faults>>
  BY DEF Renew
<1>2. item[s] \in Dispatches /\ todo[s] \in SUBSET Dispatches /\ todo = [todo EXCEPT ![s] = todo[s]]
  BY <1>1, SMT DEF Shape, TickShape
<1>3. ASSUME Mine(s) PROVE RowShape' /\ TickShape'
  <2>1. /\ To(s, "find") /\ disp' = [disp EXCEPT ![item[s]].lapsed = FALSE]
        /\ UNCHANGED <<item, act, kind>>
    BY <1>3, Zenon DEF Renew
  <2>2. RowShape'
    BY <1>2, <2>1, LapseMarked DEF Shape
  <2>3. TickShape'
    BY <1>1, <2>1, GoShape DEF Shape
  <2> QED
    BY <2>2, <2>3
<1>4. ASSUME ~Mine(s) PROVE RowShape' /\ TickShape'
  <2>1. Rest(s, "next") /\ disp' = disp
    BY <1>4 DEF Renew
  <2>2. todo' = [todo EXCEPT ![s] = todo[s]]
    BY <1>1, <1>2
  <2> QED
    BY <1>2, <2>1, <2>2, RestShape, RowsLeft DEF Shape
<1>5. JobShape' /\ QueueShape' /\ ApiShape' /\ WorkerShape' /\ faults' = faults
  BY <1>1, JobsLeft, QueueLeft, TickLeaves DEF Elsewhere
<1> QED
  BY <1>3, <1>4, <1>5 DEF Shape

LEMMA FindShape == ASSUME Shape, NEW s \in Schedulers, Find(s) PROVE Shape'
<1>1. /\ spc[s] = "find"
      /\ UNCHANGED <<disp, jobVars, rqVars, dropped, todo, item, kind, apiVars, workerVars, faults>>
  BY DEF Find
<1>2. ASSUME To(s, "create") /\ UNCHANGED act PROVE TickShape'
  BY <1>1, <1>2, GoShape DEF Shape
<1>3. ASSUME \E j \in Holders : To(s, "probe") /\ act' = [act EXCEPT ![s] = j] PROVE TickShape'
  <2>1. PICK j \in Jobs : To(s, "probe") /\ act' = [act EXCEPT ![s] = j]
    BY <1>3 DEF Holders
  <2> QED
    BY <1>1, <2>1, LookShape DEF Shape
<1>4. TickShape'
  BY <1>2, <1>3, Zenon DEF Find
<1>5. RowShape' /\ JobShape' /\ QueueShape' /\ ApiShape' /\ WorkerShape' /\ faults' = faults
  BY <1>1, RowsLeft, JobsLeft, QueueLeft, TickLeaves DEF Elsewhere
<1> QED
  BY <1>4, <1>5 DEF Shape

LEMMA ProbeShape == ASSUME Shape, NEW s \in Schedulers, Probe(s) PROVE Shape'
BY FoundShape, TickLooksShape DEF Probe

LEMMA ProbeFailsShape == ASSUME Shape, NEW s \in Schedulers, ProbeFails(s) PROVE Shape'
<1>1. /\ spc[s] = "probe" /\ Fault
      /\ UNCHANGED <<disp, jobVars, rqVars, dropped, todo, item, act, kind, apiVars, workerVars>>
  BY DEF ProbeFails
<1>2. act[s] \in Jobs
  BY <1>1 DEF Shape, TickShape
<1>3. To(s, "create") \/ To(s, "receipt")
  BY DEF ProbeFails
<1>4. TickShape'
  BY <1>1, <1>2, <1>3, GoShape, LookShape DEF Shape
<1>5. RowShape' /\ JobShape' /\ QueueShape' /\ ApiShape' /\ WorkerShape'
  BY <1>1, RowsLeft, JobsLeft, QueueLeft, TickLeaves DEF Elsewhere
<1> QED
  BY <1>1, <1>4, <1>5, FaultShape DEF Shape

LEMMA OrphanShape == ASSUME Shape, NEW s \in Schedulers, Orphan(s) PROVE Shape'
<1>1. spc[s] = "orphan"
  BY DEF Orphan
<1>2. CASE Found(s)
  BY <1>1, <1>2, FoundShape
<1>3. CASE /\ Abandoned({act[s]}) /\ To(s, "create")
           /\ UNCHANGED <<disp, rqVars, dropped, todo, item, act, kind, apiVars, workerVars, faults>>
  <2>1. TickShape'
    BY <1>1, <1>3, GoShape DEF Shape
  <2>2. JobShape'
    BY <1>3, AbandonedShape DEF Shape
  <2>3. RowShape' /\ QueueShape' /\ ApiShape' /\ WorkerShape' /\ faults' = faults
    BY <1>3, RowsLeft, QueueLeft, TickLeaves DEF Elsewhere
  <2> QED
    BY <2>1, <2>2, <2>3 DEF Shape
<1> QED
  BY <1>2, <1>3 DEF Orphan

(* A step that leaves the tick with a receipt, and nothing of the tables. *)
LEMMA ReceivesShape ==
    ASSUME Shape, NEW s \in Schedulers, spc[s] \notin {"idle", "next"}, To(s, "ack"),
           NEW k \in Receipts, kind' = [kind EXCEPT ![s] = k],
           UNCHANGED <<disp, jobVars, rqVars, dropped, todo, item, act, apiVars, workerVars, faults>>
    PROVE  Shape'
<1>1. TickShape'
  BY AckShape DEF Shape
<1>2. RowShape' /\ JobShape' /\ QueueShape' /\ ApiShape' /\ WorkerShape' /\ faults' = faults
  BY RowsLeft, JobsLeft, QueueLeft, TickLeaves DEF Elsewhere
<1> QED
  BY <1>1, <1>2 DEF Shape

LEMMA ReceiptShape == ASSUME Shape, NEW s \in Schedulers, Receipt(s) PROVE Shape'
<1>1. spc[s] = "receipt"
  BY DEF Receipt
<1>2. CASE Tick(s, "release")
  BY <1>1, <1>2, TickKeepsShape
<1>3. CASE ~Tick(s, "release")
  <2>1. /\ To(s, "ack") /\ kind' = [kind EXCEPT ![s] = "attached_active"]
        /\ UNCHANGED <<disp, jobVars, rqVars, dropped, todo, item, act, apiVars, workerVars, faults>>
    BY <1>3, Zenon DEF Receipt
  <2> QED
    BY <1>1, <2>1, ReceivesShape DEF Receipts
<1> QED
  BY <1>2, <1>3

LEMMA CreateJobShape == ASSUME Shape, NEW s \in Schedulers, CreateJob(s) PROVE Shape'
<1>1. spc[s] = "create" /\ item[s] \in Jobs
  BY DEF CreateJob, Shape, TickShape, Jobs
<1>2. CASE Tick(s, "read") \/ Tick(s, "release")
  BY <1>1, <1>2, TickKeepsShape
<1>3. CASE ~(Tick(s, "read") \/ Tick(s, "release"))
  <2>1. /\ status' = [status EXCEPT ![item[s]] = "queued"] /\ To(s, "read")
        /\ UNCHANGED <<disp, cancel, rqVars, dropped, todo, item, act, kind, apiVars, workerVars, faults>>
    BY <1>3, Zenon DEF CreateJob
  <2>2. TickShape'
    BY <1>1, <2>1, GoShape DEF Shape
  <2>3. JobShape'
    BY <1>1, <2>1, SMT DEF Shape, JobShape, Active
  <2>4. RowShape' /\ QueueShape' /\ ApiShape' /\ WorkerShape' /\ faults' = faults
    BY <2>1, RowsLeft, QueueLeft, TickLeaves DEF Elsewhere
  <2> QED
    BY <2>2, <2>3, <2>4 DEF Shape
<1> QED
  BY <1>2, <1>3

LEMMA ReadShape == ASSUME Shape, NEW s \in Schedulers, Read(s) PROVE Shape'
<1>1. /\ spc[s] = "read"
      /\ UNCHANGED <<disp, jobVars, rqVars, dropped, todo, item, act, apiVars, workerVars, faults>>
  BY DEF Read
<1>2. CASE To(s, "watch") /\ UNCHANGED kind
  BY <1>1, <1>2, TickKeepsShape DEF Tick
<1>3. CASE To(s, "ack") /\ kind' = [kind EXCEPT ![s] = "sql_execution_or_terminal"]
  BY <1>1, <1>3, ReceivesShape DEF Receipts
<1> QED
  BY <1>2, <1>3, Zenon DEF Read

LEMMA WatchShape == ASSUME Shape, NEW s \in Schedulers, Watch(s) PROVE Shape'
<1>1. spc[s] = "watch"
  BY DEF Watch
<1>2. CASE Tick(s, "exec") \/ Tick(s, "release")
  BY <1>1, <1>2, TickKeepsShape
<1>3. CASE ~(Tick(s, "exec") \/ Tick(s, "release"))
  <2>1. /\ To(s, "ack") /\ kind' = [kind EXCEPT ![s] = "rq_existing"]
        /\ UNCHANGED <<disp, jobVars, rqVars, dropped, todo, item, act, apiVars, workerVars, faults>>
    BY <1>3, Zenon DEF Watch
  <2> QED
    BY <1>1, <2>1, ReceivesShape DEF Receipts
<1> QED
  BY <1>2, <1>3

LEMMA ExecShape == ASSUME Shape, NEW s \in Schedulers, Exec(s) PROVE Shape'
<1>1. spc[s] = "exec" /\ item[s] \in Jobs
  BY DEF Exec, Shape, TickShape, Jobs
<1>2. CASE Tick(s, "watch")
  BY <1>1, <1>2, TickKeepsShape
<1>3. CASE ~Tick(s, "watch")
  <2>1. /\ Push(item[s]) /\ To(s, "ack") /\ kind' = [kind EXCEPT ![s] = "rq_created"]
        /\ UNCHANGED <<disp, jobVars, dropped, todo, item, act, apiVars, workerVars, faults>>
    BY <1>3, Zenon DEF Exec
  <2>2. TickShape'
    BY <1>1, <2>1, AckShape DEF Shape, Receipts
  <2>3. QueueShape'
    BY <1>1, <2>1, PushShape DEF Shape
  <2>4. RowShape' /\ JobShape' /\ ApiShape' /\ WorkerShape' /\ faults' = faults
    BY <2>1, RowsLeft, JobsLeft, TickLeaves DEF Elsewhere
  <2> QED
    BY <2>2, <2>3, <2>4 DEF Shape
<1> QED
  BY <1>2, <1>3

LEMMA RedisFailsShape == ASSUME Shape, NEW s \in Schedulers, RedisFails(s) PROVE Shape'
<1>1. /\ spc[s] \in {"receipt", "watch", "exec"} /\ Fault /\ To(s, "release")
      /\ UNCHANGED <<disp, jobVars, dropped, todo, item, act, kind, apiVars, workerVars>>
      /\ UNCHANGED rqVars \/ Push(item[s])
  BY DEF RedisFails
<1>2. item[s] \in Jobs
  BY <1>1 DEF Shape, TickShape, Jobs
<1>3. TickShape'
  BY <1>1, GoShape DEF Shape
<1>4. QueueShape'
  BY <1>1, <1>2, QueueLeft, PushShape DEF Shape
<1>5. RowShape' /\ JobShape' /\ ApiShape' /\ WorkerShape'
  BY <1>1, RowsLeft, JobsLeft, TickLeaves DEF Elsewhere
<1> QED
  BY <1>1, <1>3, <1>4, <1>5, FaultShape DEF Shape

(* The end of an item, whatever is written to its row. *)
LEMMA LetGoShape ==
    ASSUME Shape, NEW s \in Schedulers, Rest(s, "next"), item[s] \in Dispatches,
           NEW r \in Rows, Coherent(r), disp' = disp \/ disp' = [disp EXCEPT ![item[s]] = r],
           UNCHANGED <<jobVars, rqVars, dropped, todo, apiVars, workerVars, faults>>
    PROVE  Shape'
<1>1. RowShape'
  BY RowWritten, RowsLeft DEF Shape
<1>2. todo[s] \in SUBSET Dispatches /\ todo' = [todo EXCEPT ![s] = todo[s]]
  BY SMT DEF Shape, TickShape
<1>3. TickShape'
  BY <1>2, RestShape DEF Shape
<1>4. JobShape' /\ QueueShape' /\ ApiShape' /\ WorkerShape' /\ faults' = faults
  BY JobsLeft, QueueLeft, TickLeaves DEF Elsewhere
<1> QED
  BY <1>1, <1>3, <1>4 DEF Shape

LEMMA AcknowledgeShape == ASSUME Shape, NEW s \in Schedulers, Acknowledge(s) PROVE Shape'
<1>1. /\ spc[s] = "ack" /\ Rest(s, "next")
      /\ UNCHANGED <<jobVars, rqVars, dropped, todo, apiVars, workerVars, faults>>
      /\ disp' = disp \/ disp' = [disp EXCEPT ![item[s]] = Row("acknowledged", None, kind[s])]
  BY DEF Acknowledge
<1>2. item[s] \in Dispatches /\ kind[s] \in Receipts
  BY <1>1 DEF Shape, TickShape
<1> QED
  BY <1>1, <1>2, RowsToWrite, LetGoShape

LEMMA ReleaseShape == ASSUME Shape, NEW s \in Schedulers, Release(s) PROVE Shape'
<1>1. /\ spc[s] = "release" /\ Rest(s, "next")
      /\ UNCHANGED <<jobVars, rqVars, dropped, todo, apiVars, workerVars, faults>>
      /\ disp' = disp \/ disp' = [disp EXCEPT ![item[s]] = NoLease]
  BY DEF Release
<1>2. item[s] \in Dispatches
  BY <1>1 DEF Shape, TickShape
<1> QED
  BY <1>1, <1>2, RowsToWrite, LetGoShape

LEMMA SchedulerCrashShape == ASSUME Shape, NEW s \in Schedulers, SchedulerCrash(s) PROVE Shape'
<1>1. /\ Fault /\ Rest(s, "idle") /\ todo' = [todo EXCEPT ![s] = {}]
      /\ UNCHANGED <<disp, jobVars, rqVars, dropped, apiVars, workerVars>>
  BY DEF SchedulerCrash
<1>2. TickShape'
  BY <1>1, RestShape DEF Shape
<1>3. RowShape' /\ JobShape' /\ QueueShape' /\ ApiShape' /\ WorkerShape'
  BY <1>1, RowsLeft, JobsLeft, QueueLeft, TickLeaves DEF Elsewhere
<1> QED
  BY <1>1, <1>2, <1>3, FaultShape DEF Shape

LEMMA TickStepShape == ASSUME Shape, NEW s \in Schedulers, TickStep(s) PROVE Shape'
BY ClaimShape, NextItemShape, RenewShape, FindShape, ProbeShape, OrphanShape, ReceiptShape,
   CreateJobShape, ReadShape, WatchShape, ExecShape, AcknowledgeShape, ReleaseShape, Zenon
   DEF TickStep

(* The API process. *)
LEMMA ApiMoves ==
    ASSUME Shape, NEW j \in Jobs,
           NEW pc \in {"idle", "enqueue", "attach", "recover", "close", "abandon"}, Api(pc, j)
    PROVE  RowShape' /\ TickShape' /\ ApiShape' /\ WorkerShape'
<1>1. /\ api' = pc /\ target' = IF pc = "idle" THEN None ELSE j
      /\ UNCHANGED <<disp, schedVars, workerVars>>
  BY DEF Api
<1>2. ApiShape'
  BY <1>1, SMT DEF ApiShape
<1>3. UNCHANGED <<wpc, wjob, seen, kept>>
  BY <1>1 DEF workerVars
<1>4. WorkerShape'
  BY <1>3 DEF Shape, WorkerShape
<1> QED
  BY <1>1, <1>2, <1>4, RowsLeft, TicksLeft

LEMMA ApiStepShape == ASSUME Shape, ApiStep PROVE Shape'
<1>1. /\ api # "idle" /\ target \in Jobs
  BY DEF ApiStep, LeavePending, Recover, Enqueue, Close, LookupAbandons, Shape, ApiShape
<1>2. CASE LeavePending
  <2>1. (Api("idle", target) \/ Api("recover", target)) /\ UNCHANGED <<jobVars, rqVars, dropped, faults>>
    BY <1>2 DEF LeavePending
  <2> QED
    BY <1>1, <2>1, ApiMoves, JobsLeft, QueueLeft DEF Shape
<1>3. CASE Recover
  <2>1. (Api("idle", target) \/ Api("enqueue", target)) /\ UNCHANGED <<jobVars, rqVars, dropped, faults>>
    BY <1>3 DEF Recover
  <2> QED
    BY <1>1, <2>1, ApiMoves, JobsLeft, QueueLeft DEF Shape
<1>4. CASE Enqueue
  BY <1>1, <1>4, ApiMoves, JobsLeft, RequeueShape DEF Shape, Enqueue
<1>5. CASE Close
  <2>1. JobShape'
    BY <1>1, <1>5, SMT DEF Close, Shape, JobShape, Ended
  <2> QED
    BY <1>1, <1>5, <2>1, ApiMoves, QueueLeft DEF Shape, Close
<1>6. CASE LookupAbandons
  BY <1>1, <1>6, ApiMoves, AbandonedShape, QueueLeft DEF Shape, LookupAbandons
<1> QED
  BY <1>2, <1>3, <1>4, <1>5, <1>6 DEF ApiStep

LEMMA RequestShape == ASSUME Shape, Request PROVE Shape'
<1>1. PICK j \in Jobs : Submit(j) \/ Attach(j) \/ Cancel(j) \/ Lookup(j)
  BY DEF Request
<1>2. CASE Submit(j)
  <2>1. JobShape'
    BY <1>2, SMT DEF Submit, Shape, JobShape, Holders, Active, Ended
  <2> QED
    BY <1>2, <2>1, ApiMoves, QueueLeft DEF Shape, Submit
<1>3. CASE Attach(j)
  BY <1>3, ApiMoves, JobsLeft, QueueLeft DEF Shape, Attach
<1>4. CASE Cancel(j)
  <2>1. /\ Api("close", j) /\ dropped' = dropped \cup {j} /\ UNCHANGED <<jobVars, faults>>
        /\ UNCHANGED rqVars \/ /\ task' = [task EXCEPT ![j] = "none"]
                               /\ pushes' = [pushes EXCEPT ![j] = 0] /\ UNCHANGED queued
    BY <1>4, Zenon DEF Cancel
  <2>2. QueueShape'
    <3>1. CASE UNCHANGED rqVars
      BY <3>1, QueueLeft
    <3>2. CASE /\ task' = [task EXCEPT ![j] = "none"]
               /\ pushes' = [pushes EXCEPT ![j] = 0] /\ UNCHANGED queued
      BY <3>2, SMT DEF Shape, QueueShape
    <3> QED
      BY <2>1, <3>1, <3>2
  <2>3. JobShape'
    BY <2>1 DEF Shape, JobShape, jobVars
  <2> QED
    BY <2>1, <2>2, <2>3, ApiMoves DEF Shape
<1>5. CASE Lookup(j)
  BY <1>5, ApiMoves, JobsLeft, QueueLeft DEF Shape, Lookup
<1> QED
  BY <1>1, <1>2, <1>3, <1>4, <1>5

(* The worker. *)
LEMMA WorkerMoves ==
    ASSUME Shape, NEW pc \in {"boot", "pending", "rows", "idle", "popped", "started"}, Worker(pc),
           wjob' \in Jobs \cup {None}, pc \in {"popped", "started"} => wjob' \in Jobs,
           seen' \subseteq Jobs, kept' \subseteq Jobs
    PROVE  RowShape' /\ TickShape' /\ ApiShape' /\ WorkerShape'
<1>1. wpc' = pc /\ UNCHANGED <<disp, schedVars, apiVars>>
  BY DEF Worker
<1>2. WorkerShape'
  BY <1>1, SMT DEF WorkerShape
<1>3. UNCHANGED <<api, target>>
  BY <1>1 DEF apiVars
<1>4. ApiShape'
  BY <1>3 DEF Shape, ApiShape
<1> QED
  BY <1>1, <1>2, <1>4, RowsLeft, TicksLeft

LEMMA WorkerStepShape == ASSUME Shape, WorkerStep PROVE Shape'
<1>1. /\ wjob \in Jobs \cup {None} /\ (wpc \in {"popped", "started"} => wjob \in Jobs)
      /\ seen \subseteq Jobs /\ kept \subseteq Jobs
      /\ wpc \in {"boot", "pending", "rows", "idle", "popped", "started"}
  BY DEF Shape, WorkerShape
<1>2. CASE ReadQueues
  <2>1. seen' \subseteq Jobs /\ UNCHANGED <<wjob, kept>> /\ Worker("pending")
    BY <1>2 DEF ReadQueues
  <2> QED
    BY <1>1, <1>2, <2>1, WorkerMoves, JobsLeft, QueueLeft DEF ReadQueues, Shape
<1>3. CASE ReadPending
  <2>1. kept' \subseteq Jobs /\ UNCHANGED <<wjob, seen>> /\ Worker("rows")
    BY <1>3 DEF ReadPending, PendingJobs, Jobs
  <2> QED
    BY <1>1, <1>3, <2>1, WorkerMoves, JobsLeft, QueueLeft DEF ReadPending, Shape
<1>4. CASE CloseRows
  <2>1. seen' \subseteq Jobs /\ kept' \subseteq Jobs /\ UNCHANGED wjob /\ Worker("idle")
    BY <1>4 DEF CloseRows
  <2>2. Abandoned(Jobs \ (seen \cup kept)) /\ UNCHANGED <<rqVars, dropped, faults>>
    BY <1>4 DEF CloseRows
  <2> QED
    BY <1>1, <2>1, <2>2, WorkerMoves, AbandonedShape, QueueLeft DEF Shape
<1>5. CASE Start
  <2>1. /\ wjob \in Jobs /\ task' = [task EXCEPT ![wjob] = "started"]
        /\ status' = [status EXCEPT ![wjob] = IF @ \in Ended THEN @ ELSE "running"]
        /\ Worker("started") /\ UNCHANGED <<cancel, pushes, queued, dropped, wjob, seen, kept, faults>>
    BY <1>1, <1>5, Zenon DEF Start
  <2>2. QueueShape'
    BY <2>1, SMT DEF Shape, QueueShape
  <2>3. JobShape'
    BY <2>1, SMT DEF Shape, JobShape, Active
  <2> QED
    BY <1>1, <2>1, <2>2, <2>3, WorkerMoves DEF Shape
<1>6. CASE Finish
  <2>1. /\ wjob \in Jobs /\ task' = [task EXCEPT ![wjob] = "finished"] /\ wjob' = None
        /\ Worker("idle") /\ UNCHANGED <<cancel, pushes, queued, dropped, seen, kept, faults>>
    BY <1>1, <1>6 DEF Finish
  <2>2. PICK e \in Ended : status' = [status EXCEPT ![wjob] = IF @ \in Ended THEN @ ELSE e]
    <3>1. \A e \in {"error", IF cancel[wjob] THEN "cancelled" ELSE "done"} : e \in Ended
      BY DEF Ended
    <3> QED
      BY <1>6, <3>1, Zenon DEF Finish
  <2>3. QueueShape'
    BY <2>1, SMT DEF Shape, QueueShape
  <2>4. JobShape'
    BY <2>1, <2>2, SMT DEF Shape, JobShape
  <2> QED
    BY <1>1, <2>1, <2>3, <2>4, WorkerMoves DEF Shape
<1>7. CASE \E j \in Jobs : Pop(j) \/ CleanRegistry(j)
  <2>1. PICK j \in Jobs : Pop(j) \/ CleanRegistry(j)
    BY <1>7
  <2>2. CASE Pop(j)
    <3>1. /\ task' = [task EXCEPT ![j] = "popped"] /\ wjob' = j /\ Worker("popped")
          /\ UNCHANGED <<jobVars, pushes, queued, dropped, seen, kept, faults>>
      BY <2>2, Zenon DEF Pop
    <3>2. QueueShape'
      BY <3>1, SMT DEF Shape, QueueShape
    <3> QED
      BY <1>1, <3>1, <3>2, WorkerMoves, JobsLeft DEF Shape
  <2>3. CASE CleanRegistry(j)
    <3>1. /\ \E t \in {"queued", "finished"} : task' = [task EXCEPT ![j] = t]
          /\ Worker(wpc) /\ UNCHANGED <<jobVars, pushes, queued, dropped, wjob, seen, kept, faults>>
      BY <2>3, Zenon DEF CleanRegistry
    <3>2. QueueShape'
      BY <3>1, SMT DEF Shape, QueueShape
    <3> QED
      BY <1>1, <3>1, <3>2, WorkerMoves, JobsLeft DEF Shape
  <2> QED
    BY <2>1, <2>2, <2>3
<1> QED
  BY <1>2, <1>3, <1>4, <1>5, <1>6, <1>7, Zenon DEF WorkerStep

LEMMA FaultsShape == ASSUME Shape, Faults PROVE Shape'
<1>1. CASE \E s \in Schedulers : Stop(s) \/ ProbeFails(s) \/ RedisFails(s) \/ SchedulerCrash(s)
  BY <1>1, StopShape, ProbeFailsShape, RedisFailsShape, SchedulerCrashShape
<1>2. CASE EnqueueFails
  <2>1. target \in Jobs
    BY <1>2 DEF EnqueueFails, Shape, ApiShape
  <2>2. /\ Fault /\ (UNCHANGED rqVars \/ Requeue)
        /\ status' = [status EXCEPT ![target] = IF @ \in Ended THEN @ ELSE "error"]
        /\ Api("idle", target) /\ UNCHANGED <<cancel, dropped>>
    BY <1>2, Zenon DEF EnqueueFails
  <2>3. JobShape'
    BY <2>1, <2>2, SMT DEF Shape, JobShape, Ended
  <2>4. QueueShape'
    BY <2>1, <2>2, QueueLeft, RequeueShape DEF Shape
  <2>5. RowShape' /\ TickShape' /\ ApiShape' /\ WorkerShape'
    BY <2>1, <2>2, ApiMoves
  <2>6. faults' \in 0..MaxFaults
    <3>1. Fault
      BY <1>2 DEF EnqueueFails
    <3> QED
      BY <3>1, FaultShape
  <2> QED
    BY <2>3, <2>4, <2>5, <2>6 DEF Shape
<1>3. CASE ApiCrash
  <2>1. target \in Jobs
    BY <1>3 DEF ApiCrash, Shape, ApiShape
  <2> QED
    BY <1>3, <2>1, ApiMoves, JobsLeft, QueueLeft, FaultShape DEF Shape, ApiCrash
<1>4. CASE WorkerCrash
  <2>1. /\ Fault /\ wjob' = None /\ Worker("boot") /\ UNCHANGED <<jobVars, rqVars, dropped, seen, kept>>
    BY <1>4 DEF WorkerCrash
  <2>2. seen \subseteq Jobs /\ kept \subseteq Jobs
    BY DEF Shape, WorkerShape
  <2> QED
    BY <2>1, <2>2, WorkerMoves, JobsLeft, QueueLeft, FaultShape DEF Shape
<1> QED
  BY <1>1, <1>2, <1>3, <1>4, Zenon DEF Faults

LEMMA ShapeInit == Init => Shape
BY SlotsAssumption, ManualAssumption, SMT DEF Init, Shape, RowShape, JobShape, QueueShape, TickShape, ApiShape, WorkerShape,
   Row, Rows, Coherent, Receipts, Active, Ended

LEMMA ShapeStutter == ASSUME Shape, UNCHANGED vars PROVE Shape'
<1>1. UNCHANGED <<disp, jobVars, rqVars, dropped, schedVars, apiVars, workerVars, faults>>
  BY DEF vars
<1> QED
  BY <1>1, RowsLeft, JobsLeft, QueueLeft, TicksLeft, TickLeaves DEF Elsewhere, Shape

LEMMA ShapeStep == Shape /\ [Next]_vars => Shape'
<1> SUFFICES ASSUME Shape, [Next]_vars PROVE Shape'
  OBVIOUS
<1>1. CASE Next
  BY <1>1, LapseShape, TickStepShape, ApiStepShape, WorkerStepShape, RequestShape, FaultsShape, Zenon
     DEF Next
<1> QED
  BY <1>1, ShapeStutter

LEMMA ShapeAlways == Spec => []Shape
BY ShapeInit, ShapeStep, PTL DEF Spec

(* Every variable of the dispatch has its type in every reachable state, for *)
(* any number of slots, jobs, ticks and faults.                              *)
THEOREM TypesAlways == Spec => []TypeOK
<1>1. Shape => TypeOK
  BY SMT DEF Shape, RowShape, JobShape, QueueShape, TickShape, ApiShape, WorkerShape, TypeOK,
     Rows, Coherent
<1> QED
  BY <1>1, ShapeAlways, PTL

-----------------------------------------------------------------------------
(* Leases.                                                                  *)

(* The steps that write watchlist_dispatches. *)
RowWriter ==
    \/ \E d \in Dispatches : Lapse(d)
    \/ \E s \in Schedulers : Claim(s) \/ Stop(s) \/ Renew(s) \/ Acknowledge(s) \/ Release(s)

LEMMA RowsWritten == ASSUME [Next]_vars PROVE RowWriter \/ disp' = disp
<1>1. ASSUME NEW s \in Schedulers, TickStep(s) PROVE RowWriter \/ disp' = disp
  <2>1. \/ Claim(s) \/ Renew(s) \/ Acknowledge(s) \/ Release(s)
        \/ NextItem(s) \/ Find(s) \/ Probe(s) \/ Orphan(s) \/ Receipt(s)
        \/ CreateJob(s) \/ Read(s) \/ Watch(s) \/ Exec(s)
    BY <1>1, Zenon DEF TickStep
  <2>2. \A pc : Tick(s, pc) => disp' = disp
    BY DEF Tick
  <2>3. Found(s) => disp' = disp
    BY <2>2 DEF Found
  <2>4. NextItem(s) \/ Find(s) \/ CreateJob(s) \/ Read(s) => disp' = disp
    BY <2>2 DEF NextItem, Find, CreateJob, Read
  <2>5. Probe(s) \/ Orphan(s) \/ Receipt(s) \/ Watch(s) \/ Exec(s) => disp' = disp
    BY <2>2, <2>3 DEF Probe, Orphan, Receipt, Watch, Exec
  <2> QED
    BY <2>1, <2>4, <2>5 DEF RowWriter
<1>2. ApiStep \/ Request \/ WorkerStep => disp' = disp
  BY DEF ApiStep, LeavePending, Recover, Enqueue, Close, LookupAbandons, Request, Submit, Attach, Cancel,
     Lookup, Api, WorkerStep, ReadQueues, ReadPending, CloseRows, Start, Finish, Pop, CleanRegistry, Worker
<1>3. Faults => RowWriter \/ disp' = disp
  BY DEF Faults, ProbeFails, RedisFails, SchedulerCrash, EnqueueFails, ApiCrash, WorkerCrash, Api, Worker, RowWriter
<1>4. UNCHANGED vars => disp' = disp
  BY DEF vars
<1> QED
  BY <1>1, <1>2, <1>3, <1>4, Zenon DEF Next, RowWriter

(* What a step may do to a row. *)
RowStep(d) ==
    /\ disp[d].state = "acknowledged" => disp'[d] = disp[d]
    /\ disp[d].state # "absent" => disp'[d].state # "absent"
    /\ disp[d].state \in {"pending", "leased"} /\ disp'[d].state # "acknowledged" => disp'[d].state \in {"pending", "leased"}
    /\ (disp[d].state = "leased" /\ disp'[d].state \in {"pending", "acknowledged"})
          => \E s \in Schedulers : disp[d].holder = s /\ spc'[s] # spc[s]
    /\ disp'[d].state = "acknowledged" /\ disp[d].state # "acknowledged" =>
          \E s \in Schedulers : Acknowledge(s) /\ item[s] = d /\ disp'[d].receipt = kind[s]

LEMMA RowSteps == ASSUME Shape, [Next]_vars PROVE \A d \in Dispatches : RowStep(d)
<1> USE DEF RowStep
<1>1. CASE disp' = disp
  <2>1. \A d \in Dispatches : disp'[d].state = disp[d].state
    BY <1>1
  <2>2. \A d \in Dispatches : disp[d].state \in {"absent", "pending", "leased", "acknowledged"}
    BY SMT DEF Shape, RowShape, Rows
  <2> QED
    BY <1>1, <2>1, <2>2
<1>2. ASSUME NEW e \in Dispatches, Lapse(e) PROVE \A d \in Dispatches : RowStep(d)
  BY <1>2, SMT DEF Lapse, Shape, RowShape, Rows
<1>3. ASSUME NEW s \in Schedulers, Renew(s) PROVE \A d \in Dispatches : RowStep(d)
  <2>1. item[s] \in Dispatches
    BY <1>3 DEF Renew, Shape, TickShape
  <2>2. CASE Mine(s)
    <3>1. disp' = [disp EXCEPT ![item[s]].lapsed = FALSE]
      BY <1>3, <2>2 DEF Renew
    <3>2. \A d \in Dispatches : disp'[d].state = disp[d].state
      BY <2>1, <3>1, LapseMarked DEF Shape
    <3>3. \A d \in Dispatches : disp[d].state = "acknowledged" => disp'[d] = disp[d]
      BY <2>1, <2>2, <3>1, SMT DEF Mine, Shape, RowShape
    <3> QED
      BY <3>2, <3>3, SMT DEF Shape, RowShape, Rows
  <2> QED
    BY <1>1, <1>3, <2>2 DEF Renew
<1>4. ASSUME NEW s \in Schedulers, Claim(s) PROVE \A d \in Dispatches : RowStep(d)
  <2>1. PICK due \in SUBSET {d \in Dispatches : disp[d].state = "absent"} :
            disp' = [d \in Dispatches |->
                        IF d \in Free \cup due THEN Row("leased", s, "none") ELSE disp[d]]
    BY <1>4, Zenon DEF Claim
  <2>2. \A d \in Free \cup due : disp[d].state # "acknowledged"
    BY DEF Free
  <2> QED
    BY <2>1, <2>2, RowsToWrite, SMT DEF Shape, RowShape, Rows
<1>5. ASSUME NEW s \in Schedulers, Stop(s) PROVE \A d \in Dispatches : RowStep(d)
  <2>1. disp' = [d \in Dispatches |->
                    IF d \in todo[s] /\ disp[d].state = "leased" /\ disp[d].holder = s
                    THEN NoLease ELSE disp[d]]
    BY <1>5, Zenon DEF Stop
  <2>2. spc'[s] # spc[s]
    BY <1>5, SMT DEF Stop, To, Shape, TickShape
  <2> QED
    BY <2>1, <2>2, RowsToWrite, SMT DEF Shape, RowShape, Rows
<1>6. ASSUME NEW s \in Schedulers, Acknowledge(s) PROVE \A d \in Dispatches : RowStep(d)
  <2>1. item[s] \in Dispatches /\ kind[s] \in Receipts /\ spc'[s] # spc[s]
    BY <1>6, SMT DEF Acknowledge, Rest, To, Shape, TickShape
  <2>2. CASE Mine(s)
    <3>1. disp' = [disp EXCEPT ![item[s]] = Row("acknowledged", None, kind[s])]
      BY <1>6, <2>2 DEF Acknowledge
    <3>2. disp'[item[s]].state = "acknowledged" /\ disp'[item[s]].receipt = kind[s]
      BY <2>1, <3>1, RowsToWrite, SMT DEF Shape, RowShape
    <3>3. disp[item[s]].state = "leased" /\ disp[item[s]].holder = s
      BY <2>2 DEF Mine
    <3>4. \A d \in Dispatches : d # item[s] => disp'[d] = disp[d]
      BY <2>1, <3>1, SMT DEF Shape, RowShape
    <3>5. RowStep(item[s])
      BY <1>6, <2>1, <3>2, <3>3
    <3>6. \A d \in Dispatches : d # item[s] => RowStep(d)
      BY <3>4, SMT DEF Shape, RowShape, Rows
    <3> QED
      BY <3>5, <3>6
  <2>3. CASE ~Mine(s)
    BY <1>1, <1>6, <2>3 DEF Acknowledge
  <2> QED
    BY <2>2, <2>3
<1>7. ASSUME NEW s \in Schedulers, Release(s) PROVE \A d \in Dispatches : RowStep(d)
  <2>1. item[s] \in Dispatches /\ spc'[s] # spc[s]
    BY <1>7, SMT DEF Release, Rest, To, Shape, TickShape
  <2>2. CASE Mine(s)
    <3>1. disp' = [disp EXCEPT ![item[s]] = NoLease]
      BY <1>7, <2>2 DEF Release
    <3>2. disp'[item[s]].state = "pending"
      BY <2>1, <3>1, RowsToWrite, SMT DEF Shape, RowShape
    <3>3. disp[item[s]].state = "leased" /\ disp[item[s]].holder = s
      BY <2>2 DEF Mine
    <3>4. \A d \in Dispatches : d # item[s] => disp'[d] = disp[d]
      BY <2>1, <3>1, SMT DEF Shape, RowShape
    <3>5. \A d \in Dispatches : d # item[s] => RowStep(d)
      BY <3>4, SMT DEF Shape, RowShape, Rows
    <3> QED
      BY <2>1, <3>2, <3>3, <3>5
  <2>3. CASE ~Mine(s)
    BY <1>1, <1>7, <2>3 DEF Release
  <2> QED
    BY <2>2, <2>3
<1> QED
  BY <1>1, <1>2, <1>3, <1>4, <1>5, <1>6, <1>7, RowsWritten, Zenon DEF RowWriter

(* Only the tick whose token is in a row settles it or gives it back, and   *)
(* nobody touches it once it is acknowledged: a tick that lost its lease    *)
(* cannot undo what the next one did, whatever the number of ticks.         *)
THEOREM LeaseRespectedAlways == Spec => LeaseRespected
<1> DEFINE Step == \A d \in Dispatches :
          /\ disp[d].state = "acknowledged" => disp'[d] = disp[d]
          /\ (disp[d].state = "leased" /\ disp'[d].state \in {"pending", "acknowledged"})
                => \E s \in Schedulers : disp[d].holder = s /\ spc'[s] # spc[s]
<1>1. ASSUME Shape, [Next]_vars PROVE [Step]_vars
  BY <1>1, RowSteps DEF RowStep
<1> QED
  BY <1>1, ShapeAlways, PTL DEF Spec, LeaseRespected

-----------------------------------------------------------------------------
(* Pushes.                                                                  *)

(* The steps that write to the queue. *)
QueueWriter ==
    \/ \E s \in Schedulers : Exec(s) \/ RedisFails(s)
    \/ Enqueue \/ EnqueueFails \/ Start \/ Finish
    \/ \E j \in Jobs : Cancel(j) \/ Pop(j) \/ CleanRegistry(j)

LEMMA QueueWritten == ASSUME [Next]_vars PROVE QueueWriter \/ UNCHANGED rqVars
<1>1. ASSUME NEW s \in Schedulers, TickStep(s) PROVE QueueWriter \/ UNCHANGED rqVars
  <2>1. \/ Exec(s) \/ Claim(s) \/ Renew(s) \/ Acknowledge(s) \/ Release(s)
        \/ NextItem(s) \/ Find(s) \/ Probe(s) \/ Orphan(s) \/ Receipt(s)
        \/ CreateJob(s) \/ Read(s) \/ Watch(s)
    BY <1>1, Zenon DEF TickStep
  <2>2. \A pc : Tick(s, pc) => UNCHANGED rqVars
    BY DEF Tick
  <2>3. Found(s) => UNCHANGED rqVars
    BY <2>2 DEF Found
  <2>4. Claim(s) \/ Renew(s) \/ Acknowledge(s) \/ Release(s) => UNCHANGED rqVars
    BY DEF Claim, Renew, Acknowledge, Release
  <2>5. NextItem(s) \/ Find(s) \/ CreateJob(s) \/ Read(s) => UNCHANGED rqVars
    BY <2>2 DEF NextItem, Find, CreateJob, Read
  <2>6. Probe(s) \/ Orphan(s) \/ Receipt(s) \/ Watch(s) => UNCHANGED rqVars
    BY <2>2, <2>3 DEF Probe, Orphan, Receipt, Watch
  <2> QED
    BY <2>1, <2>4, <2>5, <2>6 DEF QueueWriter
<1>2. (\E d \in Dispatches : Lapse(d)) => UNCHANGED rqVars
  BY DEF Lapse
<1>3. ApiStep => QueueWriter \/ UNCHANGED rqVars
  BY DEF ApiStep, LeavePending, Recover, Close, LookupAbandons, QueueWriter
<1>4. Request => QueueWriter \/ UNCHANGED rqVars
  BY DEF Request, Submit, Attach, Lookup, QueueWriter
<1>5. WorkerStep => QueueWriter \/ UNCHANGED rqVars
  BY DEF WorkerStep, ReadQueues, ReadPending, CloseRows, QueueWriter
<1>6. Faults => QueueWriter \/ UNCHANGED rqVars
  BY DEF Faults, Stop, ProbeFails, SchedulerCrash, ApiCrash, WorkerCrash, QueueWriter
<1>7. UNCHANGED vars => UNCHANGED rqVars
  BY DEF vars
<1> QED
  BY <1>1, <1>2, <1>3, <1>4, <1>5, <1>6, <1>7, Zenon DEF Next

CountedAt(d) == pushes[d] =< 1 /\ (task[d] = "none" => pushes[d] = 0)

(* Who may have given a job the task it has after a step. *)
TaskFrom(j) ==
    \/ task[j] # "none"
    \/ j \in queued' /\ \E s \in Schedulers : spc[s] = "exec" /\ item[s] = j
    \/ j \in queued' /\ api = "enqueue" /\ target = j
    \/ wpc \in {"popped", "started"} /\ wjob = j

QueueStep ==
    /\ queued \subseteq queued'
    /\ \A d \in Dispatches : CountedAt(d) => CountedAt(d)'
    /\ \A j \in Jobs : task'[j] # "none" => TaskFrom(j)

(* A push of a tick finds no task. *)
LEMMA PushSteps ==
    ASSUME Shape, NEW s \in Schedulers, spc[s] = "exec", item[s] \in Dispatches,
           task[item[s]] = "none", Push(item[s])
    PROVE  QueueStep
BY SMT DEF Shape, QueueShape, Push, QueueStep, CountedAt, TaskFrom, Jobs

LEMMA RequeueSteps ==
    ASSUME Shape, api = "enqueue", target \in Jobs, Requeue
    PROVE  QueueStep
<1>1. CASE target \in Manual
  <2>1. Push(target)
    BY <1>1 DEF Requeue
  <2>2. target \notin Dispatches
    BY <1>1, ManualAssumption DEF Dispatches
  <2> QED
    BY <2>1, <2>2, SMT DEF Shape, QueueShape, Push, QueueStep, CountedAt, TaskFrom, Jobs
<1>2. CASE target \notin Manual
  BY <1>2, SMT DEF Shape, QueueShape, Requeue, QueueStep, CountedAt, TaskFrom, Jobs
<1> QED
  BY <1>1, <1>2

LEMMA QueueSteps == ASSUME Shape, [Next]_vars PROVE QueueStep
<1>1. ASSUME UNCHANGED rqVars PROVE QueueStep
  <2>1. UNCHANGED task /\ UNCHANGED pushes /\ UNCHANGED queued
    BY <1>1 DEF rqVars
  <2> QED
    BY <2>1 DEF QueueStep, CountedAt, TaskFrom
<1>2. ASSUME NEW s \in Schedulers, Exec(s) \/ RedisFails(s) PROVE QueueStep
  <2>1. UNCHANGED rqVars \/ (spc[s] = "exec" /\ task[item[s]] = "none" /\ Push(item[s]))
    BY <1>2 DEF Exec, RedisFails, Tick
  <2>2. CASE spc[s] = "exec" /\ task[item[s]] = "none" /\ Push(item[s])
    <3>1. item[s] \in Dispatches
      BY <2>2 DEF Shape, TickShape
    <3> QED
      BY <2>2, <3>1, PushSteps
  <2> QED
    BY <1>1, <2>1, <2>2
<1>3. ASSUME Enqueue \/ EnqueueFails PROVE QueueStep
  <2>1. api = "enqueue" /\ (UNCHANGED rqVars \/ Requeue)
    BY <1>3 DEF Enqueue, EnqueueFails
  <2>2. target \in Jobs
    BY <2>1 DEF Shape, ApiShape
  <2> QED
    BY <1>1, <2>1, <2>2, RequeueSteps
<1>4. ASSUME Start \/ Finish PROVE QueueStep
  <2>1. /\ wpc \in {"popped", "started"} /\ UNCHANGED <<pushes, queued>>
        /\ \E t \in {"started", "finished"} : task' = [task EXCEPT ![wjob] = t]
    BY <1>4 DEF Start, Finish
  <2>2. wjob \in Jobs
    BY <2>1 DEF Shape, WorkerShape
  <2> QED
    BY <2>1, <2>2, SMT DEF Shape, QueueShape, QueueStep, CountedAt, TaskFrom, Jobs
<1>5. ASSUME NEW j \in Jobs, Cancel(j) PROVE QueueStep
  <2>1. \/ UNCHANGED rqVars
        \/ /\ task' = [task EXCEPT ![j] = "none"] /\ pushes' = [pushes EXCEPT ![j] = 0] /\ UNCHANGED queued
    BY <1>5, Zenon DEF Cancel
  <2>2. CASE task' = [task EXCEPT ![j] = "none"] /\ pushes' = [pushes EXCEPT ![j] = 0] /\ UNCHANGED queued
    BY <2>2, SMT DEF Shape, QueueShape, QueueStep, CountedAt, TaskFrom, Jobs
  <2> QED
    BY <1>1, <2>1, <2>2
<1>6. ASSUME NEW j \in Jobs, Pop(j) \/ CleanRegistry(j) PROVE QueueStep
  <2>1. /\ task[j] # "none" /\ UNCHANGED <<pushes, queued>>
        /\ \E t \in {"popped", "queued", "finished"} : task' = [task EXCEPT ![j] = t]
    BY <1>6 DEF Pop, CleanRegistry
  <2> QED
    BY <2>1, SMT DEF Shape, QueueShape, QueueStep, CountedAt, TaskFrom, Jobs
<1> QED
  BY <1>1, <1>2, <1>3, <1>4, <1>5, <1>6, QueueWritten, Zenon DEF QueueWriter

(* However many ticks overlap, and whatever reply was lost, they push the   *)
(* task of a slot at most once unless a cancel deleted it in between.       *)
THEOREM OnePushAlways == Spec => []OnePush
<1> DEFINE Counts == \A d \in Dispatches : CountedAt(d)
<1>1. Init => Counts
  BY SMT DEF Init, CountedAt, Jobs
<1>2. ASSUME Counts, Shape, [Next]_vars PROVE Counts'
  BY <1>2, QueueSteps DEF QueueStep
<1>3. Counts => OnePush
  BY DEF CountedAt, OnePush
<1> QED
  BY <1>1, <1>2, <1>3, ShapeAlways, PTL DEF Spec

-----------------------------------------------------------------------------
(* Job rows.                                                                *)

(* The steps that write a job's row, or that are a person's decision on it. *)
JobWriter ==
    \/ \E s \in Schedulers : CreateJob(s) \/ Orphan(s)
    \/ Close \/ LookupAbandons \/ EnqueueFails \/ CloseRows \/ Start \/ Finish
    \/ \E j \in Jobs : (j \in Manual /\ Submit(j)) \/ Cancel(j)

LEMMA JobWritten == ASSUME [Next]_vars PROVE JobWriter \/ UNCHANGED <<status, dropped>>
<1>1. ASSUME NEW s \in Schedulers, TickStep(s) PROVE JobWriter \/ UNCHANGED <<status, dropped>>
  <2>1. \/ CreateJob(s) \/ Orphan(s) \/ Claim(s) \/ Renew(s) \/ Acknowledge(s) \/ Release(s)
        \/ NextItem(s) \/ Find(s) \/ Probe(s) \/ Receipt(s) \/ Read(s) \/ Watch(s) \/ Exec(s)
    BY <1>1, Zenon DEF TickStep
  <2>2. \A pc : Tick(s, pc) => UNCHANGED <<status, dropped>>
    BY DEF Tick, jobVars
  <2>3. Found(s) => UNCHANGED <<status, dropped>>
    BY <2>2 DEF Found
  <2>4. Claim(s) \/ Renew(s) \/ Acknowledge(s) \/ Release(s) => UNCHANGED <<status, dropped>>
    BY DEF Claim, Renew, Acknowledge, Release, jobVars
  <2>5. NextItem(s) \/ Find(s) \/ Read(s) => UNCHANGED <<status, dropped>>
    BY <2>2 DEF NextItem, Find, Read, jobVars
  <2>6. Probe(s) \/ Receipt(s) \/ Watch(s) \/ Exec(s) => UNCHANGED <<status, dropped>>
    BY <2>2, <2>3 DEF Probe, Receipt, Watch, Exec, jobVars
  <2> QED
    BY <2>1, <2>4, <2>5, <2>6 DEF JobWriter
<1>2. (\E d \in Dispatches : Lapse(d)) => UNCHANGED <<status, dropped>>
  BY DEF Lapse, jobVars
<1>3. ApiStep => JobWriter \/ UNCHANGED <<status, dropped>>
  BY DEF ApiStep, LeavePending, Recover, Enqueue, JobWriter, jobVars
<1>4. Request => JobWriter \/ UNCHANGED <<status, dropped>>
  BY DEF Request, Attach, Lookup, JobWriter, jobVars
<1>5. WorkerStep => JobWriter \/ UNCHANGED <<status, dropped>>
  BY DEF WorkerStep, ReadQueues, ReadPending, Pop, CleanRegistry, JobWriter, jobVars
<1>6. Faults => JobWriter \/ UNCHANGED <<status, dropped>>
  BY DEF Faults, Stop, ProbeFails, RedisFails, SchedulerCrash, ApiCrash, WorkerCrash, JobWriter, jobVars
<1>7. UNCHANGED vars => UNCHANGED <<status, dropped>>
  BY DEF vars, jobVars
<1> QED
  BY <1>1, <1>2, <1>3, <1>4, <1>5, <1>6, <1>7, Zenon DEF Next

(* Who may have written a status that changed. *)
StatusFrom(j) ==
    \/ status'[j] = "queued" /\ (j \in Manual \/ \E s \in Schedulers : spc[s] = "create" /\ item[s] = j)
    \/ status[j] # "absent" /\ j \in dropped'
    \/ status[j] # "absent" /\ j \notin PendingJobs
    \/ status[j] # "absent" /\ wpc = "rows" /\ j \notin kept
    \/ status[j] # "absent" /\ api \in {"close", "abandon"} /\ target = j
    \/ api = "enqueue" /\ target = j
    \/ wpc \in {"popped", "started"} /\ wjob = j

JobStep ==
    /\ dropped \subseteq dropped'
    /\ \A j \in Jobs : status'[j] # status[j] => status'[j] # "absent" /\ StatusFrom(j)

(* mark_jobs_abandoned closes rows that are active. *)
LEMMA AbandonedRows ==
    ASSUME NEW js, Abandoned(js), NEW j \in Jobs, status'[j] # status[j]
    PROVE  j \in js /\ status[j] # "absent" /\ status'[j] # "absent"
BY SMT DEF Abandoned, Active

LEMMA JobSteps == ASSUME Shape, [Next]_vars PROVE JobStep
<1> USE DEF JobStep
<1>1. ASSUME UNCHANGED <<status, dropped>> PROVE JobStep
  BY <1>1
<1>2. ASSUME NEW s \in Schedulers, CreateJob(s) PROVE JobStep
  <2>1. /\ spc[s] = "create"
        /\ \/ UNCHANGED <<status, dropped>>
           \/ status' = [status EXCEPT ![item[s]] = "queued"] /\ UNCHANGED dropped
    BY <1>2, Zenon DEF CreateJob, Tick, jobVars
  <2> QED
    BY <1>1, <2>1, SMT DEF StatusFrom, Shape, JobShape
<1>3. ASSUME NEW s \in Schedulers, Orphan(s) PROVE JobStep
  <2>1. \/ UNCHANGED <<status, dropped>>
        \/ act[s] \notin PendingJobs /\ Abandoned({act[s]}) /\ UNCHANGED dropped
    BY <1>3 DEF Orphan, Found, Tick, jobVars
  <2>2. CASE act[s] \notin PendingJobs /\ Abandoned({act[s]}) /\ UNCHANGED dropped
    BY <2>2, AbandonedRows DEF StatusFrom
  <2> QED
    BY <1>1, <2>1, <2>2
<1>4. ASSUME Close PROVE JobStep
  <2>1. /\ api = "close" /\ UNCHANGED dropped
        /\ status' = [status EXCEPT ![target] = IF @ = "queued" THEN "cancelled" ELSE @]
    BY <1>4, Zenon DEF Close
  <2>2. target \in Jobs
    BY <2>1 DEF Shape, ApiShape
  <2> QED
    BY <2>1, <2>2, SMT DEF StatusFrom, Shape, JobShape
<1>5. ASSUME LookupAbandons PROVE JobStep
  <2>1. api = "abandon" /\ Abandoned({target}) /\ UNCHANGED dropped
    BY <1>5 DEF LookupAbandons
  <2> QED
    BY <2>1, AbandonedRows DEF StatusFrom
<1>6. ASSUME EnqueueFails PROVE JobStep
  <2>1. /\ api = "enqueue" /\ UNCHANGED dropped
        /\ status' = [status EXCEPT ![target] = IF @ \in Ended THEN @ ELSE "error"]
    BY <1>6, Zenon DEF EnqueueFails
  <2>2. target \in Jobs
    BY <2>1 DEF Shape, ApiShape
  <2> QED
    BY <2>1, <2>2, SMT DEF StatusFrom, Shape, JobShape
<1>7. ASSUME CloseRows PROVE JobStep
  <2>1. wpc = "rows" /\ Abandoned(Jobs \ (seen \cup kept)) /\ UNCHANGED dropped
    BY <1>7 DEF CloseRows
  <2> QED
    BY <2>1, AbandonedRows DEF StatusFrom
<1>8. ASSUME Start \/ Finish PROVE JobStep
  <2>1. wpc \in {"popped", "started"} /\ UNCHANGED dropped
    BY <1>8 DEF Start, Finish
  <2>2. \A e \in {"error", IF cancel[wjob] THEN "cancelled" ELSE "done"} : e # "absent"
    OBVIOUS
  <2>3. \E e : e # "absent" /\ status' = [status EXCEPT ![wjob] = IF @ \in Ended THEN @ ELSE e]
    <3>1. CASE Start
      <4>1. status' = [status EXCEPT ![wjob] = IF @ \in Ended THEN @ ELSE "running"]
        BY <3>1, Zenon DEF Start
      <4> QED
        BY <4>1
    <3>2. CASE Finish
      BY <2>2, <3>2, Zenon DEF Finish
    <3> QED
      BY <1>8, <3>1, <3>2
  <2> QED
    BY <2>1, <2>3, SMT DEF StatusFrom, Shape, JobShape, Ended
<1>9. ASSUME NEW j \in Jobs, (j \in Manual /\ Submit(j)) \/ Cancel(j) PROVE JobStep
  <2>1. CASE Cancel(j)
    BY <2>1 DEF Cancel, jobVars
  <2>2. CASE j \in Manual /\ Submit(j)
    <3>1. /\ status' = [i \in Jobs |-> IF i = j THEN "queued"
                                       ELSE IF i \in Holders THEN "cancelled" ELSE status[i]]
          /\ dropped' = dropped \cup Holders
      BY <2>2, Zenon DEF Submit
    <3>2. \A i \in Holders : status[i] # "absent"
      BY DEF Holders, Active
    <3> QED
      BY <2>2, <3>1, <3>2, SMT DEF StatusFrom
  <2> QED
    BY <1>9, <2>1, <2>2
<1> QED
  BY <1>1, <1>2, <1>3, <1>4, <1>5, <1>6, <1>7, <1>8, <1>9, JobWritten, Zenon DEF JobWriter

-----------------------------------------------------------------------------
(* Evidence is never lost.                                                  *)

(* What a step keeps of what a process knows. *)
Kept ==
    /\ \A j : Reached(j) => Reached(j)'
    /\ \A j : Known(j) => Known(j)'
    /\ \A j : Settled(j) => Settled(j)'
    /\ \A j \in Jobs : status[j] # "absent" => status'[j] # "absent"

LEMMA KnowledgeKept == ASSUME Shape, [Next]_vars PROVE Kept
<1>1. \A j : Reached(j) => Reached(j)'
  BY QueueSteps, JobSteps DEF QueueStep, JobStep, Reached
<1>2. \A j : Known(j) => Known(j)'
  BY RowSteps DEF RowStep, Known
<1>3. \A j : Settled(j) => Settled(j)'
  BY RowSteps DEF RowStep, Settled
<1>4. \A j \in Jobs : status[j] # "absent" => status'[j] # "absent"
  BY JobSteps DEF JobStep
<1> QED
  BY <1>1, <1>2, <1>3, <1>4 DEF Kept

(* No API lookup asks for a job that the scheduler owns. *)
Calm == "api_lookup" \notin Env

LEMMA JobEvidenceStep == ASSUME Shape, Evidence, [Next]_vars PROVE JobEvidence'
<1>1. Kept /\ QueueStep /\ JobStep
  BY KnowledgeKept, QueueSteps, JobSteps
<1>2. \A s \in Schedulers : spc[s] \in {"exec", "create"} => Known(item[s])
  BY DEF Evidence, TickEvidence
<1>3. api = "enqueue" => Known(target) /\ Settled(target)
  BY DEF Evidence, ApiEvidence, Known, Settled
<1>4. wpc \in {"popped", "started"} => Reached(wjob) /\ Known(wjob)
  BY DEF Evidence, WorkerEvidence
<1>5. ASSUME NEW j \in Jobs, task'[j] # "none" PROVE Reached(j)' /\ Known(j)'
  <2>1. TaskFrom(j)
    BY <1>1, <1>5 DEF QueueStep
  <2>2. CASE task[j] # "none"
    BY <1>1, <2>2 DEF Evidence, JobEvidence, Kept
  <2>3. CASE j \in queued' /\ Known(j)
    BY <1>1, <2>3 DEF Kept, Reached
  <2>4. CASE wpc \in {"popped", "started"} /\ wjob = j
    BY <1>1, <1>4, <2>4 DEF Kept
  <2> QED
    BY <1>2, <1>3, <2>1, <2>2, <2>3, <2>4 DEF TaskFrom
<1>6. ASSUME NEW d \in Dispatches, status'[d] # "absent" PROVE Known(d)'
  <2>1. d \in Jobs /\ d \notin Manual
    BY ManualAssumption DEF Jobs, Dispatches
  <2>2. CASE status[d] # "absent"
    BY <1>1, <2>2 DEF Evidence, JobEvidence, Kept
  <2>3. CASE status[d] = "absent"
    <3>1. StatusFrom(d)
      BY <1>1, <1>6, <2>1, <2>3 DEF JobStep
    <3>2. Known(d)
      BY <1>2, <1>3, <1>4, <2>1, <2>3, <3>1 DEF StatusFrom
    <3> QED
      BY <1>1, <3>2 DEF Kept
  <2> QED
    BY <2>2, <2>3
<1>7. ASSUME Alone, NEW d \in Dispatches, status'[d] \notin {"absent", "queued"}
      PROVE  Reached(d)' \/ Settled(d)'
  <2>1. d \in Jobs
    BY DEF Jobs
  <2>2. CASE status'[d] = status[d]
    BY <1>1, <1>7, <2>2 DEF Evidence, JobEvidence, Kept
  <2>3. CASE status'[d] # status[d]
    <3>1. StatusFrom(d)
      BY <1>1, <2>1, <2>3 DEF JobStep
    <3>2. status[d] # "absent" => Known(d)
      BY DEF Evidence, JobEvidence
    <3>3. Known(d) /\ d \notin PendingJobs => Settled(d)
      BY SMT DEF Known, Settled, PendingJobs, Shape, RowShape, Rows
    <3>4. wpc = "rows" /\ d \notin kept => d \notin PendingJobs
      BY <1>7 DEF Evidence, WorkerEvidence
    <3>5. api \in {"close", "abandon", "enqueue"} => target \in dropped \/ Settled(target)
      BY DEF Evidence, ApiEvidence
    <3>6. d \in dropped' \/ Settled(d) \/ Reached(d)
      BY <1>4, <1>7, <3>1, <3>2, <3>3, <3>4, <3>5 DEF StatusFrom, Reached
    <3> QED
      BY <1>1, <3>6 DEF Kept, Reached
  <2> QED
    BY <2>2, <2>3
<1> QED
  BY <1>5, <1>6, <1>7 DEF JobEvidence

(* What TickEvidence says of one tick. *)
TickAt(s) ==
    /\ \A d \in todo[s] : Known(d)
    /\ spc[s] \notin {"idle", "next"} => Known(item[s])
    /\ spc[s] = "receipt" => act[s] # item[s]
    /\ spc[s] = "read" => status[item[s]] # "absent"
    /\ spc[s] = "ack" =>
          IF kind[s] = "attached_active" THEN \E j \in Jobs \ {item[s]} : Reached(j)
          ELSE Alone => Reached(item[s]) \/ Settled(item[s])

(* A tick that does not move keeps what it knows. *)
LEMMA TickStands ==
    ASSUME Shape, Kept, NEW s \in Schedulers, TickAt(s), spc'[s] = spc[s], todo'[s] = todo[s],
           item'[s] = item[s], act'[s] = act[s], kind'[s] = kind[s]
    PROVE  TickAt(s)'
<1>1. spc[s] \notin {"idle", "next"} => item[s] \in Jobs
  BY DEF Shape, TickShape, Jobs
<1>2. (\A d \in todo[s] : Known(d))' /\ (spc[s] \notin {"idle", "next"} => Known(item[s]))'
  BY DEF Kept, TickAt
<1>3. spc'[s] = "receipt" => act'[s] # item'[s]
  BY DEF TickAt
<1>4. spc'[s] = "read" => status'[item'[s]] # "absent"
  BY <1>1 DEF Kept, TickAt
<1>5. (spc[s] = "ack" =>
          IF kind[s] = "attached_active" THEN \E j \in Jobs \ {item[s]} : Reached(j)
          ELSE Alone => Reached(item[s]) \/ Settled(item[s]))'
  <2>1. CASE kind[s] = "attached_active"
    BY <2>1 DEF Kept, TickAt
  <2>2. CASE kind[s] # "attached_active"
    BY <2>2 DEF Kept, TickAt
  <2> QED
    BY <2>1, <2>2
<1> QED
  BY <1>2, <1>3, <1>4, <1>5 DEF TickAt

(* A step of one tick leaves the others where they are. *)
StepOf(s) ==
    \/ TickStep(s) \/ Stop(s) \/ ProbeFails(s) \/ RedisFails(s) \/ SchedulerCrash(s)

LEMMA OthersStand ==
    ASSUME Shape, NEW s \in Schedulers, StepOf(s), NEW q \in Schedulers, q # s
    PROVE  /\ spc'[q] = spc[q] /\ todo'[q] = todo[q] /\ item'[q] = item[q]
           /\ act'[q] = act[q] /\ kind'[q] = kind[q]
<1> DEFINE Stands == /\ spc'[q] = spc[q] /\ todo'[q] = todo[q] /\ item'[q] = item[q]
                     /\ act'[q] = act[q] /\ kind'[q] = kind[q]
<1>1. \A pc : To(s, pc) => spc'[q] = spc[q]
  BY SMT DEF To, Shape, TickShape
<1>2. \A pc : Tick(s, pc) => Stands
  BY <1>1 DEF Tick
<1>3. Found(s) => Stands
  BY <1>2 DEF Found
<1>4. \A pc : Rest(s, pc) => spc'[q] = spc[q] /\ item'[q] = item[q] /\ act'[q] = act[q] /\ kind'[q] = kind[q]
  BY <1>1, SMT DEF Rest, Shape, TickShape
<1>5. \A t : todo' = [todo EXCEPT ![s] = t] => todo'[q] = todo[q]
  BY SMT DEF Shape, TickShape
<1>6. \A j : act' = [act EXCEPT ![s] = j] => act'[q] = act[q]
  BY SMT DEF Shape, TickShape
<1>7. \A k : kind' = [kind EXCEPT ![s] = k] => kind'[q] = kind[q]
  BY SMT DEF Shape, TickShape
<1>8. \A i : item' = [item EXCEPT ![s] = i] => item'[q] = item[q]
  BY SMT DEF Shape, TickShape
<1> HIDE DEF Stands
<1>9. Claim(s) \/ Stop(s) \/ SchedulerCrash(s) => Stands
  BY <1>1, <1>4, <1>5, Zenon DEF Claim, Stop, SchedulerCrash, Stands
<1>10. NextItem(s) => Stands
  BY <1>1, <1>5, <1>8 DEF NextItem, Stands
<1>11. Renew(s) \/ Acknowledge(s) \/ Release(s) => Stands
  BY <1>1, <1>4 DEF Renew, Acknowledge, Release, Stands
<1>12. Find(s) \/ ProbeFails(s) \/ RedisFails(s) => Stands
  BY <1>1, <1>6, Zenon DEF Find, ProbeFails, RedisFails, Stands
<1>13. Probe(s) \/ Orphan(s) \/ CreateJob(s) => Stands
  BY <1>1, <1>2, <1>3 DEF Probe, Orphan, CreateJob, Stands
<1>14. Receipt(s) \/ Read(s) \/ Watch(s) \/ Exec(s) => Stands
  BY <1>1, <1>2, <1>7 DEF Receipt, Read, Watch, Exec, Stands
<1>15. Stands
  BY <1>9, <1>10, <1>11, <1>12, <1>13, <1>14, Zenon DEF StepOf, TickStep
<1> QED
  BY <1>15 DEF Stands

(* A tick that goes on with its slot, knowing what the new step asks for. *)
LEMMA TickGoes ==
    ASSUME Shape, Kept, NEW s \in Schedulers, TickAt(s), spc[s] \notin {"idle", "next"},
           NEW pc, To(s, pc), UNCHANGED <<todo, item>>,
           pc = "receipt" => act'[s] # item[s],
           pc = "read" => status'[item[s]] # "absent",
           pc = "ack" => IF kind'[s] = "attached_active" THEN \E j \in Jobs \ {item[s]} : Reached(j)
                         ELSE Alone => Reached(item[s])' \/ Settled(item[s])
    PROVE  TickAt(s)'
<1>1. spc'[s] = pc /\ todo' = todo /\ item' = item
  BY SMT DEF To, Shape, TickShape
<1>2. (\A d \in todo[s] : Known(d))' /\ Known(item[s])'
  BY <1>1 DEF Kept, TickAt
<1>3. pc = "ack" => (IF kind[s] = "attached_active" THEN \E j \in Jobs \ {item[s]} : Reached(j)
                     ELSE Alone => Reached(item[s]) \/ Settled(item[s]))'
  <2>1. CASE kind'[s] = "attached_active"
    BY <1>1, <2>1 DEF Kept
  <2>2. CASE kind'[s] # "attached_active"
    BY <1>1, <2>2 DEF Kept
  <2> QED
    BY <2>1, <2>2
<1> QED
  BY <1>1, <1>2, <1>3 DEF TickAt

(* One that lets go, or begins with slots whose rows exist. *)
LEMMA TickRests ==
    ASSUME Shape, NEW s \in Schedulers, NEW pc \in {"idle", "next", "renew"}, To(s, pc),
           \A d \in todo'[s] : Known(d)', pc = "renew" => Known(item[s])'
    PROVE  TickAt(s)'
<1>1. spc'[s] = pc
  BY SMT DEF To, Shape, TickShape
<1>2. (\A d \in todo[s] : Known(d))' /\ (spc[s] \notin {"idle", "next"} => Known(item[s]))'
  BY <1>1
<1> QED
  BY <1>1, <1>2 DEF TickAt

(* The step of a tick, action by action. *)
LEMMA ClaimKnows == ASSUME Shape, Kept, NEW s \in Schedulers, TickAt(s), Claim(s) PROVE TickAt(s)'
<1>1. PICK due \in SUBSET {d \in Dispatches : disp[d].state = "absent"} :
          /\ disp' = [d \in Dispatches |->
                         IF d \in Free \cup due THEN Row("leased", s, "none") ELSE disp[d]]
          /\ todo' = [todo EXCEPT ![s] = Free \cup due]
  BY Zenon DEF Claim
<1>2. To(s, "next")
  BY Zenon DEF Claim
<1>3. todo'[s] = Free \cup due
  BY <1>1, SMT DEF Shape, TickShape
<1>4. \A d \in Dispatches : d \in Free \cup due => disp'[d].state # "absent"
  BY <1>1, RowsToWrite
<1>5. \A d \in todo'[s] : Known(d)'
  BY <1>3, <1>4 DEF Known
<1> QED
  BY <1>2, <1>5, TickRests

LEMMA NextItemKnows == ASSUME Shape, Kept, NEW s \in Schedulers, TickAt(s), NextItem(s) PROVE TickAt(s)'
<1>1. CASE todo[s] = {}
  <2>1. To(s, "idle") /\ todo' = todo
    BY <1>1 DEF NextItem
  <2> QED
    BY <1>1, <2>1, TickRests
<1>2. CASE todo[s] # {}
  <2>1. /\ item' = [item EXCEPT ![s] = Min(todo[s])]
        /\ todo' = [todo EXCEPT ![s] = @ \ {Min(todo[s])}] /\ To(s, "renew")
    BY <1>2, Zenon DEF NextItem
  <2>2. todo[s] \subseteq Dispatches
    BY DEF Shape, TickShape
  <2>3. Min(todo[s]) \in todo[s]
    BY <1>2, <2>2, MinIsIn, SlotsAssumption DEF Dispatches
  <2>4. item'[s] = Min(todo[s]) /\ todo'[s] = todo[s] \ {Min(todo[s])}
    BY <2>1, SMT DEF Shape, TickShape
  <2>5. \A d \in todo[s] : Known(d)'
    BY DEF TickAt, Kept
  <2>6. (\A d \in todo'[s] : Known(d)') /\ Known(item[s])'
    BY <2>3, <2>4, <2>5
  <2> QED
    BY <2>1, <2>6, TickRests
<1> QED
  BY <1>1, <1>2

LEMMA RestKnows ==
    ASSUME Shape, Kept, NEW s \in Schedulers, TickAt(s), NEW pc \in {"idle", "next"}, To(s, pc),
           todo' = todo \/ todo' = [todo EXCEPT ![s] = {}]
    PROVE  TickAt(s)'
<1>1. todo'[s] \subseteq todo[s]
  BY SMT DEF Shape, TickShape
<1>2. \A d \in todo'[s] : Known(d)'
  BY <1>1 DEF TickAt, Kept
<1> QED
  BY <1>2, TickRests

LEMMA FoundKnows ==
    ASSUME Shape, Kept, NEW s \in Schedulers, TickAt(s), spc[s] \in {"probe", "orphan"}, Found(s)
    PROVE  TickAt(s)'
<1>1. CASE act[s] = item[s]
  BY <1>1, TickGoes DEF Found, Tick
<1>2. CASE act[s] # item[s]
  BY <1>2, TickGoes DEF Found, Tick
<1> QED
  BY <1>1, <1>2

LEMMA LooksKnows ==
    ASSUME Shape, Kept, NEW s \in Schedulers, TickAt(s),
           Renew(s) \/ Find(s) \/ Probe(s) \/ ProbeFails(s) \/ Orphan(s)
    PROVE  TickAt(s)'
<1>1. CASE Renew(s)
  <2>1. spc[s] = "renew" /\ todo' = todo
    BY <1>1 DEF Renew
  <2>2. CASE Mine(s)
    BY <1>1, <2>1, <2>2, TickGoes DEF Renew
  <2>3. CASE ~Mine(s)
    BY <1>1, <2>1, <2>3, RestKnows DEF Renew, Rest
  <2> QED
    BY <2>2, <2>3
<1>2. CASE Find(s)
  <2>1. spc[s] = "find" /\ UNCHANGED <<todo, item>> /\ (To(s, "create") \/ To(s, "probe"))
    BY <1>2 DEF Find
  <2> QED
    BY <2>1, TickGoes
<1>3. CASE Probe(s)
  <2>1. spc[s] = "probe" /\ (Found(s) \/ Tick(s, "orphan"))
    BY <1>3 DEF Probe
  <2> QED
    BY <2>1, FoundKnows, TickGoes DEF Tick
<1>4. CASE ProbeFails(s)
  <2>1. /\ spc[s] = "probe" /\ UNCHANGED <<todo, item, act>>
        /\ To(s, "create") \/ (To(s, "receipt") /\ act[s] # item[s])
    BY <1>4 DEF ProbeFails
  <2> QED
    BY <2>1, TickGoes
<1>5. CASE Orphan(s)
  <2>1. spc[s] = "orphan" /\ (Found(s) \/ (To(s, "create") /\ UNCHANGED <<todo, item>>))
    BY <1>5 DEF Orphan
  <2> QED
    BY <2>1, FoundKnows, TickGoes
<1> QED
  BY <1>1, <1>2, <1>3, <1>4, <1>5

LEMMA ReceiptKnows ==
    ASSUME Shape, JobEvidence, Kept, NEW s \in Schedulers, TickAt(s), Receipt(s)
    PROVE  TickAt(s)'
<1>1. spc[s] = "receipt"
  BY DEF Receipt
<1>2. CASE Tick(s, "release")
  BY <1>1, <1>2, TickGoes DEF Tick
<1>3. CASE ~Tick(s, "release")
  <2>1. /\ To(s, "ack") /\ kind' = [kind EXCEPT ![s] = "attached_active"]
        /\ HasTask(act[s]) /\ UNCHANGED <<todo, item>>
    BY <1>3, Zenon DEF Receipt
  <2>2. act[s] \in Jobs /\ kind'[s] = "attached_active"
    BY <1>1, <2>1, SMT DEF Shape, TickShape
  <2>3. Reached(act[s]) /\ act[s] # item[s]
    BY <1>1, <2>1, <2>2 DEF HasTask, JobEvidence, TickAt
  <2>4. \E j \in Jobs \ {item[s]} : Reached(j)
    BY <2>2, <2>3
  <2> QED
    BY <1>1, <2>1, <2>2, <2>4, TickGoes
<1> QED
  BY <1>2, <1>3

LEMMA CreateJobKnows ==
    ASSUME Shape, Kept, NEW s \in Schedulers, TickAt(s), CreateJob(s)
    PROVE  TickAt(s)'
<1>1. spc[s] = "create" /\ item[s] \in Jobs
  BY DEF CreateJob, Shape, TickShape, Jobs
<1>2. CASE status[item[s]] # "absent"
  BY <1>1, <1>2, TickGoes DEF CreateJob, Tick, jobVars
<1>3. CASE status[item[s]] = "absent" /\ Holders # {}
  BY <1>1, <1>3, TickGoes DEF CreateJob, Tick
<1>4. CASE status[item[s]] = "absent" /\ Holders = {}
  <2>1. status' = [status EXCEPT ![item[s]] = "queued"] /\ To(s, "read") /\ UNCHANGED <<todo, item>>
    BY <1>4, Zenon DEF CreateJob
  <2>2. status'[item[s]] # "absent"
    BY <1>1, <2>1, SMT DEF Shape, JobShape
  <2> QED
    BY <1>1, <2>1, <2>2, TickGoes
<1> QED
  BY <1>2, <1>3, <1>4

LEMMA ReadKnows ==
    ASSUME Shape, JobEvidence, Kept, NEW s \in Schedulers, TickAt(s), Read(s)
    PROVE  TickAt(s)'
<1>1. spc[s] = "read" /\ UNCHANGED <<todo, item>> /\ item[s] \in Dispatches
  BY DEF Read, Shape, TickShape
<1>2. CASE status[item[s]] = "queued"
  BY <1>1, <1>2, TickGoes DEF Read
<1>3. CASE status[item[s]] # "queued"
  <2>1. To(s, "ack") /\ kind' = [kind EXCEPT ![s] = "sql_execution_or_terminal"]
    BY <1>3 DEF Read
  <2>2. kind'[s] # "attached_active"
    BY <2>1, SMT DEF Shape, TickShape
  <2>3. Alone => Reached(item[s]) \/ Settled(item[s])
    BY <1>1, <1>3 DEF JobEvidence, TickAt
  <2>4. Alone => Reached(item[s])' \/ Settled(item[s])
    BY <1>1, <2>3 DEF Kept, Read, Reached, rqVars
  <2> QED
    BY <1>1, <2>1, <2>2, <2>4, TickGoes
<1> QED
  BY <1>2, <1>3

LEMMA PushKnows ==
    ASSUME Shape, JobEvidence, Kept, NEW s \in Schedulers, TickAt(s),
           Watch(s) \/ Exec(s) \/ RedisFails(s)
    PROVE  TickAt(s)'
<1>1. /\ spc[s] \in {"receipt", "watch", "exec"} /\ UNCHANGED <<todo, item>>
      /\ item[s] \in Dispatches /\ item[s] \in Jobs
  BY DEF Watch, Exec, RedisFails, Tick, Shape, TickShape, Jobs
<1>2. CASE To(s, "exec") \/ To(s, "watch") \/ To(s, "release")
  BY <1>1, <1>2, TickGoes
<1>3. CASE ~(To(s, "exec") \/ To(s, "watch") \/ To(s, "release"))
  <2>1. /\ To(s, "ack") /\ \E k \in {"rq_existing", "rq_created"} : kind' = [kind EXCEPT ![s] = k]
        /\ (UNCHANGED <<rqVars, dropped>> /\ Confirmed(item[s])) \/ Push(item[s])
    BY <1>3 DEF Watch, Exec, RedisFails, Tick
  <2>2. kind'[s] # "attached_active"
    BY <2>1, SMT DEF Shape, TickShape
  <2>3. CASE UNCHANGED <<rqVars, dropped>> /\ Confirmed(item[s])
    <3>1. Reached(item[s])
      BY <1>1, <2>3 DEF Confirmed, JobEvidence
    <3>2. Reached(item[s])'
      BY <1>1, <2>3, <3>1 DEF Reached, rqVars
    <3> QED
      BY <1>1, <2>1, <2>2, <3>2, TickGoes
  <2>4. CASE Push(item[s])
    <3>1. Reached(item[s])'
      BY <1>1, <2>4 DEF Push, Reached
    <3> QED
      BY <1>1, <2>1, <2>2, <3>1, TickGoes
  <2> QED
    BY <2>1, <2>3, <2>4
<1> QED
  BY <1>2, <1>3

LEMMA TickKnows ==
    ASSUME Shape, JobEvidence, Kept, NEW s \in Schedulers, TickAt(s), StepOf(s)
    PROVE  TickAt(s)'
<1>1. CASE Acknowledge(s) \/ Release(s)
  BY <1>1, RestKnows DEF Acknowledge, Release, Rest
<1>2. CASE Stop(s)
  BY <1>2, RestKnows, Zenon DEF Stop
<1>3. CASE SchedulerCrash(s)
  BY <1>3, RestKnows, Zenon DEF SchedulerCrash, Rest
<1> QED
  BY <1>1, <1>2, <1>3, ClaimKnows, NextItemKnows, LooksKnows, ReceiptKnows, CreateJobKnows, ReadKnows,
     PushKnows, Zenon DEF StepOf, TickStep

(* Every other step leaves all ticks where they are. *)
LEMMA TicksMove ==
    ASSUME [Next]_vars
    PROVE  (\E s \in Schedulers : StepOf(s)) \/ UNCHANGED schedVars
<1>1. (\E d \in Dispatches : Lapse(d)) \/ UNCHANGED vars => UNCHANGED schedVars
  BY DEF Lapse, vars
<1>2. ApiStep \/ Request => UNCHANGED schedVars
  BY DEF ApiStep, LeavePending, Recover, Enqueue, Close, LookupAbandons, Request, Submit, Attach, Cancel, Lookup, Api
<1>3. WorkerStep => UNCHANGED schedVars
  BY DEF WorkerStep, ReadQueues, ReadPending, CloseRows, Start, Finish, Pop, CleanRegistry, Worker
<1>4. Faults => (\E s \in Schedulers : StepOf(s)) \/ UNCHANGED schedVars
  BY DEF Faults, StepOf, EnqueueFails, ApiCrash, WorkerCrash, Api, Worker
<1> QED
  BY <1>1, <1>2, <1>3, <1>4, Zenon DEF Next, StepOf

LEMMA TickEvidenceStep == ASSUME Shape, Evidence, [Next]_vars PROVE TickEvidence'
<1>1. Kept /\ JobEvidence /\ \A s \in Schedulers : TickAt(s)
  BY KnowledgeKept DEF Evidence, TickEvidence, TickAt
<1>2. ASSUME UNCHANGED schedVars, NEW s \in Schedulers PROVE TickAt(s)'
  <2>1. UNCHANGED <<spc, todo, item, act, kind>>
    BY <1>2 DEF schedVars
  <2> QED
    BY <1>1, <2>1, TickStands
<1>3. ASSUME NEW q \in Schedulers, StepOf(q), NEW s \in Schedulers PROVE TickAt(s)'
  BY <1>1, <1>3, TickKnows, OthersStand, TickStands
<1>4. \A s \in Schedulers : TickAt(s)'
  BY <1>2, <1>3, TicksMove
<1> QED
  BY <1>4 DEF TickEvidence, TickAt

(* Requests. *)
ApiMover ==
    \/ ApiStep \/ EnqueueFails \/ ApiCrash
    \/ \E j \in Jobs : (j \in Manual /\ Submit(j)) \/ Attach(j) \/ Cancel(j) \/ Lookup(j)

LEMMA ApiMovers == ASSUME [Next]_vars PROVE ApiMover \/ UNCHANGED apiVars
<1>1. ASSUME NEW s \in Schedulers, TickStep(s) PROVE UNCHANGED apiVars
  BY <1>1 DEF TickStep, Claim, NextItem, Renew, Find, Probe, Orphan, Found, Receipt, CreateJob, Read, Watch, Exec,
     Acknowledge, Release, Tick
<1>2. (\E d \in Dispatches : Lapse(d)) \/ UNCHANGED vars => UNCHANGED apiVars
  BY DEF Lapse, vars
<1>3. WorkerStep => UNCHANGED apiVars
  BY DEF WorkerStep, ReadQueues, ReadPending, CloseRows, Start, Finish, Pop, CleanRegistry, Worker
<1>4. Faults => ApiMover \/ UNCHANGED apiVars
  BY DEF Faults, Stop, ProbeFails, RedisFails, SchedulerCrash, WorkerCrash, Worker, ApiMover
<1>5. Request => ApiMover
  BY DEF Request, ApiMover
<1> QED
  BY <1>1, <1>2, <1>3, <1>4, <1>5, Zenon DEF Next, ApiMover

LEMMA ApiEvidenceStep == ASSUME Calm, Shape, Evidence, [Next]_vars PROVE ApiEvidence'
<1>1. Kept /\ JobStep /\ ApiEvidence /\ JobEvidence
  BY KnowledgeKept, JobSteps DEF Evidence
<1>2. \A j \in Jobs : Known(j) /\ j \notin PendingJobs => Settled(j)
  BY SMT DEF Known, Settled, PendingJobs, Shape, RowShape, Rows
<1>3. ASSUME NEW j \in Holders PROVE j \in Jobs /\ Known(j)
  BY <1>1, ManualAssumption DEF Holders, Active, JobEvidence, Known, Jobs
<1>4. ASSUME NEW pc, NEW j, Api(pc, j), pc # "idle",
             pc = "attach" => Known(j), pc \in {"recover", "enqueue", "abandon"} => Settled(j),
             pc = "close" => j \in dropped'
      PROVE  ApiEvidence'
  <2>1. api' = pc /\ target' = j
    BY <1>4 DEF Api
  <2> QED
    BY <1>1, <1>4, <2>1 DEF ApiEvidence, Kept
<1>5. ASSUME NEW j, Api("idle", j) PROVE ApiEvidence'
  BY <1>5 DEF Api, ApiEvidence
<1>6. CASE UNCHANGED apiVars
  <2>1. api' = api /\ target' = target
    BY <1>6 DEF apiVars
  <2> QED
    BY <1>1, <2>1 DEF ApiEvidence, Kept, JobStep
<1>7. CASE LeavePending
  <2>1. api = "attach" /\ target \in Jobs
    BY <1>7 DEF LeavePending, Shape, ApiShape
  <2>2. \/ Api("idle", target)
        \/ target \notin PendingJobs /\ Api("recover", target)
    BY <1>7 DEF LeavePending
  <2> QED
    BY <1>1, <1>2, <1>4, <1>5, <2>1, <2>2 DEF ApiEvidence
<1>8. CASE Recover
  BY <1>1, <1>4, <1>5, <1>8 DEF Recover, ApiEvidence
<1>9. CASE Enqueue \/ EnqueueFails \/ Close \/ LookupAbandons \/ ApiCrash
  BY <1>5, <1>9 DEF Enqueue, EnqueueFails, Close, LookupAbandons, ApiCrash
<1>10. ASSUME NEW j \in Manual, Submit(j) PROVE ApiEvidence'
  <2>1. Settled(j)
    BY ManualAssumption DEF Settled, Dispatches
  <2> QED
    BY <1>4, <1>10, <2>1 DEF Submit
<1>11. ASSUME NEW j \in Jobs, Attach(j) PROVE ApiEvidence'
  BY <1>3, <1>4, <1>11 DEF Attach
<1>12. ASSUME NEW j \in Jobs, Cancel(j) PROVE ApiEvidence'
  <2>1. Api("close", j) /\ j \in dropped'
    BY <1>12, Zenon DEF Cancel
  <2> QED
    BY <1>4, <2>1
<1>13. ASSUME NEW j \in Jobs, Lookup(j) PROVE ApiEvidence'
  <2>1. Api("abandon", j) /\ j \in Holders /\ j \notin PendingJobs
    BY <1>13 DEF Lookup, Calm
  <2> QED
    BY <1>2, <1>3, <1>4, <2>1
<1> QED
  BY <1>6, <1>7, <1>8, <1>9, <1>10, <1>11, <1>12, <1>13, ApiMovers, Zenon DEF ApiMover, ApiStep

(* The worker.  Alone, it reads the rows of the dispatches it saw pending. *)
LEMMA WorkerEvidenceStep == ASSUME Shape, Evidence, [Next]_vars PROVE WorkerEvidence'
<1>1. Kept /\ JobEvidence /\ WorkerEvidence
  BY KnowledgeKept DEF Evidence
<1> DEFINE Holds  == wpc \in {"popped", "started"} => Reached(wjob) /\ Known(wjob)
           Closes == Alone /\ wpc = "rows" => PendingJobs \subseteq kept
<1>2. Holds /\ Closes
  BY <1>1 DEF WorkerEvidence
<1>3. UNCHANGED disp => PendingJobs' = PendingJobs
  BY DEF PendingJobs
<1>4. ASSUME UNCHANGED workerVars PROVE Holds'
  <2>1. wpc' = wpc /\ wjob' = wjob
    BY <1>4 DEF workerVars
  <2> QED
    BY <1>1, <1>2, <2>1 DEF Kept
<1>5. ASSUME NEW d \in Dispatches, Lapse(d) PROVE Holds' /\ Closes'
  <2>1. UNCHANGED workerVars /\ disp' = [disp EXCEPT ![d].lapsed = TRUE]
    BY <1>5 DEF Lapse
  <2>2. \A e \in Dispatches : disp'[e].state = disp[e].state
    BY <2>1, LapseMarked DEF Shape
  <2>3. PendingJobs' = PendingJobs /\ wpc' = wpc /\ kept' = kept
    BY <2>1, <2>2 DEF PendingJobs, workerVars
  <2> QED
    BY <1>2, <1>4, <2>1, <2>3
<1>6. ASSUME WorkerStep PROVE Holds' /\ Closes'
  <2>1. CASE ReadQueues \/ CloseRows \/ Finish
    BY <2>1 DEF ReadQueues, CloseRows, Finish, Worker
  <2>2. CASE ReadPending
    <3>1. wpc' = "rows" /\ kept' = PendingJobs /\ UNCHANGED disp
      BY <2>2 DEF ReadPending, Worker
    <3> QED
      BY <1>3, <3>1
  <2>3. CASE Start
    <3>1. wpc = "popped" /\ wpc' = "started" /\ wjob' = wjob
      BY <2>3 DEF Start, Worker
    <3> QED
      BY <1>1, <1>2, <3>1 DEF Kept
  <2>4. ASSUME NEW j \in Jobs, Pop(j) PROVE Holds' /\ Closes'
    <3>1. wpc' = "popped" /\ wjob' = j /\ task[j] # "none"
      BY <2>4 DEF Pop, Worker
    <3>2. Reached(j)' /\ Known(j)'
      BY <1>1, <3>1 DEF JobEvidence, Kept
    <3> QED
      BY <3>1, <3>2
  <2>5. ASSUME NEW j \in Jobs, CleanRegistry(j) PROVE Holds' /\ Closes'
    <3>1. wpc' = wpc /\ wjob' = wjob /\ kept' = kept /\ UNCHANGED disp
      BY <2>5 DEF CleanRegistry, Worker
    <3> QED
      BY <1>1, <1>2, <1>3, <3>1 DEF Kept
  <2> QED
    BY <1>6, <2>1, <2>2, <2>3, <2>4, <2>5, Zenon DEF WorkerStep
<1>7. ASSUME Undisturbed, (\E s \in Schedulers : StepOf(s)) \/ ApiStep \/ Request \/ Faults
      PROVE  Holds' /\ Closes'
  <2>1. Alone => wpc \notin {"pending", "rows"}
    BY <1>7 DEF Undisturbed, Alone
  <2>2. CASE UNCHANGED workerVars
    <3>1. wpc' = wpc
      BY <2>2 DEF workerVars
    <3> QED
      BY <1>4, <2>1, <2>2, <3>1
  <2>3. CASE WorkerCrash
    BY <2>3 DEF WorkerCrash, Worker
  <2>4. UNCHANGED workerVars \/ WorkerCrash
    <3>1. ASSUME NEW s \in Schedulers, StepOf(s) PROVE UNCHANGED workerVars
      BY <3>1 DEF StepOf, TickStep, Claim, NextItem, Renew, Find, Probe, Orphan, Found, Receipt, CreateJob, Read,
         Watch, Exec, Acknowledge, Release, Tick, Stop, ProbeFails, RedisFails, SchedulerCrash
    <3>2. ApiStep \/ Request => UNCHANGED workerVars
      BY DEF ApiStep, LeavePending, Recover, Enqueue, Close, LookupAbandons, Request, Submit, Attach, Cancel,
         Lookup, Api
    <3>3. Faults => UNCHANGED workerVars \/ WorkerCrash
      BY <3>1 DEF Faults, StepOf, EnqueueFails, ApiCrash, Api
    <3> QED
      BY <1>7, <3>1, <3>2, <3>3
  <2> QED
    BY <2>2, <2>3, <2>4
<1>8. ASSUME UNCHANGED vars PROVE Holds' /\ Closes'
  <2>1. UNCHANGED workerVars /\ UNCHANGED disp
    BY <1>8 DEF vars
  <2>2. wpc' = wpc /\ kept' = kept
    BY <2>1 DEF workerVars
  <2> QED
    BY <1>2, <1>3, <1>4, <2>1, <2>2
<1>9. ASSUME NEW s \in Schedulers, TickStep(s) PROVE Holds' /\ Closes'
  BY <1>7, <1>9 DEF TickStep, StepOf
<1>10. ASSUME ApiStep PROVE Holds' /\ Closes'
  BY <1>7, <1>10 DEF ApiStep
<1>11. Holds' /\ Closes'
  BY <1>5, <1>6, <1>7, <1>8, <1>9, <1>10, Zenon DEF Next
<1> QED
  BY <1>11 DEF WorkerEvidence

(* The receipt that a tick stores is one that TickEvidence accounts for. *)
LEMMA NoSlotDroppedStep == ASSUME Alone, Shape, Evidence, [Next]_vars PROVE NoSlotDropped'
<1>1. Kept /\ NoSlotDropped /\ TickEvidence
  BY KnowledgeKept DEF Evidence
<1>2. SUFFICES ASSUME NEW d \in Dispatches, disp'[d].state = "acknowledged"
               PROVE  IF disp'[d].receipt = "attached_active" THEN \E j \in Jobs \ {d} : Reached(j)'
                      ELSE Reached(d)'
  BY DEF NoSlotDropped
<1>3. RowStep(d)
  BY RowSteps
<1>4. CASE disp[d].state = "acknowledged"
  <2>1. disp'[d] = disp[d]
    BY <1>3, <1>4 DEF RowStep
  <2> QED
    BY <1>1, <1>4, <2>1 DEF NoSlotDropped, Kept
<1>5. CASE disp[d].state # "acknowledged"
  <2>1. PICK s \in Schedulers : Acknowledge(s) /\ item[s] = d /\ disp'[d].receipt = kind[s]
    BY <1>2, <1>3, <1>5 DEF RowStep
  <2>2. spc[s] = "ack" /\ ~Settled(d)
    BY <1>5, <2>1 DEF Acknowledge, Settled
  <2>3. IF kind[s] = "attached_active" THEN \E j \in Jobs \ {d} : Reached(j) ELSE Reached(d)
    BY <1>1, <2>1, <2>2 DEF TickEvidence
  <2> QED
    BY <1>1, <2>1, <2>3 DEF Kept
<1> QED
  BY <1>4, <1>5

LEMMA EvidenceInit == Init => Evidence
BY SMT DEF Init, Evidence, JobEvidence, TickEvidence, ApiEvidence, WorkerEvidence, NoSlotDropped, Row, Jobs

LEMMA EvidenceAlways == ASSUME Calm PROVE Spec => []Evidence
<1>1. ASSUME Shape, Evidence, [Next]_vars PROVE Evidence'
  BY <1>1, JobEvidenceStep, TickEvidenceStep, ApiEvidenceStep, WorkerEvidenceStep, NoSlotDroppedStep
     DEF Evidence
<1> QED
  BY <1>1, EvidenceInit, ShapeAlways, PTL DEF Spec

(* No due slot is acknowledged without work of it, or of the active job it  *)
(* attached to, having reached the queue or having been withdrawn by a      *)
(* person: whatever ticks overlap, die, lose their lease or a reply, and    *)
(* wherever the worker and the API are.  Not so if somebody writes while    *)
(* the worker reconciles, or if the lookup of api.py may close the job of a *)
(* pending slot; with either the property is false.                         *)
THEOREM NoSlotDroppedAlways ==
    ASSUME "boot_race" \notin Env, "api_lookup" \notin Env
    PROVE  Spec => []NoSlotDropped
<1>1. Evidence => NoSlotDropped
  BY DEF Evidence, Alone
<1>2. Spec => []Evidence
  BY EvidenceAlways DEF Calm
<1> QED
  BY <1>1, <1>2, PTL

(* The lookup of api.py is all that contradicts the promise of              *)
(* analysis_job_service.py: without it no step of the API closes the job of *)
(* a pending slot but a person's cancel or force, even while the worker     *)
(* reconciles.                                                              *)
THEOREM OnlyTheLookupTerminalizes ==
    ASSUME "api_lookup" \notin Env
    PROVE  Spec => PendingNotTerminalized
<1> DEFINE Step == \A d \in PendingJobs :
          (status[d] \in Active /\ status'[d] \in Ended /\ api' # api) => d \in dropped'
<1>1. ASSUME Shape, Evidence, [Next]_vars PROVE [Step]_vars
  <2>1. SUFFICES ASSUME NEW d \in PendingJobs, status[d] \in Active, status'[d] \in Ended, api' # api
                 PROVE  d \in dropped'
    OBVIOUS
  <2>2. d \in Jobs /\ ~Settled(d) /\ d \notin Manual /\ status'[d] # status[d] /\ status'[d] # "queued"
    BY <2>1, ManualAssumption DEF PendingJobs, Settled, Jobs, Dispatches, Active, Ended
  <2>3. dropped \subseteq dropped' /\ StatusFrom(d)
    BY <1>1, <2>2, JobSteps DEF JobStep
  <2>4. ApiMover
    BY <1>1, <2>1, ApiMovers DEF apiVars
  <2>5. api \in {"close", "abandon", "enqueue"} /\ target = d => d \in dropped
    BY <1>1, <2>2 DEF Evidence, ApiEvidence
  <2>6. CASE ApiStep \/ EnqueueFails \/ ApiCrash
    <3>1. status'[d] # status[d] => api \in {"close", "abandon", "enqueue"} /\ target = d
      <4>1. CASE LeavePending \/ Recover \/ Enqueue \/ ApiCrash
        BY <4>1 DEF LeavePending, Recover, Enqueue, ApiCrash, jobVars
      <4>2. CASE Close
        BY <1>1, <2>2, <4>2, SMT DEF Close, Shape, JobShape
      <4>3. CASE EnqueueFails
        BY <1>1, <2>2, <4>3, SMT DEF EnqueueFails, Shape, JobShape
      <4>4. CASE LookupAbandons
        BY <2>2, <4>4, AbandonedRows DEF LookupAbandons
      <4> QED
        BY <2>6, <4>1, <4>2, <4>3, <4>4 DEF ApiStep
    <3> QED
      BY <2>2, <2>3, <2>5, <3>1
  <2>7. ASSUME NEW j \in Manual, Submit(j) PROVE d \in dropped'
    <3>1. /\ status' = [i \in Jobs |-> IF i = j THEN "queued"
                                       ELSE IF i \in Holders THEN "cancelled" ELSE status[i]]
          /\ dropped' = dropped \cup Holders
      BY <2>7, Zenon DEF Submit
    <3> QED
      BY <2>2, <3>1
  <2>8. ASSUME NEW j \in Jobs, Attach(j) \/ Cancel(j) \/ Lookup(j) PROVE status'[d] = status[d]
    BY <2>8 DEF Attach, Cancel, Lookup, jobVars
  <2> QED
    BY <2>2, <2>4, <2>6, <2>7, <2>8, Zenon DEF ApiMover
<1>2. Spec => []Evidence
  BY EvidenceAlways DEF Calm
<1> QED
  BY <1>1, <1>2, ShapeAlways, PTL DEF Spec, PendingNotTerminalized
=============================================================================
