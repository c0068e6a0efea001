---------------------------- MODULE EventStream ----------------------------
(***************************************************************************)
(* The event log of one analysis job and the streams (SSE) that replay it  *)
(* to the pages that watch the job.                                        *)
(*                                                                         *)
(* Whoever changes the row of the job tells the log afterwards, in another *)
(* transaction: the worker, its start-up reconciliation, a cancel, a       *)
(* request that supersedes the job.  A stream polls the log, then the row, *)
(* and if the row has ended and the log does not say so it appends the     *)
(* terminal event itself.  A page whose connection fails connects again    *)
(* after the last id it heard, until it hears a terminal event.            *)
(*                                                                         *)
(* An event is reduced to its type, where "status" stands for all that are *)
(* not terminal; the id of an event is its place in the log (SQLite gives  *)
(* ids in the order of commits).  The rows and their UPDATEs are JobRows.  *)
(* One worker process is there at a time, as deployments start one.        *)
(***************************************************************************)
EXTENDS Naturals, Sequences

CONSTANTS Pages,        \* pages that watch the job
          Impatient,    \* those whose stream cancels the job when they go away
          User,         \* who cancels or supersedes the job by a request
          MaxProgress,  \* bound: length of the log to which progress is added
          MaxRetries,   \* retries that RQ has left
          MaxFaults     \* bound: worker deaths, lost connections, errors of the store

ASSUME PagesAssumption == Impatient \subseteq Pages /\ User \notin Pages
ASSUME BoundAssumption == {MaxProgress, MaxRetries, MaxFaults} \subseteq Nat

Job == "job"
INSTANCE JobRows WITH Jobs <- {Job}, Keys <- {Job}, KeyOf <- [j \in {Job} |-> Job]

VARIABLES row, log,
          wpc, goal, set, left,                 \* the worker
          apc, aset, note,                      \* requests of the API process
          spc, up, cursor, upto, verdict,       \* the stream of each page
          heard, told,                          \* what each page has heard
          faults

dbVars     == <<row, log>>
workerVars == <<wpc, goal, set, left>>
apiVars    == <<apc, aset, note>>
streamVars == <<spc, up, cursor, upto, verdict>>
pageVars   == <<heard, told>>
vars == <<dbVars, workerVars, apiVars, streamVars, pageVars, faults>>

Requesters == Impatient \cup {User}
Ends       == {"done", "error"}

Init ==
    /\ row = NewRow /\ log = <<"status">>
    /\ wpc = "queued" /\ goal = "running" /\ set = "skip" /\ left = MaxRetries
    /\ apc = [r \in Requesters |-> "idle"] /\ aset = [r \in Requesters |-> "skip"]
    /\ note = [r \in Requesters |-> "none"]
    /\ spc = [c \in Pages |-> "top"] /\ up = [c \in Pages |-> TRUE]
    /\ cursor = [c \in Pages |-> 0] /\ upto = [c \in Pages |-> 0]
    /\ verdict = [c \in Pages |-> "none"]
    /\ heard = [c \in Pages |-> <<>>] /\ told = [c \in Pages |-> "none"]
    /\ faults = 0

Fault == faults < MaxFaults /\ faults' = faults + 1

-----------------------------------------------------------------------------
(* The worker and its start-up reconciliation.                              *)

(* Mutant: the notice of a scheduled retry is an error event. *)
EventOfRetryAsError(g) == IF g = "done" THEN "done" ELSE "error"

(* The event that follows an update of the row. *)
EventOf(g) == IF g = "done" THEN "done" ELSE IF g = "waiting_retry" THEN "status" ELSE "error"

(* A task for a row that has ended does nothing; otherwise the run begins. *)
Take ==
    /\ wpc = "queued"
    /\ IF row.status \in Terminal THEN wpc' = "over" /\ UNCHANGED goal
       ELSE wpc' = "select" /\ goal' = "running"
    /\ UNCHANGED <<dbVars, set, left, apiVars, streamVars, pageVars, faults>>

(* update_job and mark_jobs_abandoned read the row first ... *)
Select ==
    /\ wpc = "select"
    /\ set' = IF goal = "abandon" THEN AbandonChoice(row) ELSE UpdateChoice(row, goal)
    /\ wpc' = IF goal = "abandon" /\ set' = "skip" THEN "over" ELSE "update"
    /\ UNCHANGED <<dbVars, goal, left, apiVars, streamVars, pageVars, faults>>

(* ... and update it then. *)
Update ==
    /\ wpc = "update"
    /\ row' = Applied(row, set)
    /\ wpc' = IF goal = "running" THEN "run" ELSE "tell"
    /\ set' = "skip"
    /\ UNCHANGED <<log, goal, left, apiVars, streamVars, pageVars, faults>>

(* Progress, provenance, finished reports. *)
Progress ==
    /\ wpc = "run" /\ Len(log) < MaxProgress
    /\ log' = Append(log, "status")
    /\ UNCHANGED <<row, workerVars, apiVars, streamVars, pageVars, faults>>

(* The run ends: at a check that finds the cancel flag, at the last check,  *)
(* with an error, or with one for which RQ has a retry left.                *)
Finish ==
    /\ wpc = "run" /\ wpc' = "select"
    /\ \/ goal' = (IF row.cancel THEN "cancelled" ELSE "done") /\ UNCHANGED left
       \/ goal' = "error" /\ UNCHANGED left
       \/ left > 0 /\ left' = left - 1 /\ goal' = "waiting_retry"
    /\ UNCHANGED <<dbVars, set, apiVars, streamVars, pageVars, faults>>

(* The event of the outcome is appended whatever update_job made of it. *)
Tell ==
    /\ wpc = "tell"
    /\ log' = Append(log, EventOf(goal))
    /\ wpc' = IF goal = "waiting_retry" THEN "queued" ELSE "over"
    /\ UNCHANGED <<row, goal, set, left, apiVars, streamVars, pageVars, faults>>

(* The process dies, possibly between an update and its event. *)
Crash ==
    /\ wpc \in {"select", "update", "run", "tell"} /\ Fault
    /\ wpc' = "boot" /\ set' = "skip"
    /\ UNCHANGED <<dbVars, goal, left, apiVars, streamVars, pageVars>>

(* The next process reads the registries of RQ and the active rows: a row   *)
(* without a task is abandoned, a running one whose task RQ has queued again *)
(* is marked as waiting.  A row that has ended it does not look at.          *)
Reconcile ==
    /\ wpc = "boot"
    /\ \/ row.status \in Terminal /\ wpc' = "over" /\ UNCHANGED <<goal, left>>
       \/ row.status \in Active /\ wpc' = "select" /\ goal' = "abandon" /\ UNCHANGED left
       \/ /\ row.status \in Active /\ left > 0 /\ left' = left - 1
          /\ IF row.status = "running" THEN wpc' = "select" /\ goal' = "waiting_retry"
             ELSE wpc' = "queued" /\ UNCHANGED goal
    /\ UNCHANGED <<dbVars, set, apiVars, streamVars, pageVars, faults>>

Worker == Take \/ Select \/ Update \/ Progress \/ Finish \/ Tell \/ Crash \/ Reconcile

-----------------------------------------------------------------------------
(* Requests: a cancel of the user or of a stream, a forced new job.         *)

Ask ==
    /\ apc[User] = "idle" /\ apc' = [apc EXCEPT ![User] = "select"]
    /\ UNCHANGED <<dbVars, workerVars, aset, note, streamVars, pageVars, faults>>

(* request_job_cancel: its event is appended if the row was active when read. *)
CancelSelect(r) ==
    /\ apc[r] = "select" /\ apc' = [apc EXCEPT ![r] = "update"]
    /\ aset' = [aset EXCEPT ![r] = CancelChoice(row)]
    /\ note' = [note EXCEPT ![r] = IF row.status \in Active THEN "status" ELSE "none"]
    /\ UNCHANGED <<dbVars, workerVars, streamVars, pageVars, faults>>

CancelUpdate(r) ==
    /\ apc[r] = "update"
    /\ apc' = [apc EXCEPT ![r] = IF note[r] = "none" THEN "over" ELSE "tell"]
    /\ row' = Applied(row, aset[r]) /\ aset' = [aset EXCEPT ![r] = "skip"]
    /\ UNCHANGED <<log, workerVars, note, streamVars, pageVars, faults>>

(* create_or_attach_active_job with force: reads and closes the holder of  *)
(* the key in one transaction, and tells its log afterwards.               *)
Supersede ==
    /\ apc[User] = "idle" /\ apc' = [apc EXCEPT ![User] = "tell"]
    /\ Holds(row) /\ row' = Applied(row, "close")
    /\ note' = [note EXCEPT ![User] = "error"]
    /\ UNCHANGED <<log, workerVars, aset, streamVars, pageVars, faults>>

RequestTells(r) ==
    /\ apc[r] = "tell" /\ apc' = [apc EXCEPT ![r] = "over"]
    /\ log' = Append(log, note[r]) /\ note' = [note EXCEPT ![r] = "none"]
    /\ UNCHANGED <<row, workerVars, aset, streamVars, pageVars, faults>>

Request == Ask \/ Supersede \/ \E r \in Requesters : CancelSelect(r) \/ CancelUpdate(r) \/ RequestTells(r)

-----------------------------------------------------------------------------
(* The stream of page c: analysis_event_generator, await by await.          *)

At(c, pc) == spc[c] = pc
Go(c, pc) == spc' = [spc EXCEPT ![c] = pc]

(* The stream is over, and its variables with it. *)
Close(c) ==
    /\ Go(c, "off") /\ up' = [up EXCEPT ![c] = FALSE]
    /\ cursor' = [cursor EXCEPT ![c] = 0] /\ upto' = [upto EXCEPT ![c] = 0]
    /\ verdict' = [verdict EXCEPT ![c] = "none"]

(* Mutant: a page that was cut off asks for the whole log again. *)
HeardNothing(c) == 0

(* lastEventId of the page. *)
LastHeard(c) == IF heard[c] = <<>> THEN 0 ELSE heard[c][Len(heard[c])]

(* A page that has heard no end connects, after the last id it heard. *)
Connect(c) ==
    /\ At(c, "off") /\ told[c] = "none"
    /\ Go(c, "top") /\ up' = [up EXCEPT ![c] = TRUE]
    /\ cursor' = [cursor EXCEPT ![c] = LastHeard(c)]
    /\ UNCHANGED <<dbVars, workerVars, apiVars, upto, verdict, pageVars, faults>>

(* The connection fails; the stream learns of it at its next check. *)
Disconnect(c) ==
    /\ up[c] /\ Fault
    /\ up' = [up EXCEPT ![c] = FALSE]
    /\ UNCHANGED <<dbVars, workerVars, apiVars, spc, cursor, upto, verdict, pageVars>>

(* The stream ends because nobody listens.  The check at the head of its   *)
(* loop asks for the cancel of an impatient page; those before an event and *)
(* before a ping do not, nor does the response, which may cancel the        *)
(* generator at any await.                                                  *)
Abandoned(c) ==
    /\ ~up[c] /\ ~At(c, "off") /\ Close(c)
    /\ \/ UNCHANGED apc
       \/ /\ At(c, "top") /\ c \in Impatient /\ apc[c] = "idle"
          /\ apc' = [apc EXCEPT ![c] = "select"]
    /\ UNCHANGED <<dbVars, workerVars, aset, note, pageVars, faults>>

(* get_events_since reads all events after the cursor. *)
ReadLog(c) ==
    /\ At(c, "top") /\ up[c]
    /\ upto' = [upto EXCEPT ![c] = Len(log)]
    /\ Go(c, IF Len(log) > cursor[c] THEN "send" ELSE "row")
    /\ UNCHANGED <<dbVars, workerVars, apiVars, up, cursor, verdict, pageVars, faults>>

(* The next event of the batch is sent; it is heard unless the connection   *)
(* fails under way.  A terminal event ends the stream and the page.         *)
Send(c) ==
    /\ At(c, "send") /\ up[c]
    /\ LET id    == cursor[c] + 1
           event == log[id]
       IN \/ /\ heard' = [heard EXCEPT ![c] = Append(@, id)]
             /\ UNCHANGED faults
             /\ IF event \in Ends
                THEN told' = [told EXCEPT ![c] = event] /\ Close(c)
                ELSE /\ Go(c, IF id = upto[c] THEN "top" ELSE "send")
                     /\ cursor' = [cursor EXCEPT ![c] = id]
                     /\ UNCHANGED <<told, up, upto, verdict>>
          \/ Fault /\ Close(c) /\ UNCHANGED pageVars
    /\ UNCHANGED <<dbVars, workerVars, apiVars>>

(* Mutant: a stream trusts that whoever ended the job also tells the log. *)
ReadRowPatiently(c) ==
    /\ At(c, "row") /\ Go(c, "top")
    /\ UNCHANGED <<dbVars, workerVars, apiVars, up, cursor, upto, verdict, pageVars, faults>>

(* get_job: nothing new was in the log, so the row decides: its end is told, *)
(* or there is a ping, a sleep of 1 to 5 seconds and another round.          *)
ReadRow(c) ==
    /\ At(c, "row")
    /\ IF row.status \in Terminal
       THEN /\ verdict' = [verdict EXCEPT ![c] = IF row.status = "done" THEN "done" ELSE "error"]
            /\ Go(c, "look")
       ELSE Go(c, "top") /\ UNCHANGED verdict
    /\ UNCHANGED <<dbVars, workerVars, apiVars, up, cursor, upto, pageVars, faults>>

(* persist_terminal_event_if_missing: a look at the whole log ... *)
Look(c) ==
    /\ At(c, "look")
    /\ Go(c, IF \E i \in DOMAIN log : log[i] \in Ends THEN "say" ELSE "append")
    /\ UNCHANGED <<dbVars, workerVars, apiVars, up, cursor, upto, verdict, pageVars, faults>>

(* ... and the terminal event, which the next round then replays. *)
Persist(c) ==
    /\ At(c, "append") /\ Go(c, "top")
    /\ log' = Append(log, verdict[c]) /\ verdict' = [verdict EXCEPT ![c] = "none"]
    /\ UNCHANGED <<row, workerVars, apiVars, up, cursor, upto, pageVars, faults>>

(* The store raises in the loop: the stream breaks off. *)
LoopRaises(c) ==
    /\ (At(c, "top") /\ up[c]) \/ At(c, "row")
    /\ Fault /\ Close(c)
    /\ UNCHANGED <<dbVars, workerVars, apiVars, pageVars>>

(* It raises in persist_terminal_event_if_missing, before or after the event *)
(* was appended: the verdict is said without it.                             *)
PersistRaises(c) ==
    /\ spc[c] \in {"look", "append"} /\ Fault /\ Go(c, "say")
    /\ \/ UNCHANGED log
       \/ At(c, "append") /\ log' = Append(log, verdict[c])
    /\ UNCHANGED <<row, workerVars, apiVars, up, cursor, upto, verdict, pageVars>>

(* The log has, or cannot take, the event: the verdict goes out without id. *)
Say(c) ==
    /\ At(c, "say")
    /\ told' = [told EXCEPT ![c] = IF up[c] THEN verdict[c] ELSE @]
    /\ Close(c)
    /\ UNCHANGED <<dbVars, workerVars, apiVars, heard, faults>>

Stream(c) == Connect(c) \/ Abandoned(c) \/ ReadLog(c) \/ Send(c) \/ ReadRow(c)
                \/ Look(c) \/ Persist(c) \/ Say(c)

Next == Worker \/ Request \/ \E c \in Pages : Stream(c) \/ Disconnect(c) \/ LoopRaises(c) \/ PersistRaises(c)

Spec == Init /\ [][Next]_vars

(* Pages connect again and streams go on.  Nothing is assumed of the worker *)
(* or of requests: they may stop for ever between an update and its event.  *)
FairSpec == Spec /\ \A c \in Pages : WF_vars(Stream(c))

-----------------------------------------------------------------------------
(* Properties.                                                              *)

(* Every variable has its type: rows, log, and the local state of the worker, *)
(* the requests, the streams and the pages.                                   *)
TypeOK ==
    /\ row \in Row /\ log \in Seq({"status", "done", "error"})
    /\ wpc \in {"queued", "select", "update", "run", "tell", "boot", "over"}
    /\ goal \in {"running", "waiting_retry", "error", "cancelled", "done", "abandon"}
    /\ set \in Statements /\ left \in Nat
    /\ apc \in [Requesters -> {"idle", "select", "update", "tell", "over"}]
    /\ aset \in [Requesters -> Statements] /\ note \in [Requesters -> {"none", "status", "error"}]
    /\ spc \in [Pages -> {"off", "top", "send", "row", "look", "append", "say"}]
    /\ up \in [Pages -> BOOLEAN] /\ cursor \in [Pages -> Nat] /\ upto \in [Pages -> Nat]
    /\ verdict \in [Pages -> Ends \cup {"none"}]
    /\ heard \in [Pages -> Seq(Nat)] /\ told \in [Pages -> Ends \cup {"none"}]
    /\ faults \in Nat

(* Over however many connections, a page hears the events of the log each   *)
(* once and in order: an event lost under way is sent again, one that was   *)
(* heard is not, and none that is appended between two batches is skipped.  *)
ReplayExact == \A c \in Pages : heard[c] = [i \in 1..Len(heard[c]) |-> i]

(* A page that was told the end was told the truth, whether the worker told *)
(* the log, or a stream did, or nobody: the job does not run on, "done" is  *)
(* said of a done row and "error" of one that failed.  The exceptions are   *)
(* rows that a request flagged: the worker tells "done" of a run that was   *)
(* past its last check though its row ends cancelled, and a superseded job  *)
(* may be made active once more by an update that was chosen before.        *)
TellsTheRow ==
    \A c \in Pages :
        /\ told[c] = "done"  => row.status = "done" \/ (row.status = "cancelled" /\ row.cancel)
        /\ told[c] = "error" => row.status \in {"error", "cancelled"} \/ row.cancel

(* A page that keeps connecting is told the end of a job that has ended,    *)
(* though the process that ended it died before it told the log, and though *)
(* the log cannot take the event.                                           *)
EveryPageIsTold ==
    \A c \in Pages : <>[](row.status \in Terminal) => <>(told[c] # "none")
=============================================================================
