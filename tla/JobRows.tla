------------------------------ MODULE JobRows ------------------------------
(***************************************************************************)
(* The rows of the analysis_jobs table and the statements that job_store   *)
(* and its helpers run on them, as operators on one row.                   *)
(*                                                                         *)
(* A row is abstracted to what the lifecycle tells apart: its status, the  *)
(* cancel_requested flag, whether updated_at is older than the stale       *)
(* cutoff, and whether a filename has been stored.                         *)
(*                                                                         *)
(* Only create_or_attach_active_job opens its transaction before it reads  *)
(* (BEGIN IMMEDIATE).  update_job, request_job_cancel and                  *)
(* mark_jobs_abandoned read the row first and open the transaction of      *)
(* their UPDATE afterwards, and _JOB_LOCK excludes only threads of the     *)
(* same process.  Each of them is therefore two operators: the Choice made *)
(* from the row that was read, and its effect on the row as it is then.    *)
(***************************************************************************)
CONSTANTS Jobs,   \* job ids; a job id is never reused for other work
          Keys,   \* the (ticker, pipeline_id) pairs
          KeyOf   \* the pair each job id was built for

ASSUME KeyOfAssumption == KeyOf \in [Jobs -> Keys]

Active   == {"queued", "running", "waiting_retry"}
Terminal == {"done", "error", "cancelled"}

Row == [status : {"absent"} \cup Active \cup Terminal,
        cancel : BOOLEAN,
        stale  : BOOLEAN,
        filed  : BOOLEAN]

NoRow  == [status |-> "absent", cancel |-> FALSE, stale |-> FALSE, filed |-> FALSE]
NewRow == [status |-> "queued", cancel |-> FALSE, stale |-> FALSE, filed |-> FALSE]

(* A row the partial unique index (ticker, pipeline_id) covers. *)
Holds(r) == r.status \in Active /\ ~r.cancel

Indexed(rows, k) == {j \in Jobs : KeyOf[j] = k /\ Holds(rows[j])}

(* What find_active_job returns: the index entry, unless it went stale. *)
Visible(rows, k) == {j \in Indexed(rows, k) : ~rows[j].stale}

(* The UPDATEs: "close" and "flag" of request_job_cancel, "abandon" of *)
(* mark_jobs_abandoned, and one of update_job for each status it sets. *)
Statements == {"running", "waiting_retry", "error", "cancelled", "done",
               "close", "flag", "abandon", "skip"}

(***************************************************************************)
(* update_job: a missing row and a terminal row of another status are left *)
(* alone; "done" on a cancel-requested row is stored as "cancelled".       *)
(***************************************************************************)
Settled(r, s) == r.status \in Terminal /\ r.status # s

UpdateChoice(r, s) ==
    IF r.status = "absent" \/ Settled(r, s) THEN "skip"
    ELSE IF s = "done" /\ r.cancel THEN "cancelled" ELSE s

(* request_job_cancel: a queued row is closed at once, any other is flagged. *)
CancelChoice(r) ==
    IF r.status = "absent" THEN "skip"
    ELSE IF r.status = "queued" THEN "close" ELSE "flag"

(* mark_jobs_abandoned: only rows that are still active are closed. *)
AbandonChoice(r) == IF r.status \in Active THEN "abandon" ELSE "skip"

(* Mutant: the closing statement of a cancel leaves cancel_requested alone. *)
AppliedCloseUnflagged(r, s) ==
    [r EXCEPT !.status = IF s \in {"flag", "skip"} THEN @
                         ELSE IF s = "close" THEN "cancelled"
                         ELSE IF s = "abandon" THEN "error" ELSE s,
              !.cancel = @ \/ s \in {"abandon", "flag"},
              !.stale  = @ /\ s = "skip",
              !.filed  = @ \/ s = "done"]

(* The UPDATE has no condition on the status: it overwrites what is there. *)
Applied(r, s) ==
    [r EXCEPT !.status = IF s \in {"flag", "skip"} THEN @
                         ELSE IF s = "close" THEN "cancelled"
                         ELSE IF s = "abandon" THEN "error" ELSE s,
              !.cancel = @ \/ s \in {"close", "flag", "abandon"},
              !.stale  = @ /\ s = "skip",
              !.filed  = @ \/ s = "done"]

(* append_event refreshes updated_at while the row is active. *)
Touched(r) == IF r.status \in Active THEN [r EXCEPT !.stale = FALSE] ELSE r
=============================================================================
