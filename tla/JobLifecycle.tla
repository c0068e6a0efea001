---------------------------- MODULE JobLifecycle ----------------------------
(***************************************************************************)
(* What an analysis job promises to a client that can only see its status, *)
(* whether a cancel was recorded, and which reports exist: the state       *)
(* diagram of docs/architecture.md, weakened to what the code keeps while  *)
(* reads and writes of a row interleave.  No queue, worker, request or     *)
(* statement is visible here.                                              *)
(*                                                                         *)
(* A settled job nobody cancelled is left alone, except by a late cancel   *)
(* or abandonment; the status of a cancelled one may still be overwritten  *)
(* by its run, but its key is free and the flag stays.                     *)
(***************************************************************************)
EXTENDS Naturals
CONSTANTS Jobs, Keys, KeyOf, LastSegment

VARIABLES state, cancel, out
vars == <<state, cancel, out>>

Active   == {"queued", "running", "waiting_retry"}
Segments == 1..LastSegment

Holders(k) == {j \in Jobs : KeyOf[j] = k /\ state[j] \in Active /\ ~cancel[j]}

Init ==
    /\ state = [j \in Jobs |-> "absent"]
    /\ cancel = [j \in Jobs |-> FALSE]
    /\ out = [j \in Jobs |-> {}]

(* A new job takes its key over from every holder. *)
Open(j) ==
    LET old == Holders(KeyOf[j]) IN
    /\ state[j] = "absent"
    /\ state' = [i \in Jobs |-> IF i = j THEN "queued"
                                ELSE IF i \in old THEN "cancelled" ELSE state[i]]
    /\ cancel' = [i \in Jobs |-> cancel[i] \/ i \in old]
    /\ UNCHANGED out

Become(j, s) == state' = [state EXCEPT ![j] = s] /\ UNCHANGED <<cancel, out>>

(* The run of the job may set its status. *)
Ours(j) == state[j] \in Active \/ cancel[j]

Start(j) == Ours(j) /\ Become(j, "running")
Wait(j)  == Ours(j) /\ state[j] # "queued" /\ Become(j, "waiting_retry")
Fail(j)  == Ours(j) /\ Become(j, "error")

(* A job completes only with every report published. *)
Complete(j) == Ours(j) /\ state[j] # "queued" /\ out[j] = Segments /\ Become(j, "done")

(* A cancel flags the job, and may close it at once. *)
RequestCancel(j) ==
    /\ state[j] # "absent"
    /\ cancel' = [cancel EXCEPT ![j] = TRUE]
    /\ \E s \in {state[j], "cancelled"} : state' = [state EXCEPT ![j] = s]
    /\ UNCHANGED out

(* A flagged job is closed where its run observes the flag. *)
Close(j) == cancel[j] /\ Become(j, "cancelled")

(* Jobs whose task disappeared are closed together. *)
Abandon(lost) ==
    /\ \A j \in lost : state[j] # "absent"
    /\ state' = [j \in Jobs |-> IF j \in lost THEN "error" ELSE state[j]]
    /\ cancel' = [j \in Jobs |-> cancel[j] \/ j \in lost]
    /\ UNCHANGED out

(* Reports appear in sequence order and are only ever overwritten in place. *)
Publish(j) ==
    /\ state[j] \notin {"absent", "queued"}
    /\ \E s \in Segments \ out[j] :
          /\ 1..(s - 1) \subseteq out[j]
          /\ out' = [out EXCEPT ![j] = @ \cup {s}]
    /\ UNCHANGED <<state, cancel>>

Next ==
    \/ \E j \in Jobs : \/ Open(j) \/ Start(j) \/ Wait(j) \/ Fail(j) \/ Complete(j)
                       \/ RequestCancel(j) \/ Close(j) \/ Publish(j)
    \/ \E lost \in SUBSET Jobs : Abandon(lost)

Spec == Init /\ [][Next]_vars
=============================================================================
