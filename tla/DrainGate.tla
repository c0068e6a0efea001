------------------------------ MODULE DrainGate ------------------------------
(***************************************************************************)
(* What the maintenance gate promises to those who drain the system: work  *)
(* moves only inside, nobody gets inside once the gate is closing, and     *)
(* "drained" is said once everybody is out.  A gate opens once in its life *)
(* and a lost one never opens again.  MaintenanceGate implements it.       *)
(***************************************************************************)
CONSTANTS Members, \* who may be inside
          Works    \* what the work may look like

VARIABLES mode, inside, work
vars == <<mode, inside, work>>

Init == mode = "shut" /\ inside = {} /\ work \in Works

Open  == mode = "shut" /\ mode' = "open" /\ UNCHANGED <<inside, work>>
Close == mode = "open" /\ mode' = "closing" /\ UNCHANGED <<inside, work>>
Drain == mode = "closing" /\ inside = {} /\ mode' = "drained" /\ UNCHANGED <<inside, work>>
Lose  == mode' = "lost" /\ UNCHANGED <<inside, work>>

Enter(x) == mode = "open" /\ inside' = inside \cup {x} /\ UNCHANGED <<mode, work>>
Leave(x) == inside' = inside \ {x} /\ UNCHANGED mode /\ (work' = work \/ (x \in inside /\ work' \in Works))
Work     == inside # {} /\ work' \in Works /\ UNCHANGED <<mode, inside>>

Next == Open \/ Close \/ Drain \/ Lose \/ Work \/ \E x \in Members : Enter(x) \/ Leave(x)

Spec == Init /\ [][Next]_vars
=============================================================================
