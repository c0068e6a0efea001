--------------------------- MODULE MaintenanceGate ---------------------------
(***************************************************************************)
(* The cooperative maintenance gate (maintenance_guard.py,                 *)
(* maintenance_state.py) and the queue worker under it                     *)
(* (maintenance_rq_worker.py).  The gate is a bootstrap anchor, a private  *)
(* directory with two lock files, and a state file.  An operation holds    *)
(* admission.lock shared and then reads the phase; a controller holds      *)
(* control.lock, publishes "arming" and then waits for admission.lock      *)
(* exclusively before it says "cooperatively_drained".  Any process may    *)
(* die between two system calls: its locks go and its files stay.          *)
(***************************************************************************)
EXTENDS Naturals, FiniteSets

CONSTANTS Users,       \* threads that create, claim or enqueue work
          Workers,     \* RQ workers
          Controllers, \* processes that initialise, arm and drain
          Plans, None,
          Tasks,       \* identities of queued work
          MaxCrashes   \* bound on deaths of processes

Threads == Users \cup Workers

ASSUME ThreadsAssumption == Users \cap Workers = {}
ASSUME CrashAssumption   == MaxCrashes \in Nat
ASSUME NoneAssumption    == None \notin Controllers \cup Plans \cup Tasks

VARIABLES anchor, space, linked, \* bootstrap file, directory, second link of the state file
          phase, plan,    \* the state file
          shared, heirs,  \* admission.lock shared: threads, and children they passed it to
          excl, control,  \* admission.lock and control.lock exclusively
          upc, wtask,     \* a thread, and the task a worker took
          cpc, cplan,     \* a controller, and the plan it arms
          task,      \* the task queue
          late,      \* per thread, pieces of work begun since the gate was armed
          crashes

fileVars == <<anchor, space, linked, phase, plan>>
lockVars == <<shared, heirs, excl, control>>
ctlVars  == <<cpc, cplan>>
workVars == <<task, late>>
vars == <<fileVars, lockVars, upc, wtask, ctlVars, workVars, crashes>>

Init ==
    /\ anchor = "none" /\ space = "none" /\ linked = FALSE /\ phase = "none" /\ plan = None
    /\ shared = {} /\ heirs = {} /\ excl = None /\ control = None
    /\ upc = [u \in Threads |-> "out"] /\ wtask = [w \in Workers |-> None]
    /\ cpc = [c \in Controllers |-> "idle"] /\ cplan = [c \in Controllers |-> None]
    /\ task = [k \in Tasks |-> "new"] /\ late = [u \in Threads |-> 0]
    /\ crashes = 0

(* _Namespace can be opened: private anchor, directory and lock files. *)
Openable == anchor = "whole" /\ space = "ready"

(* _Namespace.read: a state file with a second name is not private. *)
Readable == Openable /\ phase # "none" /\ ~linked

-----------------------------------------------------------------------------
(* initialize, one system call after the other. *)

ByInit == UNCHANGED <<plan, lockVars, upc, wtask, cplan, workVars, crashes>>

ToC(c, pc) == cpc' = [cpc EXCEPT ![c] = pc]

(* An existing namespace is only read. *)
Look(c) ==
    /\ cpc[c] = "idle"
    /\ space \in {"none", "lost"} /\ ToC(c, "anchor")
    /\ ByInit /\ UNCHANGED <<anchor, space, linked, phase>>

(* Mutant: the anchor is replaced, not created. *)
ClaimAgain(c) ==
    /\ cpc[c] = "anchor"
    /\ anchor' = "partial" /\ ToC(c, "fill")
    /\ space' = IF space = "lost" THEN "none" ELSE space
    /\ ByInit /\ UNCHANGED <<linked, phase>>

(* O_CREAT | O_EXCL: whoever finds an anchor reads, and never initialises. *)
ClaimAnchor(c) ==
    /\ cpc[c] = "anchor"
    /\ IF anchor = "none" THEN anchor' = "partial" /\ ToC(c, "fill")
       ELSE ToC(c, "idle") /\ UNCHANGED anchor
    /\ ByInit /\ UNCHANGED <<space, linked, phase>>

Fill(c) ==
    /\ cpc[c] = "fill" /\ anchor' = "whole" /\ ToC(c, "mkdir")
    /\ ByInit /\ UNCHANGED <<space, linked, phase>>

MakeDirectory(c) ==
    /\ cpc[c] = "mkdir"
    /\ IF space = "none" THEN space' = "empty" /\ ToC(c, "locks") ELSE UNCHANGED space /\ ToC(c, "idle")
    /\ ByInit /\ UNCHANGED <<anchor, linked, phase>>

MakeLocks(c) ==
    /\ cpc[c] = "locks"
    /\ IF space = "empty" THEN space' = "ready" /\ ToC(c, "link") ELSE UNCHANGED space /\ ToC(c, "idle")
    /\ ByInit /\ UNCHANGED <<anchor, linked, phase>>

(* _write of the first state: link a finished temporary file ... *)
LinkState(c) ==
    /\ cpc[c] = "link"
    /\ IF Openable /\ phase = "none" THEN phase' = "normal" /\ linked' = TRUE /\ ToC(c, "unlink")
       ELSE ToC(c, "idle") /\ UNCHANGED <<phase, linked>>
    /\ ByInit /\ UNCHANGED <<anchor, space>>

(* ... and remove the temporary name. *)
Unlink(c) ==
    /\ cpc[c] = "unlink"
    /\ linked' = FALSE /\ ToC(c, "idle")
    /\ ByInit /\ UNCHANGED <<anchor, space, phase>>

(* The storage loses the whole directory; the anchor is beside it. *)
LoseNamespace ==
    /\ space \notin {"none", "lost"} /\ crashes < MaxCrashes /\ crashes' = crashes + 1
    /\ space' = "lost" /\ phase' = "none" /\ linked' = FALSE /\ plan' = None
    /\ UNCHANGED <<anchor, lockVars, upc, wtask, ctlVars, workVars>>

-----------------------------------------------------------------------------
(* admission. *)

Locked == {"entry", "asking", "in", "done", "stale", "running"}
Inside == {"in", "done", "stale", "running"}

ToU(u, pc) == upc' = [upc EXCEPT ![u] = pc]

ByThread == UNCHANGED <<fileVars, excl, control, ctlVars, crashes>>

(* flock(LOCK_SH), which waits for an exclusive holder; nobody can ask a    *)
(* gate that cannot be opened.                                              *)
Ask(u) ==
    /\ Openable /\ excl = None
    /\ \/ upc[u] = "out" /\ ToU(u, IF u \in Workers THEN "entry" ELSE "asking")
       \/ upc[u] = "loop" /\ ToU(u, "asking")
    /\ shared' = shared \cup {u}
    /\ ByThread /\ UNCHANGED <<heirs, wtask, workVars>>

Admitted(u) ==
    /\ upc[u] = "asking" /\ Readable /\ phase = "normal"
    /\ ToU(u, "in")
    /\ ByThread /\ UNCHANGED <<shared, heirs, wtask, workVars>>

(* MaintenanceWorker.work asks once before RQ starts, and lets go again. *)
Entered(w) ==
    /\ upc[w] = "entry" /\ Readable /\ phase = "normal"
    /\ ToU(w, "loop") /\ shared' = shared \ {w}
    /\ ByThread /\ UNCHANGED <<heirs, wtask, workVars>>

(* Blocked, unavailable, or a read that met a write: no admission, and a    *)
(* worker stops.                                                            *)
Refused(u) ==
    /\ upc[u] \in {"entry", "asking"}
    /\ ToU(u, "out") /\ shared' = shared \ {u}
    /\ ByThread /\ UNCHANGED <<heirs, wtask, workVars>>

Counted(u) == late' = [late EXCEPT ![u] = IF phase = "normal" THEN @ ELSE @ + 1]

(* The create, claim or enqueue that the lease is for; a task id may be    *)
(* queued again once a cancel has deleted its job.                          *)
Operate(u) ==
    /\ u \in Users /\ upc[u] = "in"
    /\ \E k \in Tasks : task[k] \in {"new", "gone"} /\ task' = [task EXCEPT ![k] = "queued"]
    /\ ToU(u, "done") /\ Counted(u)
    /\ ByThread /\ UNCHANGED <<shared, heirs, wtask>>

(* The handle is closed; a child that was given a duplicate keeps the lock. *)
Leave(u) ==
    /\ u \in Users /\ upc[u] \in {"in", "done"}
    /\ ToU(u, "out") /\ shared' = shared \ {u}
    /\ heirs' = heirs \/ heirs' = heirs \cup {u}
    /\ ByThread /\ UNCHANGED <<wtask, workVars>>

HeirEnds(u) ==
    /\ u \in heirs /\ heirs' = heirs \ {u}
    /\ ByThread /\ UNCHANGED <<shared, upc, wtask, workVars>>

-----------------------------------------------------------------------------
(* The RQ worker: one lease per pop, kept until the job is cleaned up. *)

NoTask(w) ==
    /\ w \in Workers /\ upc[w] = "in"
    /\ \A k \in Tasks : task[k] \notin {"queued", "stale"}
    /\ ToU(w, "loop") /\ shared' = shared \ {w}
    /\ ByThread /\ UNCHANGED <<heirs, wtask, workVars>>

(* An id whose job is gone: dequeue_any goes on to pop another one. *)
PopStale(w) ==
    /\ w \in Workers /\ upc[w] = "in"
    /\ \E k \in Tasks : task[k] = "stale" /\ task' = [task EXCEPT ![k] = "gone"]
    /\ ToU(w, "stale") /\ Counted(w)
    /\ ByThread /\ UNCHANGED <<shared, heirs, wtask>>

(* Mutant: the lease of the stale id serves for the next pop. *)
PopAgainLeased(w) ==
    /\ w \in Workers /\ upc[w] = "stale"
    /\ ToU(w, "in")
    /\ ByThread /\ UNCHANGED <<shared, heirs, wtask, workVars>>

(* _maintenance_pop gives up the lease of the stale id before it asks again. *)
PopAgain(w) ==
    /\ w \in Workers /\ upc[w] = "stale"
    /\ ToU(w, "loop") /\ shared' = shared \ {w}
    /\ ByThread /\ UNCHANGED <<heirs, wtask, workVars>>

PopTask(w) ==
    /\ w \in Workers /\ upc[w] = "in"
    /\ \E k \in Tasks :
          /\ task[k] = "queued" /\ task' = [task EXCEPT ![k] = "running"]
          /\ wtask' = [wtask EXCEPT ![w] = k]
    /\ ToU(w, "running") /\ Counted(w)
    /\ ByThread /\ UNCHANGED <<shared, heirs>>

(* execute_job returns or raises. *)
Executed(w) ==
    /\ w \in Workers /\ upc[w] = "running"
    /\ task' = [task EXCEPT ![wtask[w]] = "done"] /\ wtask' = [wtask EXCEPT ![w] = None]
    /\ ToU(w, "loop") /\ shared' = shared \ {w}
    /\ ByThread /\ UNCHANGED <<heirs, late>>

(* A cancel deletes the job of a waiting id; the gate does not bar cancels. *)
Forget(k) ==
    /\ task[k] = "queued" /\ task' = [task EXCEPT ![k] = "stale"]
    /\ ByThread /\ UNCHANGED <<shared, heirs, upc, wtask, late>>

(* The process dies, its children live on; RQ has to find its task. *)
ThreadCrash(u) ==
    /\ upc[u] # "out" /\ crashes < MaxCrashes /\ crashes' = crashes + 1
    /\ ToU(u, "out") /\ shared' = shared \ {u}
    /\ wtask' = [w \in Workers |-> IF w = u THEN None ELSE wtask[w]]
    /\ UNCHANGED <<fileVars, heirs, excl, control, ctlVars, workVars>>

-----------------------------------------------------------------------------
(* arm and wait_drained. *)

ByControl == UNCHANGED <<anchor, space, linked, shared, heirs, upc, wtask, workVars, crashes>>

(* Mutant: control.lock stays with a process that gave up. *)
CloseExcl(c) ==
    /\ ToC(c, "idle") /\ cplan' = [cplan EXCEPT ![c] = None]
    /\ control' = control
    /\ excl' = IF excl = c THEN None ELSE excl

(* The namespace is closed, and the locks with it. *)
Close(c) ==
    /\ ToC(c, "idle") /\ cplan' = [cplan EXCEPT ![c] = None]
    /\ control' = IF control = c THEN None ELSE control
    /\ excl' = IF excl = c THEN None ELSE excl

(* arm takes control.lock or is busy. *)
Arm(c) ==
    /\ cpc[c] = "idle" /\ Openable /\ control = None
    /\ control' = c /\ ToC(c, "arm")
    /\ \E p \in Plans : cplan' = [cplan EXCEPT ![c] = p]
    /\ ByControl /\ UNCHANGED <<phase, plan, excl>>

(* Mutant: a gate that is armed already is armed again. *)
ArmReadsAgain(c) ==
    /\ cpc[c] = "arm"
    /\ IF Readable THEN ToC(c, "arming") /\ UNCHANGED <<cplan, control, excl>> ELSE Close(c)
    /\ ByControl /\ UNCHANGED <<phase, plan>>

(* A gate that was armed keeps its phase and its plan. *)
ArmReads(c) ==
    /\ cpc[c] = "arm"
    /\ IF Readable /\ phase = "normal"
       THEN ToC(c, "arming") /\ UNCHANGED <<cplan, control, excl>>
       ELSE Close(c)
    /\ ByControl /\ UNCHANGED <<phase, plan>>

(* The intent is published without waiting for anybody. *)
ArmWrites(c) ==
    /\ cpc[c] = "arming"
    /\ IF Openable THEN phase' = "arming" /\ plan' = cplan[c] ELSE UNCHANGED <<phase, plan>>
    /\ Close(c) /\ ByControl

(* wait_drained polls control.lock ... *)
WaitControl(c) ==
    /\ cpc[c] = "idle" /\ Openable /\ control = None
    /\ control' = c /\ ToC(c, "drain")
    /\ ByControl /\ UNCHANGED <<phase, plan, excl, cplan>>

DrainReads(c) ==
    /\ cpc[c] = "drain"
    /\ IF Readable /\ phase = "arming"
       THEN ToC(c, "waiting") /\ UNCHANGED <<cplan, control, excl>>
       ELSE Close(c)
    /\ ByControl /\ UNCHANGED <<phase, plan>>

(* Mutant: the controller waits for the threads and not for their children. *)
WaitThreads(c) ==
    /\ cpc[c] = "waiting" /\ Openable /\ shared = {}
    /\ excl' = c /\ ToC(c, "drained")
    /\ ByControl /\ UNCHANGED <<phase, plan, control, cplan>>

(* ... then admission.lock, both without blocking and until its deadline. *)
WaitAdmission(c) ==
    /\ cpc[c] = "waiting" /\ Openable /\ excl = None /\ shared \cup heirs = {}
    /\ excl' = c /\ ToC(c, "drained")
    /\ ByControl /\ UNCHANGED <<phase, plan, control, cplan>>

(* The deadline, or a namespace that is gone. *)
GiveUp(c) ==
    /\ cpc[c] = "waiting" /\ Close(c)
    /\ ByControl /\ UNCHANGED <<phase, plan>>

DrainWrites(c) ==
    /\ cpc[c] = "drained"
    /\ phase' = IF Openable THEN "drained" ELSE phase
    /\ Close(c) /\ ByControl /\ UNCHANGED plan

ControllerCrash(c) ==
    /\ cpc[c] # "idle" /\ crashes < MaxCrashes /\ crashes' = crashes + 1
    /\ Close(c)
    /\ UNCHANGED <<fileVars, shared, heirs, upc, wtask, workVars>>

-----------------------------------------------------------------------------
Initialise(c) ==
    Look(c) \/ ClaimAnchor(c) \/ Fill(c) \/ MakeDirectory(c) \/ MakeLocks(c) \/ LinkState(c) \/ Unlink(c)

Control(c) == Arm(c) \/ ArmReads(c) \/ ArmWrites(c) \/ DrainReads(c) \/ DrainWrites(c)

(* What a thread does without being asked to begin anything. *)
Proceed(u) ==
    \/ Admitted(u) \/ Entered(u) \/ Refused(u) \/ Leave(u) \/ HeirEnds(u)
    \/ NoTask(u) \/ PopStale(u) \/ PopAgain(u) \/ PopTask(u) \/ Executed(u)

Next ==
    \/ \E c \in Controllers :
          Initialise(c) \/ Control(c) \/ WaitControl(c) \/ WaitAdmission(c) \/ GiveUp(c) \/ ControllerCrash(c)
    \/ \E u \in Threads : Ask(u) \/ Operate(u) \/ Proceed(u) \/ ThreadCrash(u)
    \/ \E k \in Tasks : Forget(k)
    \/ LoseNamespace

Spec == Init /\ [][Next]_vars

(* Operations, jobs and children end, calls that began go on, and the       *)
(* operator repeats wait_drained until a poll of both locks succeeds.       *)
FairSpec ==
    /\ Spec
    /\ \A u \in Threads : WF_vars(Proceed(u)) /\ WF_vars(HeirEnds(u))
    /\ \A c \in Controllers :
          WF_vars(Control(c) /\ cpc[c] # "idle") /\ SF_vars(WaitControl(c)) /\ SF_vars(WaitAdmission(c))

-----------------------------------------------------------------------------
(* Each variable has its type, a worker has a task only while it runs, and  *)
(* a thread has the lock exactly from its question to the end of its work.  *)
TypeOK ==
    /\ anchor \in {"none", "partial", "whole"} /\ space \in {"none", "empty", "ready", "lost"}
    /\ linked \in BOOLEAN /\ phase \in {"none", "normal", "arming", "drained"}
    /\ plan \in Plans \cup {None}
    /\ shared \subseteq Threads /\ heirs \subseteq Threads
    /\ excl \in Controllers \cup {None} /\ control \in Controllers \cup {None}
    /\ upc \in [Threads -> {"out", "loop"} \cup Locked]
    /\ wtask \in [Workers -> Tasks \cup {None}]
    /\ cpc \in [Controllers -> {"idle", "anchor", "fill", "mkdir", "locks", "link", "unlink",
                                "arm", "arming", "drain", "waiting", "drained"}]
    /\ cplan \in [Controllers -> Plans \cup {None}]
    /\ task \in [Tasks -> {"new", "queued", "stale", "gone", "running", "done"}]
    /\ late \in [Threads -> Nat] /\ crashes \in 0..MaxCrashes
    /\ \A w \in Workers : wtask[w] # None <=> upc[w] = "running"
    /\ \A u \in Threads : u \in shared <=> upc[u] \in Locked

(* Once the gate says "drained" nobody is inside an operation or a job, and *)
(* no child holds a lease that it inherited, whoever died on the way.       *)
QuietOnceDrained ==
    phase = "drained" => heirs = {} /\ \A u \in Threads : upc[u] \notin Inside

(* A lease is authority for one piece of work: after arming, a thread       *)
(* finishes what it was admitted for and takes nothing else, also when the  *)
(* id it popped turned out to be stale.                                     *)
OneLateWork == \A u \in Threads : late[u] <= 1

(* The plan that was armed first is the plan of the gate: a second          *)
(* controller neither replaces it nor takes the gate back a phase.          *)
PlanFixed ==
    [][(space # "lost" /\ plan # None) => (plan' = plan \/ space' = "lost")]_vars

(* Arming empties the system, though requests and workers go on asking; and *)
(* an armed gate is drained in the end, once nobody asks any more: a thread *)
(* that is refused holds the lock while it reads the phase, so that a       *)
(* stream of them can starve the poll of wait_drained.                      *)
DrainCompletes ==
    /\ phase = "arming" ~> heirs = {} /\ \A u \in Threads : upc[u] \notin Inside
    /\ <>[](shared = {}) => (phase = "arming" ~> phase = "drained" \/ space = "lost")

Mode ==
    IF space = "lost" THEN "lost"
    ELSE CASE phase = "none" -> "shut" [] phase = "normal" -> "open"
           [] phase = "arming" -> "closing" [] phase = "drained" -> "drained"

Occupants == {u \in Threads : upc[u] \in Inside \/ u \in heirs}

Moved == [k \in Tasks |-> IF task[k] = "new" THEN "new"
                          ELSE IF task[k] \in {"queued", "stale"} THEN "waiting" ELSE "taken"]

Gate == INSTANCE DrainGate WITH
    Members <- Threads,
    Works   <- [Tasks -> {"new", "waiting", "taken"}],
    mode <- Mode, inside <- Occupants, work <- Moved

(* The gate keeps the promise of DrainGate, through crashes in initialize   *)
(* and a lost directory too: it opens once, and work moves only inside.     *)
ImplementsDrainGate == Gate!Spec
=============================================================================
