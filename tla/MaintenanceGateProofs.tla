----------------------- MODULE MaintenanceGateProofs -----------------------
(***************************************************************************)
(* Proofs about MaintenanceGate, for any threads, workers, controllers,    *)
(* plans and tasks and any number of crashes.                              *)
(*                                                                         *)
(* "Drained means quiet" is not inductive: it rests on who holds which     *)
(* lock (Ownership) and on what a controller between its two files may     *)
(* assume of the phase it read before (Phases); that a lease is for one    *)
(* piece of work (Leased) rests on the phase never returning to "normal".  *)
(* The last part maps every step to a step of DrainGate or to none.        *)
(***************************************************************************)
EXTENDS MaintenanceGate, TLAPS

(* A controller past control.lock owns it, one about to say "drained" holds *)
(* admission.lock too, and nobody shares that lock with it.                 *)
Ownership ==
    /\ excl # None => shared \cup heirs = {}
    /\ \A c \in Controllers :
          /\ cpc[c] \in {"arm", "arming", "drain", "waiting", "drained"} => control = c
          /\ cpc[c] = "drained" => excl = c

(* The phase that a controller read is still there when it acts on it, or   *)
(* the directory is gone.                                                   *)
Phases ==
    /\ phase # "none" => space = "ready"
    /\ phase \in {"none", "normal"} => plan = None
    /\ \A c \in Controllers :
          /\ cpc[c] = "arming" => phase = "normal" \/ space = "lost"
          /\ cpc[c] \in {"waiting", "drained"} => phase = "arming" \/ space = "lost"

(* Late work was admitted before, and no gate opens after late work. *)
Leased ==
    /\ \A u \in Threads : upc[u] = "in" => late[u] = 0 /\ (phase # "none" \/ space = "lost")
    /\ phase \in {"none", "normal"} /\ space # "lost" => \A u \in Threads : late[u] = 0
    /\ OneLateWork

Sound == TypeOK /\ Ownership /\ Phases /\ QuietOnceDrained /\ Leased

-----------------------------------------------------------------------------
(* A step of a controller: initialize, arm, wait_drained or its death. *)
ControllerStep(c) ==
    Initialise(c) \/ Control(c) \/ WaitControl(c) \/ WaitAdmission(c) \/ GiveUp(c) \/ ControllerCrash(c)

(* A step of a thread that takes or gives up the shared lock or works. *)
ThreadStep(u) == Ask(u) \/ Operate(u) \/ Proceed(u) \/ ThreadCrash(u)

(* The empty storage and idle processes are sound. *)
LEMMA InitSound == Init => Sound
<1> SUFFICES ASSUME Init PROVE Sound
  OBVIOUS
<1> USE DEF Init
<1>1. TypeOK
  <2>1. crashes \in 0..MaxCrashes /\ late \in [Threads -> Nat]
    BY CrashAssumption
  <2>2. \A u \in Threads : upc[u] = "out" /\ (u \in Workers => wtask[u] = None)
    OBVIOUS
  <2>3. Workers \subseteq Threads
    BY DEF Threads
  <2> QED BY <2>1, <2>2, <2>3 DEF TypeOK, Locked
<1>2. Ownership /\ Phases /\ QuietOnceDrained /\ Leased
  BY NoneAssumption DEF Ownership, Phases, QuietOnceDrained, Leased, OneLateWork, Inside
<1> QED BY <1>1, <1>2 DEF Sound

(* What the steps of initialize change. *)
LEMMA InitialiseFrame ==
  ASSUME TypeOK, Phases, NEW c \in Controllers, Initialise(c)
  PROVE  /\ ByInit
         /\ cpc' \in [Controllers -> {"idle", "anchor", "fill", "mkdir", "locks", "link", "unlink",
                                      "arm", "arming", "drain", "waiting", "drained"}]
         /\ \A d \in Controllers :
               cpc'[d] \in {"arm", "arming", "drain", "waiting", "drained"} => cpc'[d] = cpc[d]
         /\ phase' = phase \/ (phase = "none" /\ Openable /\ phase' = "normal")
         /\ space' = space \/ (phase = "none" /\ phase' = phase /\ space # "lost" /\ space' \in {"empty", "ready"})
         /\ anchor' \in {"none", "partial", "whole"} /\ linked' \in BOOLEAN
  BY DEF Initialise, Look, ClaimAnchor, Fill, MakeDirectory, MakeLocks, LinkState, Unlink, TypeOK, Phases, ToC, ByInit

(* Neither do arm and wait_drained, nor the death of a controller. *)
LEMMA ControllerSound ==
  ASSUME Sound, NEW c \in Controllers, ControllerStep(c)
  PROVE  Sound'
<1> USE NoneAssumption DEF Sound
<1>1. CASE Initialise(c)
  <2> USE <1>1, InitialiseFrame DEF ByInit, lockVars, workVars
  <2>1. TypeOK'
    BY DEF TypeOK
  <2>2. Ownership' /\ QuietOnceDrained'
    BY DEF Ownership, QuietOnceDrained
  <2>3. Phases'
    BY DEF Phases, Openable
  <2>4. Leased'
    BY DEF Leased, OneLateWork, Openable
  <2> QED BY <2>1, <2>2, <2>3, <2>4
<1>2. CASE Arm(c) \/ ArmReads(c)
  BY <1>2 DEF Arm, ArmReads, Close, ByControl, ToC, workVars, TypeOK, Ownership, Phases, QuietOnceDrained, Leased, OneLateWork, Openable, Readable
<1>3. CASE ArmWrites(c)
  BY <1>3 DEF ArmWrites, Close, ByControl, ToC, workVars, TypeOK, Ownership, Phases, QuietOnceDrained, Leased, OneLateWork, Openable, Readable
<1>4. CASE WaitControl(c) \/ DrainReads(c) \/ GiveUp(c)
  BY <1>4 DEF WaitControl, DrainReads, GiveUp, Close, ByControl, ToC, workVars, TypeOK, Ownership, Phases, QuietOnceDrained, Leased, OneLateWork, Openable, Readable
<1>5. CASE WaitAdmission(c)
  BY <1>5 DEF WaitAdmission, Close, ByControl, ToC, workVars, TypeOK, Ownership, Phases, QuietOnceDrained, Leased, OneLateWork, Openable, Readable
<1>6. CASE DrainWrites(c)
  BY <1>6 DEF DrainWrites, Close, ByControl, ToC, workVars, TypeOK, Ownership, Phases, QuietOnceDrained, Leased, OneLateWork, Openable, Readable, Inside, Locked
<1>7. CASE ControllerCrash(c)
  BY <1>7, CrashAssumption DEF ControllerCrash, Close, ToC, fileVars, workVars, TypeOK, Ownership, Phases, QuietOnceDrained, Leased, OneLateWork, Openable, Readable
<1> QED BY <1>1, <1>2, <1>3, <1>4, <1>5, <1>6, <1>7 DEF ControllerStep, Control

(* Nor anything that a thread does, whatever the controllers are at. *)
LEMMA ThreadSound ==
  ASSUME Sound, NEW u \in Threads, ThreadStep(u)
  PROVE  Sound'
<1> USE NoneAssumption, ThreadsAssumption
        DEF Sound, TypeOK, Ownership, Phases, QuietOnceDrained, Leased, OneLateWork, Locked, Inside, Threads,
            ByThread, ToU, fileVars, ctlVars, workVars
<1>1. CASE Ask(u)
  BY <1>1 DEF Ask, Openable
<1>2. CASE Admitted(u)
  BY <1>2 DEF Admitted, Readable
<1>3. CASE Entered(u) \/ Refused(u)
  BY <1>3 DEF Entered, Refused
<1>4. CASE Operate(u)
  BY <1>4 DEF Operate, Counted
<1>5. CASE Leave(u) \/ HeirEnds(u)
  BY <1>5 DEF Leave, HeirEnds
<1>6. CASE NoTask(u) \/ PopAgain(u)
  BY <1>6 DEF NoTask, PopAgain
<1>7. CASE PopStale(u)
  BY <1>7 DEF PopStale, Counted
<1>8. CASE PopTask(u)
  BY <1>8 DEF PopTask, Counted
<1>9. CASE Executed(u)
  BY <1>9 DEF Executed
<1>10. CASE ThreadCrash(u)
  BY <1>10, CrashAssumption DEF ThreadCrash, lockVars
<1> QED BY <1>1, <1>2, <1>3, <1>4, <1>5, <1>6, <1>7, <1>8, <1>9, <1>10 DEF ThreadStep, Proceed

(* Nor a cancel, nor the loss of the directory. *)
LEMMA NextSound == Sound /\ [Next]_vars => Sound'
<1> SUFFICES ASSUME Sound, [Next]_vars PROVE Sound'
  OBVIOUS
<1>1. ASSUME NEW k \in Tasks, Forget(k) PROVE Sound'
  BY <1>1 DEF Forget, ByThread, fileVars, ctlVars, Sound, TypeOK, Ownership, Phases, QuietOnceDrained, Leased, OneLateWork
<1>2. CASE LoseNamespace
  <2> USE <1>2 DEF LoseNamespace, lockVars, ctlVars, workVars, Sound
  <2>1. TypeOK'
    <3>1. crashes' \in 0..MaxCrashes
      BY CrashAssumption DEF TypeOK
    <3> QED BY <3>1 DEF TypeOK
  <2>2. Ownership' /\ Phases' /\ QuietOnceDrained'
    BY DEF Ownership, Phases, QuietOnceDrained
  <2>3. Leased'
    BY DEF Leased, OneLateWork
  <2> QED BY <2>1, <2>2, <2>3
<1>3. CASE UNCHANGED vars
  BY <1>3 DEF vars, fileVars, lockVars, ctlVars, workVars, Sound, TypeOK, Ownership, Phases, QuietOnceDrained, Leased, OneLateWork
<1> QED BY <1>1, <1>2, <1>3, ControllerSound, ThreadSound DEF Next, ControllerStep, ThreadStep

(* Locks, phases and leases fit together in every reachable state. *)
THEOREM SoundAlways == Spec => []Sound
<1> QED BY InitSound, NextSound, PTL DEF Spec

(* Type correctness, and the shared lock held exactly from a question to    *)
(* the end of the work, for any number of threads.                          *)
THEOREM TypesAlways == Spec => []TypeOK
<1>1. Sound => TypeOK
  BY DEF Sound
<1> QED BY <1>1, SoundAlways, PTL

(* wait_drained says "drained" only of a system that is empty and stays so, *)
(* whatever threads, children and controllers die on the way.               *)
THEOREM QuietAlways == Spec => []QuietOnceDrained
<1>1. Sound => QuietOnceDrained
  BY DEF Sound
<1> QED BY <1>1, SoundAlways, PTL

(* One lease, one piece of work, also for an id that RQ popped in vain.     *)
THEOREM OneLateWorkAlways == Spec => []OneLateWork
<1>1. Sound => OneLateWork
  BY DEF Sound, Leased
<1> QED BY <1>1, SoundAlways, PTL

(* No controller replaces the plan of a gate that is armed. *)
THEOREM PlanFixedAlways == Spec => PlanFixed
<1>1. ASSUME Sound, [Next]_vars, space # "lost", plan # None
      PROVE  plan' = plan \/ space' = "lost"
  <2>1. ASSUME NEW c \in Controllers, ControllerStep(c) PROVE plan' = plan
    <3>1. CASE ArmWrites(c)
      BY <1>1, <3>1 DEF ArmWrites, Sound, Phases
    <3>2. CASE ~ArmWrites(c)
      BY <2>1, <3>2 DEF ControllerStep, Initialise, Look, ClaimAnchor, Fill, MakeDirectory, MakeLocks, LinkState,
         Unlink, ByInit, Control, Arm, ArmReads, DrainReads, DrainWrites, WaitControl, WaitAdmission, GiveUp,
         ControllerCrash, Close, ByControl, fileVars
    <3> QED BY <3>1, <3>2
  <2>2. ASSUME NEW u \in Threads, ThreadStep(u) PROVE plan' = plan
    BY <2>2 DEF ThreadStep, Proceed, Ask, Admitted, Entered, Refused, Operate, Leave, HeirEnds, NoTask, PopStale,
       PopAgain, PopTask, Executed, ThreadCrash, ByThread, fileVars
  <2>3. CASE LoseNamespace \/ (\E k \in Tasks : Forget(k)) \/ UNCHANGED vars
    BY <2>3 DEF LoseNamespace, Forget, ByThread, vars, fileVars
  <2> QED BY <1>1, <2>1, <2>2, <2>3 DEF Next, ControllerStep, ThreadStep
<1>2. Sound /\ [Next]_vars => [(space # "lost" /\ plan # None) => (plan' = plan \/ space' = "lost")]_vars
  BY <1>1
<1> QED BY <1>2, SoundAlways, PTL DEF Spec, PlanFixed

-----------------------------------------------------------------------------
(* The refinement. *)

(* A step that opens or closes nothing and moves nobody is a stutter. *)
LEMMA Unseen ==
  ASSUME UNCHANGED <<Mode, Occupants, Moved>>
  PROVE  [Gate!Next]_(Gate!vars)
  BY DEF Gate!vars

(* The mapped work is one of the works of the abstract gate, at every step. *)
LEMMA MovedType ==
  /\ Moved \in [Tasks -> {"new", "waiting", "taken"}]
  /\ Moved' \in [Tasks -> {"new", "waiting", "taken"}]
  BY DEF Moved

(* Only the first state file, an arm and a drain change the mode. *)
LEMMA ControllerRefines ==
  ASSUME Sound, NEW c \in Controllers, ControllerStep(c)
  PROVE  [Gate!Next]_(Gate!vars)
<1>1. UNCHANGED <<Occupants, Moved>>
  BY DEF ControllerStep, Initialise, Look, ClaimAnchor, Fill, MakeDirectory, MakeLocks, LinkState,
     Unlink, ByInit, Control, Arm, ArmReads, ArmWrites, DrainReads, DrainWrites, WaitControl, WaitAdmission, GiveUp,
     ControllerCrash, Close, ByControl, fileVars, lockVars, workVars, Occupants, Moved
<1>2. CASE Initialise(c)
  <2>1. Mode' = Mode \/ (Mode = "shut" /\ Mode' = "open")
    BY <1>2, InitialiseFrame DEF Sound, Mode, TypeOK, Openable, Phases
  <2> QED BY <1>1, <2>1 DEF Gate!Next, Gate!Open, Gate!vars
<1>3. CASE ArmWrites(c)
  <2>1. Mode' = Mode \/ (Mode = "open" /\ Mode' = "closing")
    BY <1>3 DEF ArmWrites, ByControl, Sound, Phases, Mode, Openable
  <2> QED BY <1>1, <2>1 DEF Gate!Next, Gate!Close, Gate!vars
<1>4. CASE DrainWrites(c)
  <2>1. Occupants = {}
    BY <1>4, NoneAssumption DEF DrainWrites, Sound, TypeOK, Ownership, Occupants, Inside, Locked
  <2>2. Mode' = Mode \/ (Mode = "closing" /\ Mode' = "drained")
    BY <1>4 DEF DrainWrites, ByControl, Sound, Phases, Mode, Openable
  <2> QED BY <1>1, <2>1, <2>2 DEF Gate!Next, Gate!Drain, Gate!vars
<1>5. CASE ControllerStep(c) /\ ~Initialise(c) /\ ~ArmWrites(c) /\ ~DrainWrites(c)
  <2>1. UNCHANGED <<space, phase>>
    BY <1>5 DEF ControllerStep, Control, Arm, ArmReads, DrainReads, WaitControl, WaitAdmission, GiveUp,
       ControllerCrash, Close, ByControl, fileVars
  <2> QED BY <1>1, <2>1, Unseen DEF Mode
<1> QED BY <1>2, <1>3, <1>4, <1>5

(* A thread enters through an open gate, works inside, and leaves. *)
LEMMA ThreadRefines ==
  ASSUME Sound, NEW u \in Threads, ThreadStep(u)
  PROVE  [Gate!Next]_(Gate!vars)
<1>1. UNCHANGED Mode
  <2>1. UNCHANGED <<space, phase>>
    BY DEF ThreadStep, Proceed, Ask, Admitted, Entered, Refused, Operate, Leave, HeirEnds, NoTask, PopStale,
       PopAgain, PopTask, Executed, ThreadCrash, ByThread, fileVars
  <2> QED BY <2>1 DEF Mode
<1>2. upc \in [Threads -> {"out", "loop"} \cup Locked]
  BY DEF Sound, TypeOK
<1> USE DEF Occupants, Inside, Locked
<1>3. CASE Admitted(u)
  <2>1. Occupants' = Occupants \cup {u} /\ Mode = "open" /\ UNCHANGED Moved
    BY <1>2, <1>3 DEF Admitted, Readable, Openable, ToU, ByThread, fileVars, workVars, Mode, Moved
  <2> QED BY <1>1, <2>1 DEF Gate!Next, Gate!Enter
<1>4. CASE Operate(u) \/ PopStale(u) \/ PopTask(u)
  <2>1. Occupants # {} /\ Occupants' = Occupants
    BY <1>2, <1>4 DEF Operate, PopStale, PopTask, ToU
  <2> QED BY <1>1, <2>1, MovedType DEF Gate!Next, Gate!Work
<1>5. CASE Ask(u) \/ Entered(u) \/ Refused(u)
  <2>1. Occupants' = Occupants /\ UNCHANGED Moved
    BY <1>2, <1>5 DEF Ask, Entered, Refused, ToU, workVars, Moved
  <2> QED BY <1>1, <2>1, Unseen
<1>6. CASE Leave(u) \/ HeirEnds(u) \/ NoTask(u) \/ PopAgain(u) \/ ThreadCrash(u)
  <2>1. Occupants' = Occupants \/ Occupants' = Occupants \ {u}
    BY <1>2, <1>6 DEF Leave, HeirEnds, NoTask, PopAgain, ThreadCrash, ToU
  <2>2. UNCHANGED Moved
    BY <1>6 DEF Leave, HeirEnds, NoTask, PopAgain, ThreadCrash, workVars, Moved
  <2> QED BY <1>1, <2>1, <2>2, Unseen DEF Gate!Next, Gate!Leave
<1>7. CASE Executed(u)
  <2>1. u \in Occupants /\ (Occupants' = Occupants \/ Occupants' = Occupants \ {u})
    BY <1>2, <1>7 DEF Executed, ToU
  <2> QED BY <1>1, <2>1, MovedType DEF Gate!Next, Gate!Leave, Gate!Work
<1> QED BY <1>3, <1>4, <1>5, <1>6, <1>7 DEF ThreadStep, Proceed

(* Every step of the files, locks and processes is one of DrainGate or none. *)
LEMMA NextRefines == Sound /\ [Next]_vars => [Gate!Next]_(Gate!vars)
<1> SUFFICES ASSUME Sound, [Next]_vars PROVE [Gate!Next]_(Gate!vars)
  OBVIOUS
<1>1. ASSUME NEW k \in Tasks, Forget(k) PROVE [Gate!Next]_(Gate!vars)
  <2>1. UNCHANGED <<Mode, Occupants, Moved>>
    BY <1>1 DEF Forget, ByThread, fileVars, Sound, TypeOK, Mode, Occupants, Moved
  <2> QED BY <2>1, Unseen
<1>2. CASE LoseNamespace
  <2>1. Mode' = "lost" /\ UNCHANGED <<Occupants, Moved>>
    BY <1>2 DEF LoseNamespace, lockVars, workVars, Mode, Occupants, Moved
  <2> QED BY <2>1 DEF Gate!Next, Gate!Lose
<1>3. CASE UNCHANGED vars
  BY <1>3, Unseen DEF vars, fileVars, lockVars, workVars, Mode, Occupants, Moved
<1> QED BY <1>1, <1>2, <1>3, ControllerRefines, ThreadRefines DEF Next, ControllerStep, ThreadStep

(* The gate of lock files, phases and leases implements DrainGate: it opens *)
(* once, admits nobody once it closes, and is drained when all are out.     *)
THEOREM GateImplementsDrainGate == Spec => ImplementsDrainGate
<1>1. Init => Gate!Init
  BY MovedType DEF Init, Gate!Init, Mode, Occupants, Inside
<1> QED BY <1>1, NextRefines, SoundAlways, PTL DEF Spec, ImplementsDrainGate, Gate!Spec
=============================================================================
