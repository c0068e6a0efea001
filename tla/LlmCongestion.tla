--------------------------- MODULE LlmCongestion ---------------------------
(***************************************************************************)
(* The congestion guard around the Google calls of one model               *)
(* (backend/llm_congestion.py and llm_congestion_store.py).  The processes *)
(* (API, queue workers) share one circuit per model in Redis, moved by one *)
(* Lua script; each keeps a mirror of what it last saw.  The first failed  *)
(* Redis call makes a process forget its client for ever: it quarantines   *)
(* the model once and goes on with its mirror alone.                       *)
(*                                                                         *)
(* A request is admitted with the generation of the circuit, and with an   *)
(* owner; when the circuit is open and its cool-down is over it becomes    *)
(* the probe and holds a lease.  Its outcome arrives later, after other    *)
(* outcomes, after its lease or never, and is applied only when its        *)
(* generation (and, on an open circuit, its owner and lease) still count.  *)
(*                                                                         *)
(* One model is enough: models share no state but the client.  The clock   *)
(* is one for all (the store moves the deadlines of the mirror by the      *)
(* difference of the two clocks).  The 24 hours after which Redis forgets  *)
(* an unused circuit are not modelled.                                     *)
(***************************************************************************)
EXTENDS Integers, FiniteSets

CONSTANTS
    Procs,          \* processes that call the provider
    NoProc,         \* an attempt has no process yet, or needs none any more
    Attempts,       \* requests; an attempt's name is its uuid4 owner
    NoOwner,        \* the empty owner of a circuit
    Keys,           \* hashes of the API keys
    NoKey,          \* the empty key hash
    Delays,         \* waits a provider reply may ask for
    Jitters,        \* the random seconds added to a cool-down
    Cool,           \* 60 seconds
    Cap,            \* 300 seconds, the longest cool-down
    ReleaseWait,    \* 30 seconds
    Window,         \* 60 seconds within which two keys must fail
    Lease,          \* of a probe: the call timeout and 30 seconds
    MaxStage,       \* 4: the longest back-off is reached by then
    MaxTime,        \* bound on the clock
    MaxRestarts,    \* bound on restarts of processes
    Faults          \* {} or {"redis_loss"}

ASSUME CircuitAssumption ==
    /\ NoOwner \notin Attempts /\ NoProc \notin Procs /\ NoKey \notin Keys
    /\ Cool \in Nat \ {0} /\ Cap \in Nat /\ Cool <= Cap
    /\ ReleaseWait \in Nat \ {0} /\ Window \in Nat \ {0} /\ Lease \in Nat \ {0}
    /\ MaxStage \in Nat \ {0} /\ MaxTime \in Nat /\ MaxRestarts \in Nat
    /\ Delays \subseteq Nat /\ Jitters \subseteq Nat

VARIABLES
    now,            \* the clock
    shared,         \* the circuit in Redis
    mirror,         \* mirror[p]: the circuit in the memory of p
    conn,           \* processes that still have their Redis client
    quarantined,    \* processes that have quarantined the model
    at,             \* at[a]: the attempt a
    restarts        \* restarts so far

vars == <<now, shared, mirror, conn, quarantined, at, restarts>>

Larger(m, n)  == IF m > n THEN m ELSE n
Smaller(m, n) == IF m < n THEN m ELSE n

---------------------------------------------------------------------------
(* The circuit.                                                            *)

\* No failure of the key is remembered: older than any window.
NotSeen == 0 - Window

Closed == [gen |-> 0, stage |-> 0, active |-> FALSE, until |-> 0,
           probeUntil |-> 0, owner |-> NoOwner,
           fails |-> [k \in Keys |-> NotSeen], hint |-> 0]

\* A mutant of Wait: the lease of the probe does not count.
WaitCooling(c) == IF c.active THEN Larger(0, c.until - now) ELSE 0

Wait(c) == IF c.active THEN Larger(0, Larger(c.until - now, c.probeUntil - now))
                       ELSE 0

Reopen(c, seconds, increase) ==
    [Closed EXCEPT !.gen    = c.gen + 1,
                   !.stage  = IF increase THEN Smaller(c.stage + 1, MaxStage)
                                          ELSE c.stage,
                   !.active = TRUE,
                   !.until  = now + seconds]

Backoff(c) == Smaller(Cool * 2^c.stage, Cap)

\* A mutant of Owned: an expired lease still counts.
OwnedEver(c, r) == r.gen = c.gen /\ r.owner = c.owner

\* The caller is the probe that holds the lease.
Owned(c, r) == r.gen = c.gen /\ r.owner = c.owner /\ c.probeUntil > now

Admits(c) == ~c.active \/ Wait(c) <= 0

OnAdmit(c, r) ==
    IF c.active /\ Wait(c) <= 0
    THEN [c EXCEPT !.owner = r.owner, !.probeUntil = now + Lease]
    ELSE c

\* An HTTP 503 or 504: opens a closed circuit of the same generation at once;
\* on an open one only the probe is heard.
OnServerFailure(c, r, j) ==
    IF r.gen = c.gen /\ (c.active => Owned(c, r))
    THEN Reopen(c, Larger(Backoff(c) + j, r.delay), TRUE)
    ELSE c

\* A mutant of RecentFails: old failures are never dropped.
EveryFail(c) == c.fails

RecentFails(c) ==
    [k \in Keys |-> IF c.fails[k] > now - Window THEN c.fails[k] ELSE NotSeen]

\* A 429 of key r.key: two keys within the window open a closed circuit.
OnFailure(c, r, j) ==
    LET recent == RecentFails(c)
        seen   == {k \in Keys : recent[k] # NotSeen}
        hint   == Larger(IF seen = {} THEN 0 ELSE c.hint, now + r.delay)
    IN  IF r.gen # c.gen \/ (c.active /\ ~Owned(c, r))
        THEN c
        ELSE IF c.active
        THEN Reopen(c, Larger(Backoff(c) + j, r.delay), TRUE)
        ELSE IF seen \ {r.key} # {}
        THEN Reopen(c, Larger(Cool + j, hint - now), TRUE)
        ELSE [c EXCEPT !.fails = [recent EXCEPT ![r.key] = now], !.hint = hint]

OnSuccess(c, r) == IF Owned(c, r) THEN [Closed EXCEPT !.gen = c.gen + 1] ELSE c

OnRelease(c, r) == IF Owned(c, r) THEN Reopen(c, ReleaseWait, FALSE) ELSE c

\* One transition of the script (and of its twin in Python).
After(c, r, j) ==
    CASE r.op = "peek"           -> c
      [] r.op = "admit"          -> OnAdmit(c, r)
      [] r.op = "server_failure" -> OnServerFailure(c, r, j)
      [] r.op = "failure"        -> OnFailure(c, r, j)
      [] r.op = "success"        -> OnSuccess(c, r)
      [] r.op = "release"        -> OnRelease(c, r)

---------------------------------------------------------------------------
(* CongestionStore.operate in process p.                                   *)

\* A mutant of Quarantine: it forgets the wait it found.
QuarantineFixed(c, r) == Reopen(c, Cool, ~c.active)

\* The model is closed for a while the first time p works without Redis.
Quarantine(c, r) ==
    LET asked == IF r.op \in {"failure", "server_failure"} /\ r.gen = c.gen
                 THEN r.delay ELSE 0
    IN  Reopen(c, Larger(Cool, Larger(Wait(c), asked)), ~c.active)

LocalCircuit(p, r) ==
    IF p \in quarantined THEN mirror[p] ELSE Quarantine(mirror[p], r)

OperateLocally(p, r, j) ==
    /\ mirror' = [mirror EXCEPT ![p] = After(LocalCircuit(p, r), r, j)]
    /\ quarantined' = quarantined \cup {p}

\* Redis answers.
OperateShared(p, r, j) ==
    /\ p \in conn
    /\ shared' = After(shared, r, j)
    /\ mirror' = [mirror EXCEPT ![p] = shared']
    /\ UNCHANGED <<conn, quarantined>>

\* Redis does not answer; the script may have run all the same.
OperateLosing(p, r, j) ==
    /\ "redis_loss" \in Faults
    /\ p \in conn
    /\ conn' = conn \ {p}
    /\ shared' \in {shared, After(shared, r, j)}
    /\ OperateLocally(p, r, j)

OperateAlone(p, r, j) ==
    /\ p \notin conn
    /\ UNCHANGED <<conn, shared>>
    /\ OperateLocally(p, r, j)

Operate(p, r, j) ==
    OperateShared(p, r, j) \/ OperateLosing(p, r, j) \/ OperateAlone(p, r, j)

---------------------------------------------------------------------------
(* Attempts: provider_attempt_scope and _Attempt.                          *)

NewAttempt == [pc |-> "new", proc |-> NoProc, key |-> NoKey, gen |-> 0, probe |-> FALSE,
               by |-> "none", deadline |-> 0, out |-> "none", ended |-> 0,
               delay |-> 0]

\* The circuit that decided, and the attempt it admitted, if it did.
Enter(a, p, k, c, by) ==
    at' = IF Admits(c)
          THEN [at EXCEPT ![a] =
                  [NewAttempt EXCEPT !.pc = "running", !.proc = p, !.key = k,
                                     !.gen = c.gen, !.probe = c.active, !.by = by,
                                     !.deadline = IF c.active THEN now + Lease ELSE 0]]
          ELSE at

\* A scope opens: admission, or ProviderCongestionError.
Admit(a, p, k) ==
    LET r == [op |-> "admit", owner |-> a, gen |-> 0, key |-> k, delay |-> 0]
    IN  /\ at[a].pc = "new"
        /\ \/ OperateShared(p, r, 0) /\ Enter(a, p, k, shared, "redis")
           \/ /\ OperateLosing(p, r, 0) \/ OperateAlone(p, r, 0)
              /\ Enter(a, p, k, LocalCircuit(p, r), "memory")
        /\ UNCHANGED <<now, restarts>>

\* congestion_wait: looks, and claims nothing.
Peek(p) ==
    /\ Operate(p, [op |-> "peek", owner |-> NoOwner, gen |-> 0, key |-> NoKey,
                   delay |-> 0], 0)
    /\ UNCHANGED <<now, at, restarts>>

OpOf(out) == CASE out = "ok"  -> "success"
               [] out = "503" -> "server_failure"
               [] out = "429" -> "failure"
               [] out = "other" -> "release"

\* What is kept of an attempt that ended: its outcome, and of a congestion reply
\* what the properties ask about it.
Outcome(attempt, out, d) ==
    IF out \in {"ok", "other"}
    THEN [NewAttempt EXCEPT !.pc = "done", !.out = out]
    ELSE [NewAttempt EXCEPT !.pc = "done", !.out = out, !.key = attempt.key,
                            !.gen = attempt.gen, !.ended = now, !.delay = d]

\* The outcome of the call, once: an answer, a 503 or 504, a 429, or anything
\* else (a daily-quota 429, an error, a scope left without an outcome).
Finish(a, out, d, j) ==
    LET r == [op |-> OpOf(out), owner |-> a, gen |-> at[a].gen,
              key |-> at[a].key, delay |-> d]
    IN  /\ at[a].pc = "running"
        /\ out \in {"ok", "other"} => d = 0
        /\ Operate(at[a].proc, r, j)
        /\ at' = [at EXCEPT ![a] = Outcome(at[a], out, d)]
        /\ UNCHANGED <<now, restarts>>

\* The process dies and starts again, with Redis or, when none answers, without.
Restart(p) ==
    /\ restarts < MaxRestarts
    /\ restarts' = restarts + 1
    /\ mirror' = [mirror EXCEPT ![p] = Closed]
    /\ quarantined' = quarantined \ {p}
    /\ conn' \in {conn \cup {p}, conn \ {p}}
    /\ at' = [a \in Attempts |->
                IF at[a].pc = "running" /\ at[a].proc = p
                THEN [at[a] EXCEPT !.pc = "lost", !.proc = NoProc] ELSE at[a]]
    /\ UNCHANGED <<now, shared>>

Tick == /\ now < MaxTime
        /\ now' = now + 1
        /\ UNCHANGED <<shared, mirror, conn, quarantined, at, restarts>>

---------------------------------------------------------------------------
\* Redis outlives the processes: they may find the circuit open, once opened by
\* calls of earlier processes.
Found == {Closed, [Closed EXCEPT !.gen = 1, !.stage = 1, !.active = TRUE,
                                 !.until = Cool]}

Init == /\ now = 0
        /\ shared \in Found
        /\ mirror = [p \in Procs |-> Closed]
        /\ conn = Procs
        /\ quarantined = {}
        /\ at = [a \in Attempts |-> NewAttempt]
        /\ restarts = 0

Next == \/ \E a \in Attempts, p \in Procs, k \in Keys : Admit(a, p, k)
        \/ \E a \in Attempts, out \in {"ok", "503", "429", "other"},
              d \in Delays \cup {0}, j \in Jitters : Finish(a, out, d, j)
        \/ \E p \in Procs : Peek(p) \/ Restart(p)
        \/ Tick

Spec == Init /\ [][Next]_vars

---------------------------------------------------------------------------
(* Properties.                                                             *)

Circuits == [gen : Nat, stage : 0..MaxStage, active : BOOLEAN, until : Nat,
             probeUntil : Nat, owner : Attempts \cup {NoOwner},
             fails : [Keys -> {NotSeen} \cup 0..MaxTime], hint : Nat]

\* Every variable stays in its type: a circuit (its mirrors too) has only an
\* attempt or nobody as its owner, and an attempt is in one of its phases.
TypeOK ==
    /\ now \in 0..MaxTime
    /\ shared \in Circuits
    /\ mirror \in [Procs -> Circuits]
    /\ conn \subseteq Procs
    /\ quarantined \subseteq Procs
    /\ restarts \in 0..MaxRestarts
    /\ at \in [Attempts ->
                 [pc : {"new", "running", "done", "lost"}, proc : Procs \cup {NoProc}, key : Keys \cup {NoKey},
                  gen : Nat, probe : BOOLEAN, by : {"none", "redis", "memory"},
                  deadline : Nat, out : {"none", "ok", "503", "429", "other"},
                  ended : 0..MaxTime, delay : Nat]]

LiveProbe(a) == at[a].pc = "running" /\ at[a].probe /\ now < at[a].deadline

\* Of the requests that Redis admitted, in whatever process, and of those of one
\* process, with Redis or after it was lost, at most one is a recovery probe
\* whose lease still runs.
OneLiveProbe ==
    \A a, b \in Attempts :
        /\ LiveProbe(a) /\ LiveProbe(b)
        /\ (at[a].by = "redis" /\ at[b].by = "redis") \/ at[a].proc = at[b].proc
        => a = b

\* The attempt whose outcome this step stores.
EndsNow(a, out) == at[a].pc = "running" /\ at'[a].out = out

\* The shared circuit closes only by the answer of the probe that Redis admitted
\* last since the circuit opened, and within its lease: neither a request of
\* before the opening, nor a probe that came too late or was replaced, nor one
\* that was admitted without Redis can close it.
RecoveredByProbe ==
    [][shared.active /\ ~shared'.active =>
         \E a \in Attempts :
            /\ EndsNow(a, "ok") /\ LiveProbe(a) /\ at[a].by = "redis"
            /\ at[a].gen = shared.gen
            /\ \A b \in Attempts \ {a} :
                 at[b].by = "redis" /\ at[b].probe /\ at[b].gen = shared.gen
                    /\ at[b].pc \in {"running", "lost"}
                 => at[b].deadline <= now]_vars

\* The shared circuit opens only on fresh evidence of its own generation, a 503
\* or 429s of two keys within the window, and then for at least as long as each
\* of the replies that opened it asked for.
OpenedOnEvidence ==
    [][~shared.active /\ shared'.active =>
         \E a, b \in Attempts :
            /\ EndsNow(a, "429") \/ (EndsNow(a, "503") /\ a = b)
            /\ at'[a].out = "429" =>
                  at'[b].out = "429" /\ at[b].key # at[a].key
                     /\ at'[b].ended > now - Window
            /\ \A x \in {a, b} :
                 at[x].gen = shared.gen /\ shared'.until >= at'[x].ended + at'[x].delay]_vars

\* While a circuit stays open its cool-down never becomes shorter, whatever
\* probes, late outcomes, loss of Redis or quarantine do to it; only the restart
\* of the process forgets the cool-down of a mirror.
CooldownNeverShortened ==
    [][/\ shared.active /\ shared'.active => shared'.until >= shared.until
       /\ \A p \in Procs :
            mirror[p].active /\ mirror'[p].active => mirror'[p].until >= mirror[p].until]_vars
=============================================================================
