------------------------- MODULE LlmCongestionProofs -------------------------
(***************************************************************************)
(* Proofs about LlmCongestion, for any processes, attempts, keys, waits,   *)
(* jitters and clock bound.                                                *)
(*                                                                         *)
(* A circuit changes in a few ways only (Transition): a probe is admitted,  *)
(* the probe reopens or closes the circuit, fresh evidence opens a closed  *)
(* one, a 429 is remembered.  The invariants follow from which of them the *)
(* attempts of the system can cause in which circuit.                      *)
(***************************************************************************)
EXTENDS LlmCongestion, TLAPS

Ops == {"peek", "admit", "server_failure", "failure", "success", "release"}

Requests == [op : Ops, owner : Attempts \cup {NoOwner}, gen : Nat, key : Keys \cup {NoKey}, delay : Nat]

(* A probe is admitted when the cool-down is over, and its lease goes when  *)
(* the circuit closes or opens again.                                       *)
Probed(c) == /\ c.probeUntil # 0 => c.active /\ c.until <= now
             /\ c.owner # NoOwner => c.probeUntil # 0

Sane(c) == c \in Circuits /\ Probed(c)

(* A circuit that was opened now, for at least the given time. *)
Opened(c, d, seconds) ==
    /\ d.active /\ d.gen = c.gen + 1 /\ d.owner = NoOwner /\ d.probeUntil = 0
    /\ d.until >= now /\ d.until >= now + seconds
    /\ d.fails = [k \in Keys |-> NotSeen]

Transition(c, r, d) ==
    \/ d = c /\ (r.op = "admit" => ~c.active \/ Wait(c) > 0)
    \/ /\ r.op = "admit" /\ c.active /\ Wait(c) <= 0
       /\ d = [c EXCEPT !.owner = r.owner, !.probeUntil = now + Lease]
    \/ r.op \in {"server_failure", "failure", "release"} /\ c.active /\ Owned(c, r) /\ Opened(c, d, 0)
    \/ r.op = "success" /\ Owned(c, r) /\ d = [Closed EXCEPT !.gen = c.gen + 1]
    \/ /\ ~c.active /\ r.gen = c.gen /\ Opened(c, d, r.delay)
       /\ \/ r.op = "server_failure"
          \/ /\ r.op = "failure"
             /\ \E k \in Keys \ {r.key} :
                   c.fails[k] # NotSeen /\ c.fails[k] > now - Window /\ d.until >= c.hint
    \/ /\ ~c.active /\ r.op = "failure" /\ r.gen = c.gen
       /\ \E h \in Nat, recent \in [Keys -> {NotSeen} \cup 0..MaxTime] :
             /\ d = [c EXCEPT !.fails = [recent EXCEPT ![r.key] = now], !.hint = h]
             /\ h >= now + r.delay
             /\ \A k \in Keys : recent[k] # NotSeen => recent[k] = c.fails[k] /\ h >= c.hint

LEMMA Time == now \in 0..MaxTime => now \in Nat /\ NotSeen \in Int /\ NotSeen < 0 /\ now - Window \in Int
  BY CircuitAssumption DEF NotSeen

LEMMA LargerFacts ==
  ASSUME NEW x \in Int, NEW y \in Int
  PROVE  Larger(x, y) \in Int /\ Larger(x, y) >= x /\ Larger(x, y) >= y
  BY DEF Larger

LEMMA BackoffType ==
  ASSUME NEW c \in Circuits
  PROVE  Backoff(c) \in Int
<1>1. c.stage \in Nat
  BY CircuitAssumption DEF Circuits
<1>2. Cool * 2^c.stage \in Int
  BY <1>1, CircuitAssumption
<1> QED BY <1>2, CircuitAssumption DEF Backoff, Smaller

(* Reopening a circuit. *)
LEMMA ReopenOpens ==
  ASSUME now \in 0..MaxTime, NEW c \in Circuits, NEW seconds \in Nat,
         NEW d, d = Reopen(c, seconds, TRUE) \/ d = Reopen(c, seconds, FALSE)
  PROVE  Sane(d) /\ Opened(c, d, seconds) /\ d.until = now + seconds
<1>1. c.gen \in Nat /\ c.stage \in 0..MaxStage /\ now + seconds \in Nat /\ NotSeen \in Int
  BY Time DEF Circuits
<1>2. /\ d.gen = c.gen + 1 /\ d.active /\ d.until = now + seconds
      /\ d.probeUntil = 0 /\ d.owner = NoOwner /\ d.fails = [k \in Keys |-> NotSeen]
  BY DEF Reopen, Closed
<1>3. d \in Circuits
  <2>1. PICK stage \in 0..MaxStage :
           d = [Closed EXCEPT !.gen = c.gen + 1, !.stage = stage, !.active = TRUE, !.until = now + seconds]
    <3>1. Smaller(c.stage + 1, MaxStage) \in 0..MaxStage
      BY <1>1, CircuitAssumption DEF Smaller
    <3> QED BY <1>1, <3>1 DEF Reopen
  <2>2. [k \in Keys |-> NotSeen] \in [Keys -> {NotSeen} \cup 0..MaxTime]
    OBVIOUS
  <2>3. Closed \in Circuits
    BY <2>2, CircuitAssumption DEF Closed, Circuits
  <2>4. c.gen + 1 \in Nat
    BY <1>1
  <2> QED BY <1>1, <2>1, <2>3, <2>4 DEF Circuits
<1> QED BY <1>1, <1>2, <1>3 DEF Sane, Probed, Opened

LEMMA OpenedLess ==
  ASSUME now \in 0..MaxTime, NEW c, NEW d, Sane(d), NEW seconds \in Nat, NEW less \in Nat,
         less <= seconds, Opened(c, d, seconds)
  PROVE  Opened(c, d, less)
  BY Time DEF Sane, Opened, Circuits

LEMMA WaitFacts ==
  ASSUME now \in 0..MaxTime, NEW c \in Circuits
  PROVE  /\ Wait(c) \in Nat
         /\ c.active => now + Wait(c) >= c.until /\ now + Wait(c) >= c.probeUntil
         /\ (c.active /\ Wait(c) <= 0) <=> (c.active /\ c.until <= now /\ c.probeUntil <= now)
  BY Time DEF Wait, Larger, Circuits

(* The wait after a failure: the back-off, or longer if the reply says so. *)
LEMMA BackoffWait ==
  ASSUME NEW c \in Circuits, NEW j \in Nat, NEW delay \in Nat
  PROVE  Larger(Backoff(c) + j, delay) \in Nat /\ Larger(Backoff(c) + j, delay) >= delay
<1> DEFINE b == Backoff(c) + j
<1>1. b \in Int
  BY BackoffType
<1> HIDE DEF b
<1>2. Larger(b, delay) \in Int /\ Larger(b, delay) >= delay
  BY <1>1, LargerFacts
<1>3. Larger(b, delay) \in Nat
  BY <1>2
<1> QED BY <1>2, <1>3 DEF b

(* Every operation of the script, and of its twin, is a transition. *)
LEMMA AfterMoves ==
  ASSUME now \in 0..MaxTime, NEW c, Sane(c), NEW r \in Requests, NEW j \in Nat
  PROVE  Sane(After(c, r, j)) /\ Transition(c, r, After(c, r, j))
<1> SUFFICES ASSUME NEW d, d = After(c, r, j) PROVE Sane(d) /\ Transition(c, r, d)
  OBVIOUS
<1> USE Time
<1>1. /\ c \in Circuits /\ Probed(c) /\ c.until \in Nat /\ c.probeUntil \in Nat /\ c.gen \in Nat /\ c.hint \in Nat
      /\ c.fails \in [Keys -> {NotSeen} \cup 0..MaxTime] /\ c.active \in BOOLEAN
      /\ r.delay \in Nat /\ r.owner \in Attempts \cup {NoOwner} /\ r.op \in Ops /\ r.gen \in Nat
  BY DEF Sane, Circuits, Requests
<1>2. d = c /\ (r.op = "admit" => ~c.active \/ Wait(c) > 0) => Sane(d) /\ Transition(c, r, d)
  BY DEF Transition
<1>3. Owned(c, r) => c.active
  BY <1>1 DEF Owned, Probed
<1>4. CASE r.op = "peek"
  BY <1>2, <1>4 DEF After
<1>5. CASE r.op = "admit"
  <2>1. d = OnAdmit(c, r)
    BY <1>5 DEF After
  <2>2. CASE c.active /\ Wait(c) <= 0
    <3>1. d = [c EXCEPT !.owner = r.owner, !.probeUntil = now + Lease]
      BY <2>1, <2>2 DEF OnAdmit
    <3>2. c.until <= now /\ now + Lease \in Nat
      BY <1>1, <2>2, WaitFacts, CircuitAssumption
    <3>3. d \in Circuits
      BY <1>1, <3>1, <3>2 DEF Circuits
    <3>4. d.probeUntil # 0 /\ d.active /\ d.until <= now
      BY <1>1, <2>2, <3>1, <3>2, CircuitAssumption DEF Circuits
    <3> QED BY <1>5, <2>2, <3>1, <3>3, <3>4 DEF Transition, Sane, Probed
  <2>3. CASE ~(c.active /\ Wait(c) <= 0)
    <3>1. d = c /\ (~c.active \/ Wait(c) > 0)
      BY <1>1, <2>1, <2>3, WaitFacts DEF OnAdmit
    <3> QED BY <1>2, <3>1
  <2> QED BY <2>2, <2>3
<1>6. CASE r.op = "server_failure"
  <2> DEFINE seconds == Larger(Backoff(c) + j, r.delay)
  <2>1. d = IF r.gen = c.gen /\ (c.active => Owned(c, r)) THEN Reopen(c, seconds, TRUE) ELSE c
    BY <1>6 DEF After, OnServerFailure
  <2>2. seconds \in Nat /\ seconds >= r.delay
    BY <1>1, BackoffWait
  <2> HIDE DEF seconds
  <2>3. CASE r.gen = c.gen /\ (c.active => Owned(c, r))
    <3>1. d = Reopen(c, seconds, TRUE)
      BY <2>1, <2>3
    <3>2. Sane(d) /\ Opened(c, d, r.delay) /\ Opened(c, d, 0)
      <4>1. Sane(d) /\ Opened(c, d, seconds)
        BY <1>1, <2>2, <3>1, ReopenOpens
      <4>2. 0 \in Nat /\ 0 <= seconds
        BY <1>1, <2>2, <3>1
      <4> QED BY <1>1, <2>2, <3>1, <4>1, <4>2, OpenedLess
    <3> QED BY <1>1, <1>6, <2>3, <3>2 DEF Transition
  <2>4. CASE ~(r.gen = c.gen /\ (c.active => Owned(c, r)))
    BY <1>2, <1>6, <2>1, <2>4
  <2> QED BY <2>3, <2>4
<1>7. CASE r.op = "failure"
  <2> DEFINE recent == RecentFails(c)
             seen == {k \in Keys : recent[k] # NotSeen}
             hint == Larger(IF seen = {} THEN 0 ELSE c.hint, now + r.delay)
  <2>1. d = IF r.gen # c.gen \/ (c.active /\ ~Owned(c, r)) THEN c
            ELSE IF c.active THEN Reopen(c, Larger(Backoff(c) + j, r.delay), TRUE)
            ELSE IF seen \ {r.key} # {} THEN Reopen(c, Larger(Cool + j, hint - now), TRUE)
            ELSE [c EXCEPT !.fails = [recent EXCEPT ![r.key] = now], !.hint = hint]
    BY <1>7 DEF After, OnFailure
  <2>2. hint \in Nat /\ hint >= now + r.delay /\ (seen # {} => hint >= c.hint)
    <3>1. (IF seen = {} THEN 0 ELSE c.hint) \in Nat /\ now + r.delay \in Nat
      BY <1>1
    <3>2. /\ hint \in Int /\ hint >= now + r.delay
          /\ hint >= (IF seen = {} THEN 0 ELSE c.hint)
      <4> DEFINE old == IF seen = {} THEN 0 ELSE c.hint
                 wanted == now + r.delay
      <4>1. old \in Int /\ wanted \in Int /\ hint = Larger(old, wanted)
        BY <3>1
      <4> HIDE DEF old, wanted, hint
      <4>2. hint \in Int /\ hint >= wanted /\ hint >= old
        BY <4>1, LargerFacts
      <4> QED BY <4>2 DEF old, wanted
    <3> HIDE DEF hint, seen
    <3> QED BY <1>1, <3>1, <3>2
  <2>3. /\ recent \in [Keys -> {NotSeen} \cup 0..MaxTime]
        /\ \A k \in Keys : recent[k] # NotSeen => recent[k] = c.fails[k] /\ c.fails[k] > now - Window
    BY <1>1 DEF RecentFails
  <2> HIDE DEF recent, hint
  <2>4. CASE r.gen # c.gen \/ (c.active /\ ~Owned(c, r))
    BY <1>2, <1>7, <2>1, <2>4
  <2>5. CASE r.gen = c.gen /\ c.active /\ Owned(c, r)
    <3> DEFINE seconds == Larger(Backoff(c) + j, r.delay)
    <3>1. seconds \in Nat
      BY <1>1, BackoffWait
    <3>2. d = Reopen(c, seconds, TRUE)
      BY <2>1, <2>5
    <3> HIDE DEF seconds
    <3>3. Sane(d) /\ Opened(c, d, 0)
      <4>1. Sane(d) /\ Opened(c, d, seconds)
        BY <1>1, <3>1, <3>2, ReopenOpens
      <4>2. 0 \in Nat /\ 0 <= seconds
        BY <1>1, <3>1, <3>2
      <4> QED BY <1>1, <3>1, <3>2, <4>1, <4>2, OpenedLess
    <3> QED BY <1>7, <2>5, <3>3 DEF Transition
  <2>6. CASE r.gen = c.gen /\ ~c.active /\ seen \ {r.key} # {}
    <3> DEFINE seconds == Larger(Cool + j, hint - now)
    <3>1. seconds \in Int /\ seconds >= Cool + j /\ seconds >= hint - now
      <4>1. Cool + j \in Int /\ hint - now \in Int
        BY <2>2, CircuitAssumption
      <4> QED BY <4>1, LargerFacts
    <3> HIDE DEF seconds
    <3>2. seconds \in Nat /\ seconds >= r.delay /\ now + seconds >= hint
      BY <1>1, <2>2, <3>1, CircuitAssumption
    <3>3. d = Reopen(c, seconds, TRUE)
      BY <2>1, <2>6 DEF seconds
    <3>4. Sane(d) /\ Opened(c, d, r.delay) /\ d.until = now + seconds
      BY <1>1, <3>2, <3>3, ReopenOpens, OpenedLess DEF Sane
    <3>5. PICK k \in Keys \ {r.key} : recent[k] # NotSeen
      BY <2>6
    <3>6. c.fails[k] # NotSeen /\ c.fails[k] > now - Window /\ d.until >= c.hint
      BY <1>1, <2>2, <2>3, <3>2, <3>4, <3>5
    <3> QED BY <1>7, <2>6, <3>4, <3>5, <3>6 DEF Transition
  <2>7. CASE r.gen = c.gen /\ ~c.active /\ seen \ {r.key} = {}
    <3>1. d = [c EXCEPT !.fails = [recent EXCEPT ![r.key] = now], !.hint = hint]
      BY <2>1, <2>7
    <3>2. [recent EXCEPT ![r.key] = now] \in [Keys -> {NotSeen} \cup 0..MaxTime]
      BY <2>3
    <3>3. Sane(d)
      BY <1>1, <2>2, <3>1, <3>2 DEF Sane, Circuits, Probed
    <3>4. \A k \in Keys : recent[k] # NotSeen => recent[k] = c.fails[k] /\ hint >= c.hint
      BY <2>2, <2>3
    <3> QED BY <1>7, <2>2, <2>3, <2>7, <3>1, <3>3, <3>4 DEF Transition
  <2> QED BY <2>4, <2>5, <2>6, <2>7, <1>1
<1>8. CASE r.op = "success"
  <2>1. d = IF Owned(c, r) THEN [Closed EXCEPT !.gen = c.gen + 1] ELSE c
    BY <1>8 DEF After, OnSuccess
  <2>2. CASE Owned(c, r)
    <3>1. [k \in Keys |-> NotSeen] \in [Keys -> {NotSeen} \cup 0..MaxTime]
      OBVIOUS
    <3>2. d \in Circuits
      <4>1. Closed \in Circuits /\ c.gen + 1 \in Nat
        BY <1>1, <3>1, CircuitAssumption DEF Closed, Circuits
      <4> QED BY <2>1, <2>2, <4>1 DEF Circuits
    <3>3. Sane(d)
      BY <2>1, <2>2, <3>2 DEF Sane, Probed, Closed
    <3> QED BY <1>8, <2>1, <2>2, <3>3 DEF Transition
  <2>3. CASE ~Owned(c, r)
    BY <1>2, <1>8, <2>1, <2>3
  <2> QED BY <2>2, <2>3
<1>9. CASE r.op = "release"
  <2>1. d = IF Owned(c, r) THEN Reopen(c, ReleaseWait, FALSE) ELSE c
    BY <1>9 DEF After, OnRelease
  <2>2. CASE Owned(c, r)
    <3>1. d = Reopen(c, ReleaseWait, FALSE) /\ ReleaseWait \in Nat
      BY <2>1, <2>2, CircuitAssumption
    <3>2. Sane(d) /\ Opened(c, d, 0)
      <4>1. Sane(d) /\ Opened(c, d, ReleaseWait)
        BY <1>1, <3>1, ReopenOpens
      <4>2. 0 \in Nat /\ 0 <= ReleaseWait
        BY <1>1, <3>1
      <4> QED BY <1>1, <3>1, <4>1, <4>2, OpenedLess
    <3> QED BY <1>3, <1>9, <2>2, <3>2 DEF Transition
  <2>3. CASE ~Owned(c, r)
    BY <1>2, <1>9, <2>1, <2>3
  <2> QED BY <2>2, <2>3
<1> QED BY <1>1, <1>4, <1>5, <1>6, <1>7, <1>8, <1>9 DEF Ops

-----------------------------------------------------------------------------
(* Types. *)

AttemptRows == [pc : {"new", "running", "done", "lost"}, proc : Procs \cup {NoProc}, key : Keys \cup {NoKey},
                gen : Nat, probe : BOOLEAN, by : {"none", "redis", "memory"},
                deadline : Nat, out : {"none", "ok", "503", "429", "other"},
                ended : 0..MaxTime, delay : Nat]

(* A request runs in a process; one that was admitted without Redis, or whose *)
(* process has lost it, belongs to a process that quarantined the model.      *)
Typed ==
    /\ now \in 0..MaxTime /\ restarts \in 0..MaxRestarts
    /\ Sane(shared)
    /\ mirror \in [Procs -> Circuits] /\ \A p \in Procs : Sane(mirror[p])
    /\ conn \subseteq Procs /\ quarantined \subseteq Procs /\ conn \cap quarantined = {}
    /\ at \in [Attempts -> AttemptRows]
    /\ \A a \in Attempts : at[a].pc = "running" =>
          /\ at[a].proc \in Procs /\ at[a].key \in Keys /\ at[a].by \in {"redis", "memory"}
          /\ at[a].by = "memory" \/ at[a].proc \notin conn => at[a].proc \in quarantined

(* What an operation of process p does to the circuits: Redis answers ... *)
SharedMoves(p, r) ==
    /\ p \in conn /\ Sane(shared') /\ Transition(shared, r, shared')
    /\ mirror' = [mirror EXCEPT ![p] = shared'] /\ UNCHANGED <<conn, quarantined>>

(* ... or p goes on alone, after a quarantine. *)
LocalMoves(p, r) ==
    /\ shared' = shared \/ (p \in conn /\ Sane(shared') /\ Transition(shared, r, shared'))
    /\ conn' = conn \ {p} /\ quarantined' = quarantined \cup {p}
    /\ \E m \in Circuits : Sane(m) /\ mirror' = [mirror EXCEPT ![p] = m]
    /\ \/ /\ p \in quarantined /\ LocalCircuit(p, r) = mirror[p]
          /\ Transition(mirror[p], r, mirror'[p])
       \/ /\ p \notin quarantined /\ ~Admits(LocalCircuit(p, r))
          /\ Opened(mirror[p], mirror'[p], Wait(mirror[p])) /\ mirror'[p].until > now

(* A quarantine opens the mirror for at least what was left of its wait, and *)
(* the operation that met the loss changes nothing more.                     *)
LEMMA Quarantined ==
  ASSUME now \in 0..MaxTime, NEW c, Sane(c), NEW r \in Requests, NEW j \in Nat
  PROVE  LET d == Quarantine(c, r) IN
         /\ Sane(d) /\ ~Admits(d) /\ After(d, r, j) = d
         /\ Opened(c, d, Wait(c)) /\ d.until > now
<1> DEFINE asked == IF r.op \in {"failure", "server_failure"} /\ r.gen = c.gen THEN r.delay ELSE 0
           longer == Larger(Wait(c), asked)
           seconds == Larger(Cool, longer)
<1> SUFFICES ASSUME NEW d, d = Quarantine(c, r)
             PROVE  /\ Sane(d) /\ ~Admits(d) /\ After(d, r, j) = d
                    /\ Opened(c, d, Wait(c)) /\ d.until > now
  OBVIOUS
<1> USE Time
<1>1. c \in Circuits /\ c.active \in BOOLEAN /\ asked \in Nat /\ Wait(c) \in Nat
  BY WaitFacts DEF Sane, Circuits, Requests
<1> HIDE DEF asked
<1>2. longer \in Nat /\ longer >= Wait(c)
  <2> DEFINE wait == Wait(c)
  <2> HIDE DEF wait
  <2>1. wait \in Nat /\ longer = Larger(wait, asked)
    BY <1>1 DEF wait
  <2> HIDE DEF longer
  <2>2. longer \in Int /\ longer >= wait
    BY <1>1, <2>1, LargerFacts
  <2> QED BY <2>1, <2>2 DEF wait
<1> HIDE DEF longer
<1>3. seconds \in Nat /\ seconds >= longer /\ seconds >= Cool
  <2>1. Cool \in Int /\ Cool \in Nat /\ longer \in Int /\ seconds = Larger(Cool, longer)
    BY <1>2, CircuitAssumption
  <2> HIDE DEF seconds
  <2>2. seconds \in Int /\ seconds >= longer /\ seconds >= Cool
    BY <2>1, LargerFacts
  <2> QED BY <2>1, <2>2
<1>4. d = Reopen(c, seconds, TRUE) \/ d = Reopen(c, seconds, FALSE)
  BY <1>1 DEF Quarantine, asked, longer
<1> HIDE DEF seconds
<1>5. Sane(d) /\ Opened(c, d, seconds) /\ d.until = now + seconds
  BY <1>1, <1>3, <1>4, ReopenOpens
<1>6. Opened(c, d, Wait(c))
  BY <1>1, <1>2, <1>3, <1>5, OpenedLess
<1>7. d.until > now /\ d.active /\ d.probeUntil = 0 /\ d \in Circuits
  BY <1>3, <1>5, CircuitAssumption DEF Opened, Sane
<1>8. ~Admits(d) /\ ~(d.active /\ Wait(d) <= 0) /\ ~Owned(d, r)
  BY <1>7, WaitFacts DEF Admits, Owned, Circuits
<1>9. After(d, r, j) = d
  <2>1. Transition(d, r, After(d, r, j))
    BY <1>5, AfterMoves
  <2> QED BY <1>7, <1>8, <2>1 DEF Transition
<1> QED BY <1>5, <1>6, <1>7, <1>8, <1>9

LEMMA SharedOperation ==
  ASSUME Typed, NEW p \in Procs, NEW r \in Requests, NEW j \in Nat, OperateShared(p, r, j)
  PROVE  SharedMoves(p, r)
  BY AfterMoves DEF Typed, OperateShared, SharedMoves

LEMMA LocalOperation ==
  ASSUME Typed, NEW p \in Procs, NEW r \in Requests, NEW j \in Nat, OperateLosing(p, r, j) \/ OperateAlone(p, r, j)
  PROVE  LocalMoves(p, r)
<1> USE DEF Typed
<1>1. shared' = shared \/ (p \in conn /\ Sane(shared') /\ Transition(shared, r, shared'))
  BY AfterMoves DEF OperateLosing, OperateAlone
<1>2. conn' = conn \ {p} /\ quarantined' = quarantined \cup {p}
  BY DEF OperateLosing, OperateAlone, OperateLocally
<1>3. PICK m : m = After(LocalCircuit(p, r), r, j)
  OBVIOUS
<1>4. mirror' = [mirror EXCEPT ![p] = m]
  BY <1>3 DEF OperateLosing, OperateAlone, OperateLocally
<1>5. CASE p \in quarantined
  <2>1. LocalCircuit(p, r) = mirror[p] /\ Sane(mirror[p])
    BY <1>5 DEF LocalCircuit
  <2>2. Sane(m) /\ Transition(mirror[p], r, m)
    BY <1>3, <2>1, AfterMoves
  <2> QED BY <1>1, <1>2, <1>4, <1>5, <2>1, <2>2 DEF LocalMoves, Sane
<1>6. CASE p \notin quarantined
  <2>1. LocalCircuit(p, r) = Quarantine(mirror[p], r) /\ Sane(mirror[p])
    BY <1>6 DEF LocalCircuit
  <2>2. /\ Sane(m) /\ ~Admits(LocalCircuit(p, r))
        /\ Opened(mirror[p], m, Wait(mirror[p])) /\ m.until > now
    BY <1>3, <2>1, Quarantined
  <2> QED BY <1>1, <1>2, <1>4, <1>6, <2>2 DEF LocalMoves, Sane
<1> QED BY <1>5, <1>6

(* The requests that the attempts make of a circuit. *)
AdmitRequest(a, k) == [op |-> "admit", owner |-> a, gen |-> 0, key |-> k, delay |-> 0]
PeekRequest == [op |-> "peek", owner |-> NoOwner, gen |-> 0, key |-> NoKey, delay |-> 0]
FinishRequest(a, out, d) == [op |-> OpOf(out), owner |-> a, gen |-> at[a].gen, key |-> at[a].key, delay |-> d]

Replies == {"ok", "503", "429", "other"}

(* The row of an attempt that circuit c has admitted. *)
Admission(a, p, k, c, by) ==
    [NewAttempt EXCEPT !.pc = "running", !.proc = p, !.key = k, !.gen = c.gen, !.probe = c.active, !.by = by,
                       !.deadline = IF c.active THEN now + Lease ELSE 0]

AdmitMoves(a, p, k) ==
    /\ at[a].pc = "new" /\ UNCHANGED <<now, restarts>>
    /\ \/ /\ SharedMoves(p, AdmitRequest(a, k))
          /\ at' = IF Admits(shared) THEN [at EXCEPT ![a] = Admission(a, p, k, shared, "redis")] ELSE at
       \/ /\ LocalMoves(p, AdmitRequest(a, k))
          /\ \/ at' = at
             \/ /\ p \in quarantined /\ Admits(mirror[p])
                /\ at' = [at EXCEPT ![a] = Admission(a, p, k, mirror[p], "memory")]

FinishMoves(a, out, d) ==
    /\ at[a].pc = "running" /\ UNCHANGED <<now, restarts>>
    /\ SharedMoves(at[a].proc, FinishRequest(a, out, d)) \/ LocalMoves(at[a].proc, FinishRequest(a, out, d))
    /\ at' = [at EXCEPT ![a] = Outcome(at[a], out, d)]

PeekMoves(p) ==
    /\ UNCHANGED <<now, at, restarts>>
    /\ SharedMoves(p, PeekRequest) \/ LocalMoves(p, PeekRequest)

Steps ==
    \/ \E a \in Attempts, p \in Procs, k \in Keys : AdmitMoves(a, p, k)
    \/ \E a \in Attempts, out \in Replies, d \in Nat : FinishMoves(a, out, d)
    \/ \E p \in Procs : PeekMoves(p) \/ Restart(p)
    \/ Tick \/ UNCHANGED vars

LEMMA NextSteps == Typed /\ [Next]_vars => Steps
<1> SUFFICES ASSUME Typed, [Next]_vars PROVE Steps
  OBVIOUS
<1> USE CircuitAssumption
<1>1. ASSUME NEW a \in Attempts, NEW p \in Procs, NEW k \in Keys, Admit(a, p, k) PROVE AdmitMoves(a, p, k)
  <2> DEFINE r == AdmitRequest(a, k)
  <2>1. r \in Requests /\ 0 \in Nat
    BY DEF AdmitRequest, Requests, Ops
  <2>2. CASE OperateShared(p, r, 0) /\ Enter(a, p, k, shared, "redis")
    BY <1>1, <2>1, <2>2, SharedOperation DEF Admit, AdmitMoves, Enter, Admission
  <2>3. CASE (OperateLosing(p, r, 0) \/ OperateAlone(p, r, 0)) /\ Enter(a, p, k, LocalCircuit(p, r), "memory")
    <3>1. LocalMoves(p, r)
      BY <2>1, <2>3, LocalOperation
    <3>2. CASE p \in quarantined
      <4>1. LocalCircuit(p, r) = mirror[p]
        BY <3>2 DEF LocalCircuit
      <4> QED BY <1>1, <2>3, <3>1, <3>2, <4>1 DEF Admit, AdmitMoves, Enter, Admission
    <3>3. CASE p \notin quarantined
      BY <1>1, <2>3, <3>1, <3>3 DEF Admit, AdmitMoves, Enter, LocalMoves
    <3> QED BY <3>2, <3>3
  <2> QED BY <1>1, <2>2, <2>3 DEF Admit, AdmitRequest
<1>2. ASSUME NEW a \in Attempts, NEW out \in Replies, NEW d \in Delays \cup {0}, NEW j \in Jitters, Finish(a, out, d, j)
      PROVE  d \in Nat /\ FinishMoves(a, out, d)
  <2> DEFINE r == FinishRequest(a, out, d)
  <2>1. at[a].pc = "running" /\ at[a] \in AttemptRows /\ at[a].proc \in Procs
    BY <1>2 DEF Finish, Typed
  <2>2. r \in Requests /\ j \in Nat /\ d \in Nat
    BY <2>1 DEF FinishRequest, Requests, Ops, OpOf, Replies, AttemptRows
  <2>3. Operate(at[a].proc, r, j)
    BY <1>2 DEF Finish, FinishRequest
  <2>4. SharedMoves(at[a].proc, r) \/ LocalMoves(at[a].proc, r)
    BY <2>1, <2>2, <2>3, SharedOperation, LocalOperation DEF Operate
  <2> QED BY <1>2, <2>1, <2>2, <2>4 DEF Finish, FinishMoves
<1>3. ASSUME NEW p \in Procs, Peek(p) PROVE PeekMoves(p)
  <2>1. PeekRequest \in Requests /\ 0 \in Nat
    BY DEF PeekRequest, Requests, Ops
  <2>2. Operate(p, PeekRequest, 0)
    BY <1>3 DEF Peek, PeekRequest
  <2>3. SharedMoves(p, PeekRequest) \/ LocalMoves(p, PeekRequest)
    BY <2>1, <2>2, SharedOperation, LocalOperation DEF Operate
  <2> QED BY <1>3, <2>3 DEF Peek, PeekMoves
<1> QED BY <1>1, <1>2, <1>3 DEF Next, Steps, Replies

LEMMA MovesTyped ==
  ASSUME Typed, now' = now, NEW p \in Procs, NEW r, SharedMoves(p, r) \/ LocalMoves(p, r)
  PROVE  /\ Sane(shared)'
         /\ mirror' \in [Procs -> Circuits] /\ \A q \in Procs : Sane(mirror[q])'
         /\ conn' \subseteq Procs /\ quarantined' \subseteq Procs /\ conn' \cap quarantined' = {}
         /\ conn' \subseteq conn /\ quarantined \subseteq quarantined'
         /\ \A q \in Procs : q \in conn /\ q \notin conn' => q \in quarantined'
<1>1. Sane(shared') /\ (Sane(shared'))=> Sane(shared)'
  BY DEF Typed, SharedMoves, LocalMoves, Sane, Probed
<1>2. PICK m \in Circuits : Sane(m) /\ mirror' = [mirror EXCEPT ![p] = m]
  BY DEF SharedMoves, LocalMoves, Sane
<1>3. \A q \in Procs : mirror'[q] = IF q = p THEN m ELSE mirror[q]
  BY <1>2 DEF Typed
<1>4. \A q \in Procs : Sane(mirror[q])'
  BY <1>2, <1>3 DEF Typed, Sane, Probed
<1>5. mirror' \in [Procs -> Circuits]
  BY <1>2 DEF Typed
<1>6. Sane(shared)'
  BY DEF Typed, SharedMoves, LocalMoves, Sane, Probed
<1> QED BY <1>4, <1>5, <1>6 DEF Typed, SharedMoves, LocalMoves

LEMMA InitTyped == Init => Typed
<1> SUFFICES ASSUME Init PROVE Typed
  OBVIOUS
<1>1. [k \in Keys |-> NotSeen] \in [Keys -> {NotSeen} \cup 0..MaxTime]
  OBVIOUS
<1>2. Closed \in Circuits
  BY <1>1, CircuitAssumption DEF Closed, Circuits
<1>3. shared \in Circuits
  <2>1. CASE shared = Closed
    BY <1>2, <2>1
  <2>2. CASE shared = [Closed EXCEPT !.gen = 1, !.stage = 1, !.active = TRUE, !.until = Cool]
    <3>1. 1 \in Nat /\ 1 \in 0..MaxStage /\ Cool \in Nat
      BY CircuitAssumption
    <3> QED BY <1>2, <2>2, <3>1 DEF Circuits
  <2> QED BY <2>1, <2>2 DEF Init, Found
<1>4. Sane(shared) /\ Sane(Closed)
  <2>1. shared.probeUntil = 0 /\ shared.owner = NoOwner
    <3>1. CASE shared = Closed
      BY <3>1 DEF Closed
    <3>2. CASE shared = [Closed EXCEPT !.gen = 1, !.stage = 1, !.active = TRUE, !.until = Cool]
      BY <3>2 DEF Closed
    <3> QED BY <3>1, <3>2 DEF Init, Found
  <2>2. Closed.probeUntil = 0 /\ Closed.owner = NoOwner
    BY DEF Closed
  <2> QED BY <1>2, <1>3, <2>1, <2>2 DEF Sane, Probed
<1>5. NewAttempt \in AttemptRows /\ NewAttempt.pc = "new"
  BY CircuitAssumption DEF NewAttempt, AttemptRows
<1> QED BY <1>2, <1>4, <1>5, CircuitAssumption DEF Init, Typed

LEMMA TypedKept == Typed /\ [Next]_vars => Typed'
<1> SUFFICES ASSUME Typed, [Next]_vars PROVE Typed'
  OBVIOUS
<1> USE CircuitAssumption, Time
<1>0. NewAttempt \in AttemptRows
  BY DEF NewAttempt, AttemptRows
<1>1. ASSUME NEW a \in Attempts, NEW p \in Procs, NEW k \in Keys, AdmitMoves(a, p, k) PROVE Typed'
  <2>1. now' = now /\ restarts' = restarts /\ (SharedMoves(p, AdmitRequest(a, k)) \/ LocalMoves(p, AdmitRequest(a, k)))
    BY <1>1 DEF AdmitMoves
  <2>2. CASE at' = at
    BY <2>1, <2>2, MovesTyped DEF Typed
  <2>3. ASSUME NEW c, c \in Circuits, NEW by \in {"redis", "memory"}, at' = [at EXCEPT ![a] = Admission(a, p, k, c, by)],
               by = "memory" => p \in quarantined, by = "redis" => p \in conn'
        PROVE  Typed'
    <3>1. /\ Admission(a, p, k, c, by) \in AttemptRows
          /\ Admission(a, p, k, c, by).proc = p /\ Admission(a, p, k, c, by).key = k /\ Admission(a, p, k, c, by).by = by
      <4>1. c.gen \in Nat /\ c.active \in BOOLEAN /\ (IF c.active THEN now + Lease ELSE 0) \in Nat
        BY <2>3 DEF Circuits, Typed
      <4>2. Admission(a, p, k, c, by) \in AttemptRows
        BY <1>0, <4>1 DEF Admission, AttemptRows
      <4> QED BY <4>2 DEF Admission, NewAttempt
    <3> QED BY <2>1, <2>3, <3>1, MovesTyped DEF Typed
  <2>4. CASE at' # at
    <3>1. CASE SharedMoves(p, AdmitRequest(a, k)) /\ at' = [at EXCEPT ![a] = Admission(a, p, k, shared, "redis")]
      BY <2>3, <3>1 DEF SharedMoves, Typed, Sane
    <3>2. CASE p \in quarantined /\ at' = [at EXCEPT ![a] = Admission(a, p, k, mirror[p], "memory")]
      BY <2>3, <3>2 DEF Typed
    <3> QED BY <1>1, <2>4, <3>1, <3>2 DEF AdmitMoves
  <2> QED BY <2>2, <2>4
<1>2. ASSUME NEW a \in Attempts, NEW out \in Replies, NEW d \in Nat, FinishMoves(a, out, d) PROVE Typed'
  <2>1. now' = now /\ restarts' = restarts /\ at[a].proc \in Procs /\ at[a] \in AttemptRows /\ at[a].pc = "running"
    BY <1>2 DEF FinishMoves, Typed
  <2>2. Outcome(at[a], out, d) \in AttemptRows /\ Outcome(at[a], out, d).pc = "done"
    <3>1. CASE out \in {"ok", "other"}
      BY <1>0, <3>1 DEF Outcome, AttemptRows, NewAttempt
    <3>2. CASE out \in {"503", "429"}
      <4>1. at[a].key \in Keys \cup {NoKey} /\ at[a].gen \in Nat /\ now \in 0..MaxTime
        BY <2>1 DEF AttemptRows, Typed
      <4>2. Outcome(at[a], out, d) = [NewAttempt EXCEPT !.pc = "done", !.out = out, !.key = at[a].key,
                                                        !.gen = at[a].gen, !.ended = now, !.delay = d]
        BY <3>2 DEF Outcome
      <4>3. Outcome(at[a], out, d) \in AttemptRows
        BY <1>0, <3>2, <4>1, <4>2 DEF AttemptRows
      <4> QED BY <4>2, <4>3 DEF NewAttempt
    <3> QED BY <3>1, <3>2 DEF Replies
  <2>3. at' = [at EXCEPT ![a] = Outcome(at[a], out, d)]
    BY <1>2 DEF FinishMoves
  <2> HIDE DEF Outcome
  <2> QED BY <1>2, <2>1, <2>2, <2>3, MovesTyped DEF FinishMoves, Typed
<1>3. ASSUME NEW p \in Procs, PeekMoves(p) PROVE Typed'
  BY <1>3, MovesTyped DEF PeekMoves, Typed
<1>4. ASSUME NEW p \in Procs, Restart(p) PROVE Typed'
  <2>1. [k \in Keys |-> NotSeen] \in [Keys -> {NotSeen} \cup 0..MaxTime]
    OBVIOUS
  <2>2. Closed \in Circuits
    BY <2>1 DEF Closed, Circuits
  <2>3. Sane(shared)' /\ restarts' \in 0..MaxRestarts /\ now' \in 0..MaxTime
    <3>1. shared' = shared /\ now' = now /\ restarts < MaxRestarts /\ restarts' = restarts + 1
      BY <1>4 DEF Restart
    <3> QED BY <3>1 DEF Typed, Sane, Probed
  <2>4. mirror' \in [Procs -> Circuits] /\ \A q \in Procs : Sane(mirror[q])'
    <3>1. \A q \in Procs : mirror'[q] = IF q = p THEN Closed ELSE mirror[q]
      BY <1>4 DEF Restart, Typed
    <3>2. \A q \in Procs : Sane(mirror[q])'
      BY <1>4, <2>2, <3>1 DEF Restart, Typed, Sane, Probed, Closed
    <3> QED BY <1>4, <2>2, <3>2 DEF Restart, Typed
  <2>5. at' \in [Attempts -> AttemptRows]
    <3>1. \A a \in Attempts : [at[a] EXCEPT !.pc = "lost", !.proc = NoProc] \in AttemptRows /\ at[a] \in AttemptRows
      <4>1. TAKE a \in Attempts
      <4>2. at[a] \in AttemptRows
        BY DEF Typed
      <4>3. "lost" \in {"new", "running", "done", "lost"} /\ NoProc \in Procs \cup {NoProc}
        OBVIOUS
      <4> QED BY <4>2, <4>3 DEF AttemptRows
    <3> QED BY <1>4, <3>1 DEF Restart
  <2>6. conn' \subseteq Procs /\ quarantined' \subseteq Procs /\ conn' \cap quarantined' = {}
    BY <1>4 DEF Restart, Typed
  <2>7. ASSUME NEW a \in Attempts, at'[a].pc = "running"
        PROVE  at'[a] = at[a] /\ at[a].pc = "running" /\ at[a].proc # p
    BY <1>4, <2>7 DEF Restart, Typed, AttemptRows
  <2>8. ASSUME NEW a \in Attempts, at'[a].pc = "running"
        PROVE  /\ at'[a].proc \in Procs /\ at'[a].key \in Keys /\ at'[a].by \in {"redis", "memory"}
               /\ at'[a].by = "memory" \/ at'[a].proc \notin conn' => at'[a].proc \in quarantined'
    BY <1>4, <2>7, <2>8 DEF Restart, Typed
  <2> QED BY <2>3, <2>4, <2>5, <2>6, <2>8 DEF Typed
<1>5. CASE Tick
  BY <1>5 DEF Tick, Typed, Sane, Probed, Circuits
<1>6. CASE UNCHANGED vars
  BY <1>6 DEF vars, Typed, Sane, Probed
<1>7. Steps
  BY NextSteps
<1> QED BY <1>1, <1>2, <1>3, <1>4, <1>5, <1>6, <1>7 DEF Steps

LEMMA TypedAlways == Spec => []Typed
  BY InitTyped, TypedKept, PTL DEF Spec

LEMMA TypedTypes == Typed => TypeOK
  BY DEF Typed, Sane, TypeOK, AttemptRows

(* Every circuit and every attempt keeps its type: TypeOK. *)
THEOREM TypesAlways == Spec => []TypeOK
  BY TypedAlways, TypedTypes, PTL

-----------------------------------------------------------------------------
(* Cool-downs. *)

(* What a process in touch with Redis remembers of an open circuit is not    *)
(* longer than the cool-down in Redis, or is over.                           *)
Lagging ==
    \A p \in conn : mirror[p].active =>
        IF shared.active THEN mirror[p].until <= shared.until ELSE mirror[p].until <= now

(* A transition leaves a cool-down, or happens when it is over. *)
LEMMA CoolsOn ==
  ASSUME now \in 0..MaxTime, NEW c, Sane(c), NEW d, Sane(d), NEW r, Transition(c, r, d)
  PROVE  /\ c.until \in Nat /\ d.until \in Nat /\ c.active \in BOOLEAN /\ d.active \in BOOLEAN
         /\ c.active /\ d.active => d.until >= c.until
         /\ c.active /\ ~d.active => c.until <= now
         /\ ~c.active /\ d.active => d.until >= now
<1> USE Time
<1>1. /\ c \in Circuits /\ d \in Circuits /\ c.until \in Nat /\ d.until \in Nat /\ c.probeUntil \in Nat
      /\ c.active \in BOOLEAN /\ d.active \in BOOLEAN
  BY DEF Sane, Circuits
<1>2. c.active /\ Owned(c, r) => c.until <= now
  BY <1>1 DEF Owned, Sane, Probed
<1>3. Owned(c, r) => c.active
  BY <1>1 DEF Owned, Sane, Probed
<1> QED
  <2>1. CASE d = c
    BY <1>1, <2>1
  <2>2. CASE c.active /\ d = [c EXCEPT !.owner = r.owner, !.probeUntil = now + Lease]
    <3>1. d.until = c.until
      BY <1>1, <2>2 DEF Circuits
    <3> QED BY <1>1, <2>2, <3>1
  <2>3. CASE c.active /\ Owned(c, r) /\ Opened(c, d, 0)
    BY <1>1, <1>2, <2>3 DEF Opened
  <2>4. CASE Owned(c, r) /\ d = [Closed EXCEPT !.gen = c.gen + 1]
    <3>1. ~d.active
      BY <2>4 DEF Closed
    <3> QED BY <1>1, <1>2, <1>3, <2>4, <3>1
  <2>5. CASE ~c.active /\ \E seconds : Opened(c, d, seconds)
    BY <1>1, <2>5 DEF Opened
  <2>6. CASE ~c.active /\ \E h, fails : d = [c EXCEPT !.fails = fails, !.hint = h]
    <3>1. d.active = c.active
      BY <1>1, <2>6 DEF Circuits
    <3> QED BY <1>1, <2>6, <3>1
  <2> QED BY <2>1, <2>2, <2>3, <2>4, <2>5, <2>6 DEF Transition

(* An operation of p: what it does to the cool-down in Redis and in p. *)
LEMMA OperationCools ==
  ASSUME Typed, Lagging, now' = now, NEW p \in Procs, NEW r, SharedMoves(p, r) \/ LocalMoves(p, r)
  PROVE  /\ shared.active /\ shared'.active => shared'.until >= shared.until
         /\ \A q \in Procs : mirror[q].active /\ mirror'[q].active => mirror'[q].until >= mirror[q].until
         /\ Lagging'
<1> USE Time DEF Typed
<1>1. /\ shared' = shared \/ Transition(shared, r, shared')
      /\ Sane(shared')
  BY DEF SharedMoves, LocalMoves
<1>2. /\ shared.until \in Nat /\ shared'.until \in Nat /\ shared.active \in BOOLEAN /\ shared'.active \in BOOLEAN
      /\ shared.active /\ shared'.active => shared'.until >= shared.until
      /\ shared.active /\ ~shared'.active => shared.until <= now
      /\ ~shared.active /\ shared'.active => shared'.until >= now
  <2>1. CASE shared' = shared
    <3>1. shared.until \in Nat /\ shared.active \in BOOLEAN
      BY DEF Sane, Circuits
    <3> QED BY <2>1, <3>1
  <2>2. CASE Transition(shared, r, shared')
    <3>1. PICK d : d = shared'
      OBVIOUS
    <3>2. Sane(d) /\ Transition(shared, r, d)
      BY <1>1, <2>2, <3>1
    <3> QED BY <3>1, <3>2, CoolsOn
  <2> QED BY <1>1, <2>1, <2>2
<1>3. \A q \in Procs : mirror[q].until \in Nat /\ mirror[q].active \in BOOLEAN
  BY DEF Circuits
<1>4. CASE SharedMoves(p, r)
  <2>1. \A q \in Procs : mirror'[q] = IF q = p THEN shared' ELSE mirror[q]
    BY <1>4 DEF SharedMoves
  <2>2. conn' = conn
    BY <1>4 DEF SharedMoves
  <2>3. mirror[p].active => IF shared.active THEN mirror[p].until <= shared.until ELSE mirror[p].until <= now
    BY <1>4 DEF SharedMoves, Lagging
  <2>4. mirror[p].active /\ mirror'[p].active => mirror'[p].until >= mirror[p].until
    BY <1>2, <1>3, <2>1, <2>3
  <2>5. Lagging'
    <3>1. ASSUME NEW q \in conn, mirror'[q].active
          PROVE  IF shared'.active THEN mirror'[q].until <= shared'.until ELSE mirror'[q].until <= now
      <4>1. CASE q = p
        BY <1>2, <2>1, <3>1, <4>1
      <4>2. CASE q # p
        BY <1>2, <1>3, <2>1, <3>1, <4>2 DEF Lagging
      <4> QED BY <4>1, <4>2
    <3> QED BY <2>2, <3>1 DEF Lagging
  <2> QED BY <1>2, <1>3, <2>1, <2>4, <2>5
<1>5. CASE LocalMoves(p, r)
  <2>1. PICK m \in Circuits : Sane(m) /\ mirror' = [mirror EXCEPT ![p] = m]
    BY <1>5 DEF LocalMoves
  <2>2. \A q \in Procs : mirror'[q] = IF q = p THEN m ELSE mirror[q]
    BY <2>1
  <2>3. mirror[p].active /\ m.active => m.until >= mirror[p].until
    <3>1. CASE Transition(mirror[p], r, m)
      BY <2>1, <3>1, CoolsOn
    <3>2. CASE Opened(mirror[p], m, Wait(mirror[p]))
      <4>1. Wait(mirror[p]) \in Nat /\ (mirror[p].active => now + Wait(mirror[p]) >= mirror[p].until)
        BY WaitFacts
      <4>2. m.until >= now + Wait(mirror[p]) /\ m.until \in Nat
        BY <2>1, <3>2 DEF Opened, Circuits
      <4> QED BY <1>3, <4>1, <4>2
    <3> QED BY <1>5, <2>2, <3>1, <3>2 DEF LocalMoves
  <2>4. Lagging'
    <3>1. conn' = conn \ {p}
      BY <1>5 DEF LocalMoves
    <3>2. ASSUME NEW q \in conn \ {p}, mirror'[q].active
          PROVE  IF shared'.active THEN mirror'[q].until <= shared'.until ELSE mirror'[q].until <= now
      BY <1>2, <1>3, <2>2, <3>2 DEF Lagging
    <3> QED BY <3>1, <3>2 DEF Lagging
  <2> QED BY <1>2, <1>3, <2>2, <2>3, <2>4
<1> QED BY <1>4, <1>5

LEMMA LaggingKept ==
  Typed /\ Lagging /\ [Next]_vars =>
      /\ Lagging'
      /\ shared.active /\ shared'.active => shared'.until >= shared.until
      /\ \A p \in Procs : mirror[p].active /\ mirror'[p].active => mirror'[p].until >= mirror[p].until
<1> DEFINE Kept == /\ Lagging'
                   /\ shared.active /\ shared'.active => shared'.until >= shared.until
                   /\ \A p \in Procs : mirror[p].active /\ mirror'[p].active => mirror'[p].until >= mirror[p].until
<1> SUFFICES ASSUME Typed, Lagging, [Next]_vars PROVE Kept
  OBVIOUS
<1> USE Time
<1>1. shared.until \in Nat /\ \A p \in Procs : mirror[p].until \in Nat
  BY DEF Typed, Sane, Circuits
<1>2. ASSUME NEW a \in Attempts, NEW p \in Procs, NEW k \in Keys, AdmitMoves(a, p, k) PROVE Kept
  BY <1>2, OperationCools DEF AdmitMoves
<1>3. ASSUME NEW a \in Attempts, NEW out \in Replies, NEW d \in Nat, FinishMoves(a, out, d) PROVE Kept
  BY <1>3, OperationCools DEF FinishMoves, Typed
<1>4. ASSUME NEW p \in Procs, PeekMoves(p) PROVE Kept
  BY <1>4, OperationCools DEF PeekMoves
<1>5. ASSUME NEW p \in Procs, Restart(p) PROVE Kept
  <2>1. /\ shared' = shared /\ now' = now /\ conn' \subseteq conn \cup {p}
        /\ \A q \in Procs : mirror'[q] = IF q = p THEN Closed ELSE mirror[q]
    BY <1>5 DEF Restart, Typed
  <2>2. ~Closed.active
    BY DEF Closed
  <2> QED BY <1>1, <2>1, <2>2 DEF Lagging, Typed
<1>6. CASE Tick
  BY <1>1, <1>6 DEF Tick, Lagging, Typed
<1>7. CASE UNCHANGED vars
  BY <1>1, <1>7 DEF vars, Lagging, Typed
<1>8. Steps
  BY NextSteps
<1> QED BY <1>2, <1>3, <1>4, <1>5, <1>6, <1>7, <1>8 DEF Steps

LEMMA LaggingAlways == Spec => []Lagging
<1>1. Init => Lagging
  BY DEF Init, Lagging, Closed
<1> QED BY <1>1, TypedAlways, LaggingKept, PTL DEF Spec

(* An open circuit never shortens its cool-down: CooldownNeverShortened. *)
THEOREM CooldownNeverShortenedAlways == Spec => CooldownNeverShortened
<1>1. Typed /\ Lagging /\ [Next]_vars =>
        [/\ shared.active /\ shared'.active => shared'.until >= shared.until
         /\ \A p \in Procs :
              mirror[p].active /\ mirror'[p].active => mirror'[p].until >= mirror[p].until]_vars
  BY LaggingKept
<1> QED BY <1>1, TypedAlways, LaggingAlways, PTL DEF Spec, CooldownNeverShortened

-----------------------------------------------------------------------------
(* Probes. *)

Holds(c, a) == c.owner = a /\ c.probeUntil = at[a].deadline

(* The probe that Redis admitted owns the circuit as long as its lease runs,  *)
(* and no later than another probe is admitted; in the memory of its process  *)
(* it holds the circuit too, or the process has lost Redis meanwhile and has  *)
(* closed the model for longer than the lease.                                *)
Probe(a) ==
    /\ at[a].by = "redis" /\ at[a].probe /\ at[a].pc \in {"running", "lost"} /\ now < at[a].deadline
         => Holds(shared, a) /\ shared.gen = at[a].gen
    /\ at[a].by = "redis" /\ at[a].pc = "running" /\ shared.owner = a => at[a].probe /\ Holds(shared, a)
    /\ LiveProbe(a) =>
         IF at[a].by = "memory" \/ at[a].proc \in conn
         THEN Holds(mirror[at[a].proc], a)
         ELSE mirror[at[a].proc].active /\ mirror[at[a].proc].until >= at[a].deadline

Probes == \A a \in Attempts : Probe(a)

Same(c, d) == d.owner = c.owner /\ d.probeUntil = c.probeUntil /\ d.gen = c.gen

(* What a request does to the owner of a circuit. *)
LEMMA OwnerMoves ==
  ASSUME now \in 0..MaxTime, NEW c, Sane(c), NEW d, Sane(d), NEW r, Transition(c, r, d)
  PROVE  \/ Same(c, d)
         \/ /\ r.op = "admit" /\ c.active /\ c.probeUntil <= now
            /\ d.owner = r.owner /\ d.probeUntil = now + Lease /\ d.gen = c.gen
         \/ d.owner = NoOwner /\ (c.active => Owned(c, r))
<1> USE Time
<1>1. c \in Circuits
  BY DEF Sane
<1>2. CASE d = c
  BY <1>2 DEF Same
<1>3. CASE r.op = "admit" /\ c.active /\ Wait(c) <= 0 /\ d = [c EXCEPT !.owner = r.owner, !.probeUntil = now + Lease]
  <2>1. c.probeUntil <= now
    BY <1>1, <1>3, WaitFacts
  <2>2. d.owner = r.owner /\ d.probeUntil = now + Lease /\ d.gen = c.gen
    BY <1>1, <1>3 DEF Circuits
  <2> QED BY <1>3, <2>1, <2>2
<1>4. CASE Owned(c, r) /\ Opened(c, d, 0)
  BY <1>4 DEF Opened
<1>5. CASE Owned(c, r) /\ d = [Closed EXCEPT !.gen = c.gen + 1]
  BY <1>5 DEF Closed
<1>6. CASE ~c.active /\ Opened(c, d, r.delay)
  BY <1>6 DEF Opened
<1>7. CASE \E h, fails : d = [c EXCEPT !.fails = fails, !.hint = h]
  BY <1>1, <1>7 DEF Circuits, Same
<1> QED BY <1>2, <1>3, <1>4, <1>5, <1>6, <1>7 DEF Transition

(* A probe keeps the circuit while its lease runs, ... *)
LEMMA HolderKept ==
  ASSUME now \in 0..MaxTime, NEW c, Sane(c), NEW d, Sane(d), NEW r, Transition(c, r, d),
         NEW b \in Attempts, c.owner = b, c.probeUntil > now, r.owner # b
  PROVE  Same(c, d)
<1>1. c.probeUntil \in Nat /\ c.active
  BY Time DEF Sane, Circuits, Probed
<1> QED BY <1>1, Time, OwnerMoves DEF Owned

(* ... and only by a request of its own does an attempt become the owner. *)
LEMMA OwnerKept ==
  ASSUME now \in 0..MaxTime, NEW c, Sane(c), NEW d, Sane(d), NEW r, Transition(c, r, d),
         NEW b \in Attempts, d.owner = b, r.owner # b
  PROVE  Same(c, d)
<1>1. b # NoOwner
  BY CircuitAssumption
<1> QED BY <1>1, OwnerMoves

(* An operation of another attempt leaves a probe what it has. *)
LEMMA OperationProbes ==
  ASSUME Typed, Probes, now' = now, NEW p \in Procs, NEW r, SharedMoves(p, r) \/ LocalMoves(p, r),
         NEW b \in Attempts, r.owner # b, at'[b] = at[b]
  PROVE  Probe(b)'
<1> USE Time DEF Typed, Holds
<1>0. Probe(b) /\ at[b].deadline \in Nat
  BY DEF Probes, AttemptRows
<1>1. Sane(shared') /\ (Transition(shared, r, shared') \/ Same(shared, shared'))
  BY DEF SharedMoves, LocalMoves, Same
<1>2. shared'.owner = b => Same(shared, shared')
  <2>1. CASE Transition(shared, r, shared')
    <3>1. PICK d : d = shared'
      OBVIOUS
    <3> QED BY <1>1, <2>1, <3>1, OwnerKept
  <2> QED BY <1>1, <2>1
<1>3. shared.owner = b /\ shared.probeUntil > now => Same(shared, shared')
  <2>1. CASE Transition(shared, r, shared')
    <3>1. PICK d : d = shared'
      OBVIOUS
    <3> QED BY <1>1, <2>1, <3>1, HolderKept
  <2> QED BY <1>1, <2>1
<1>4. at[b].by = "redis" /\ at[b].probe /\ at[b].pc \in {"running", "lost"} /\ now < at[b].deadline
        => shared'.owner = b /\ shared'.probeUntil = at[b].deadline /\ shared'.gen = at[b].gen
  BY <1>0, <1>3 DEF Probe, Same
<1>5. at[b].by = "redis" /\ at[b].pc = "running" /\ shared'.owner = b
        => at[b].probe /\ shared'.owner = b /\ shared'.probeUntil = at[b].deadline
  BY <1>0, <1>2 DEF Probe, Same
<1>6. ASSUME LiveProbe(b)
      PROVE  IF at[b].by = "memory" \/ at[b].proc \in conn'
             THEN mirror'[at[b].proc].owner = b /\ mirror'[at[b].proc].probeUntil = at[b].deadline
             ELSE mirror'[at[b].proc].active /\ mirror'[at[b].proc].until >= at[b].deadline
  <2> DEFINE q == at[b].proc
  <2>1. /\ at[b].pc = "running" /\ at[b].probe /\ now < at[b].deadline /\ q \in Procs /\ at[b].by \in {"redis", "memory"}
        /\ at[b].by = "memory" \/ q \notin conn => q \in quarantined
    BY <1>6 DEF LiveProbe
  <2>2. IF at[b].by = "memory" \/ q \in conn
        THEN mirror[q].owner = b /\ mirror[q].probeUntil = at[b].deadline
        ELSE mirror[q].active /\ mirror[q].until >= at[b].deadline
    BY <1>0, <1>6 DEF Probe
  <2>3. q # p => mirror'[q] = mirror[q] /\ (q \in conn' <=> q \in conn)
    BY <2>1 DEF SharedMoves, LocalMoves
  <2>4. CASE q # p
    BY <2>2, <2>3, <2>4
  <2>5. CASE q = p /\ SharedMoves(p, r)
    <3>1. at[b].by = "redis" /\ q \in conn' /\ mirror'[q] = shared'
      BY <2>1, <2>5 DEF SharedMoves
    <3> QED BY <1>4, <2>1, <3>1
  <2>6. CASE q = p /\ LocalMoves(p, r) /\ p \in quarantined
    <3>1. p \notin conn /\ p \notin conn'
      BY <2>6 DEF LocalMoves
    <3>2. PICK m : m = mirror'[p]
      OBVIOUS
    <3>3. Sane(m) /\ Sane(mirror[p]) /\ Transition(mirror[p], r, m)
      <4>1. PICK n \in Circuits : Sane(n) /\ mirror' = [mirror EXCEPT ![p] = n]
        BY <2>6 DEF LocalMoves
      <4>2. mirror'[p] = n
        BY <4>1
      <4> QED BY <2>6, <3>2, <4>1, <4>2 DEF LocalMoves
    <3>4. CASE at[b].by = "memory"
      <4>1. Same(mirror[p], m)
        BY <2>1, <2>2, <2>6, <3>3, <3>4, HolderKept
      <4> QED BY <2>2, <2>6, <3>2, <3>4, <4>1 DEF Same
    <3>5. CASE at[b].by = "redis"
      <4>1. mirror[p].active /\ mirror[p].until >= at[b].deadline
        BY <2>2, <2>6, <3>1, <3>5
      <4>2. m.active /\ m.until >= mirror[p].until /\ m.until \in Nat /\ mirror[p].until \in Nat
        BY <1>0, <2>1, <3>3, <4>1, CoolsOn
      <4> QED BY <1>0, <2>6, <3>1, <3>2, <3>5, <4>1, <4>2
    <3> QED BY <2>1, <3>4, <3>5
  <2>7. CASE q = p /\ LocalMoves(p, r) /\ p \notin quarantined
    <3>1. at[b].by = "redis" /\ p \in conn /\ p \notin conn'
      BY <2>1, <2>7 DEF LocalMoves
    <3>2. mirror[p].probeUntil = at[b].deadline /\ mirror[p] \in Circuits /\ mirror[p].active
      BY <1>0, <2>1, <2>2, <2>7, <3>1 DEF Sane, Probed
    <3>3. Opened(mirror[p], mirror'[p], Wait(mirror[p]))
      BY <2>7 DEF LocalMoves
    <3>4. now + Wait(mirror[p]) >= at[b].deadline /\ Wait(mirror[p]) \in Nat
      BY <3>2, WaitFacts
    <3>5. mirror'[p].active /\ mirror'[p].until >= now + Wait(mirror[p]) /\ mirror'[p].until \in Nat
      BY <3>3, MovesTyped DEF Opened, Circuits
    <3> QED BY <1>0, <2>7, <3>1, <3>4, <3>5
  <2> QED BY <2>4, <2>5, <2>6, <2>7
<1> QED BY <1>4, <1>5, <1>6 DEF Probe, LiveProbe

(* Nothing is asked of an attempt that is not under way. *)
LEMMA IdleProbe ==
  ASSUME NEW a \in Attempts, at[a].pc \notin {"running", "lost"}
  PROVE  Probe(a)
  BY DEF Probe, LiveProbe

LEMMA AdmittedProbe ==
  ASSUME Typed, NEW a \in Attempts, NEW p \in Procs, NEW k \in Keys, AdmitMoves(a, p, k)
  PROVE  Probe(a)'
<1> USE Time, CircuitAssumption DEF Typed
<1>1. now' = now /\ at[a].pc = "new" /\ Lease \in Nat \ {0}
  BY DEF AdmitMoves
<1>2. CASE at' = at
  BY <1>1, <1>2 DEF Probe, LiveProbe
<1>3. CASE /\ SharedMoves(p, AdmitRequest(a, k)) /\ Admits(shared)
           /\ at' = [at EXCEPT ![a] = Admission(a, p, k, shared, "redis")]
  <2>1. /\ at'[a].by = "redis" /\ at'[a].proc = p /\ at'[a].probe = shared.active /\ at'[a].gen = shared.gen
        /\ at'[a].deadline = IF shared.active THEN now + Lease ELSE 0
    BY <1>3 DEF Admission, NewAttempt
  <2>2. mirror'[p] = shared' /\ p \in conn'
    BY <1>3 DEF SharedMoves
  <2>3. PICK d : d = shared' /\ Sane(d) /\ Transition(shared, AdmitRequest(a, k), d)
    BY <1>3 DEF SharedMoves
  <2>4. shared \in Circuits /\ shared.active \in BOOLEAN
    BY DEF Sane, Circuits
  <2>5. CASE shared.active
    <3>1. d = [shared EXCEPT !.owner = a, !.probeUntil = now + Lease]
      <4>1. Wait(shared) <= 0 /\ Wait(shared) \in Nat
        BY <1>3, <2>4, <2>5, WaitFacts DEF Admits
      <4> QED BY <2>3, <2>5, <4>1 DEF Transition, AdmitRequest
    <3>2. d.owner = a /\ d.probeUntil = now + Lease /\ d.gen = shared.gen
      BY <2>4, <3>1 DEF Circuits
    <3> QED BY <1>1, <2>1, <2>2, <2>3, <2>5, <3>2 DEF Probe, LiveProbe, Holds
  <2>6. CASE ~shared.active
    <3>1. d.owner # a
      <4>1. shared.owner # a /\ a # NoOwner
        BY <2>4, <2>6 DEF Sane, Probed
      <4>2. Same(shared, d) \/ d.owner = NoOwner
        BY <2>3, <2>6, OwnerMoves
      <4> QED BY <4>1, <4>2 DEF Same
    <3> QED BY <1>1, <2>1, <2>3, <2>6, <3>1 DEF Probe, LiveProbe
  <2> QED BY <2>4, <2>5, <2>6
<1>4. CASE /\ LocalMoves(p, AdmitRequest(a, k)) /\ p \in quarantined /\ Admits(mirror[p])
           /\ at' = [at EXCEPT ![a] = Admission(a, p, k, mirror[p], "memory")]
  <2>1. /\ at'[a].by = "memory" /\ at'[a].proc = p /\ at'[a].probe = mirror[p].active
        /\ at'[a].deadline = IF mirror[p].active THEN now + Lease ELSE 0
    BY <1>4 DEF Admission, NewAttempt
  <2>2. PICK d : d = mirror'[p] /\ Transition(mirror[p], AdmitRequest(a, k), d)
    BY <1>4 DEF LocalMoves
  <2>3. mirror[p] \in Circuits /\ mirror[p].active \in BOOLEAN
    BY DEF Circuits
  <2>4. CASE mirror[p].active
    <3>1. d = [mirror[p] EXCEPT !.owner = a, !.probeUntil = now + Lease]
      <4>1. Wait(mirror[p]) <= 0 /\ Wait(mirror[p]) \in Nat
        BY <1>4, <2>3, <2>4, WaitFacts DEF Admits
      <4> QED BY <2>2, <2>4, <4>1 DEF Transition, AdmitRequest
    <3>2. d.owner = a /\ d.probeUntil = now + Lease
      BY <2>3, <3>1 DEF Circuits
    <3> QED BY <1>1, <2>1, <2>2, <2>4, <3>2 DEF Probe, LiveProbe, Holds
  <2>5. CASE ~mirror[p].active
    BY <2>1, <2>5 DEF Probe, LiveProbe
  <2> QED BY <2>3, <2>4, <2>5
<1> QED BY <1>2, <1>3, <1>4 DEF AdmitMoves

LEMMA ProbesKept == Typed /\ Probes /\ [Next]_vars => Probes'
<1> SUFFICES ASSUME Typed, Probes, [Next]_vars, NEW b \in Attempts PROVE Probe(b)'
  BY DEF Probes
<1> USE Time, CircuitAssumption
<1>1. ASSUME NEW a \in Attempts, NEW p \in Procs, NEW k \in Keys, AdmitMoves(a, p, k) PROVE Probe(b)'
  <2>1. CASE b = a
    BY <1>1, <2>1, AdmittedProbe
  <2>2. CASE b # a
    <3>1. AdmitRequest(a, k).owner # b /\ at'[b] = at[b] /\ now' = now
      <4>1. at \in [Attempts -> AttemptRows]
        BY DEF Typed
      <4>2. \A row : [at EXCEPT ![a] = row][b] = at[b]
        BY <2>2, <4>1
      <4> QED BY <1>1, <2>2, <4>2 DEF AdmitRequest, AdmitMoves
    <3> QED BY <1>1, <3>1, OperationProbes DEF AdmitMoves
  <2> QED BY <2>1, <2>2
<1>2. ASSUME NEW a \in Attempts, NEW out \in Replies, NEW d \in Nat, FinishMoves(a, out, d) PROVE Probe(b)'
  <2>1. CASE b = a
    <3>1. at'[b].pc = "done"
      BY <1>2, <2>1 DEF FinishMoves, Outcome, NewAttempt, Typed
    <3> QED BY <3>1 DEF Probe, LiveProbe
  <2>2. CASE b # a
    <3>1. FinishRequest(a, out, d).owner # b /\ at'[b] = at[b] /\ now' = now /\ at[a].proc \in Procs
      BY <1>2, <2>2 DEF FinishRequest, FinishMoves, Typed
    <3> QED BY <1>2, <3>1, OperationProbes DEF FinishMoves
  <2> QED BY <2>1, <2>2
<1>3. ASSUME NEW p \in Procs, PeekMoves(p) PROVE Probe(b)'
  <2>1. PeekRequest.owner # b /\ at'[b] = at[b] /\ now' = now
    BY <1>3 DEF PeekRequest, PeekMoves
  <2> QED BY <1>3, <2>1, OperationProbes DEF PeekMoves
<1>4. ASSUME NEW p \in Procs, Restart(p) PROVE Probe(b)'
  <2>1. /\ shared' = shared /\ now' = now
        /\ \A q \in Procs : q # p => mirror'[q] = mirror[q] /\ (q \in conn' <=> q \in conn)
    BY <1>4 DEF Restart, Typed
  <2>2. CASE at'[b] = at[b] /\ (at[b].pc = "running" => at[b].proc # p)
    <3> DEFINE q == at[b].proc
    <3>1. Probe(b)
      BY DEF Probes
    <3>2. CASE at[b].pc = "running"
      <4>1. q \in Procs /\ q # p
        BY <2>2, <3>2 DEF Typed
      <4>2. mirror'[q] = mirror[q] /\ (q \in conn' <=> q \in conn)
        BY <2>1, <4>1
      <4> QED BY <2>1, <2>2, <3>1, <4>2 DEF Probe, LiveProbe, Holds
    <3>3. CASE at[b].pc # "running"
      BY <2>1, <2>2, <3>1, <3>3 DEF Probe, LiveProbe, Holds
    <3> QED BY <3>2, <3>3
  <2>3. CASE at[b].pc = "running" /\ at'[b] = [at[b] EXCEPT !.pc = "lost", !.proc = NoProc]
    <3>1. /\ at'[b].pc = "lost" /\ at'[b].by = at[b].by /\ at'[b].probe = at[b].probe
          /\ at'[b].deadline = at[b].deadline /\ at'[b].gen = at[b].gen
      BY <2>3 DEF Typed, AttemptRows
    <3> QED BY <2>1, <2>3, <3>1 DEF Probes, Probe, LiveProbe, Holds
  <2>4. \/ at'[b] = at[b] /\ (at[b].pc = "running" => at[b].proc # p)
        \/ at[b].pc = "running" /\ at'[b] = [at[b] EXCEPT !.pc = "lost", !.proc = NoProc]
    BY <1>4 DEF Restart, Typed
  <2> QED BY <2>2, <2>3, <2>4
<1>5. CASE Tick
  BY <1>5 DEF Tick, Probes, Probe, LiveProbe, Holds, Typed, AttemptRows
<1>6. CASE UNCHANGED vars
  BY <1>6 DEF vars, Probes, Probe, LiveProbe, Holds
<1>7. Steps
  BY NextSteps
<1> QED BY <1>1, <1>2, <1>3, <1>4, <1>5, <1>6, <1>7 DEF Steps

LEMMA ProbesAlways == Spec => []Probes
<1>1. Init => Probes
  BY DEF Init, Probes, Probe, LiveProbe, NewAttempt
<1> QED BY <1>1, TypedAlways, ProbesKept, PTL DEF Spec

LEMMA OneProbe == Typed /\ Probes => OneLiveProbe
<1> SUFFICES ASSUME Typed, Probes, NEW a \in Attempts, NEW b \in Attempts, LiveProbe(a), LiveProbe(b),
                    (at[a].by = "redis" /\ at[b].by = "redis") \/ at[a].proc = at[b].proc
             PROVE  a = b
  BY DEF OneLiveProbe
<1> DEFINE p == at[a].proc
<1>1. Probe(a) /\ Probe(b) /\ at[a].by \in {"redis", "memory"} /\ at[b].by \in {"redis", "memory"} /\ p \in Procs
  BY DEF Probes, Typed, LiveProbe
<1>2. CASE at[a].by = "redis" /\ at[b].by = "redis"
  BY <1>1, <1>2 DEF Probe, LiveProbe, Holds
<1>3. CASE at[a].proc = at[b].proc /\ (at[a].by = "memory" \/ at[b].by = "memory")
  <2>1. p \notin conn
    BY <1>3 DEF Typed, LiveProbe
  <2>2. ASSUME NEW x \in {a, b}, NEW y \in {a, b}, Holds(mirror[p], x), mirror[p].until >= at[y].deadline PROVE FALSE
    <3>1. /\ mirror[p].probeUntil > now /\ mirror[p].until > now /\ Probed(mirror[p])
          /\ mirror[p].until \in Nat /\ mirror[p].probeUntil \in Nat
      BY <2>2, Time DEF Holds, LiveProbe, Typed, Sane, Circuits, AttemptRows
    <3> QED BY <3>1, Time DEF Probed, Typed
  <2> QED BY <1>1, <1>3, <2>1, <2>2 DEF Probe, Holds
<1> QED BY <1>1, <1>2, <1>3

(* At most one recovery probe holds a lease: OneLiveProbe. *)
THEOREM OneLiveProbeAlways == Spec => []OneLiveProbe
  BY TypedAlways, ProbesAlways, OneProbe, PTL

(* The circuit in Redis closes by its own probe alone: RecoveredByProbe. *)
THEOREM RecoveredByProbeAlways == Spec => RecoveredByProbe
<1> DEFINE Recovered ==
      shared.active /\ ~shared'.active =>
         \E a \in Attempts :
            /\ EndsNow(a, "ok") /\ LiveProbe(a) /\ at[a].by = "redis"
            /\ at[a].gen = shared.gen
            /\ \A b \in Attempts \ {a} :
                 at[b].by = "redis" /\ at[b].probe /\ at[b].gen = shared.gen
                    /\ at[b].pc \in {"running", "lost"}
                 => at[b].deadline <= now
<1>1. Typed /\ Probes /\ [Next]_vars => Recovered
  <2> SUFFICES ASSUME Typed, Probes, [Next]_vars, shared.active, ~shared'.active PROVE Recovered
    OBVIOUS
  <2>1. ASSUME NEW p, NEW r, SharedMoves(p, r) \/ LocalMoves(p, r)
        PROVE  p \in conn /\ r.op = "success" /\ Owned(shared, r)
    <3>1. p \in conn /\ Transition(shared, r, shared')
      BY <2>1 DEF SharedMoves, LocalMoves
    <3>2. shared \in Circuits
      BY DEF Typed, Sane
    <3>3. \A o, u : [shared EXCEPT !.owner = o, !.probeUntil = u].active = shared.active
      BY <3>2 DEF Circuits
    <3> QED BY <3>1, <3>3 DEF Transition, Opened
  <2>2. ASSUME NEW a \in Attempts, NEW p \in Procs, NEW k \in Keys, AdmitMoves(a, p, k) PROVE FALSE
    BY <2>1, <2>2 DEF AdmitMoves, AdmitRequest
  <2>3. ASSUME NEW a \in Attempts, NEW out \in Replies, NEW d \in Nat, FinishMoves(a, out, d) PROVE Recovered
    <3> DEFINE r == FinishRequest(a, out, d)
    <3>1. at[a].pc = "running" /\ at[a].proc \in conn /\ r.op = "success" /\ Owned(shared, r)
      BY <2>1, <2>3 DEF FinishMoves
    <3>2. out = "ok"
      BY <3>1 DEF FinishRequest, OpOf, Replies
    <3>3. EndsNow(a, "ok")
      BY <2>3, <3>1, <3>2 DEF EndsNow, FinishMoves, Outcome, NewAttempt, Typed
    <3>4. shared.owner = a /\ shared.gen = at[a].gen /\ shared.probeUntil > now
      BY <3>1 DEF Owned, FinishRequest
    <3>5. at[a].by = "redis"
      BY <3>1 DEF Typed
    <3>6. LiveProbe(a)
      BY <3>1, <3>4, <3>5 DEF Probes, Probe, Holds, LiveProbe
    <3>7. ASSUME NEW b \in Attempts \ {a}, at[b].by = "redis", at[b].probe, at[b].pc \in {"running", "lost"}
          PROVE  at[b].deadline <= now
      BY <3>4, <3>7, Time DEF Probes, Probe, Holds, Typed, AttemptRows
    <3> QED BY <3>3, <3>4, <3>5, <3>6, <3>7
  <2>4. ASSUME NEW p \in Procs, PeekMoves(p) PROVE FALSE
    BY <2>1, <2>4 DEF PeekMoves, PeekRequest
  <2>5. CASE \E p \in Procs : Restart(p)
    BY <2>5 DEF Restart
  <2>6. CASE Tick \/ UNCHANGED vars
    BY <2>6 DEF Tick, vars
  <2>7. Steps
    BY NextSteps
  <2> QED BY <2>2, <2>3, <2>4, <2>5, <2>6, <2>7 DEF Steps
<1>2. Typed /\ Probes /\ [Next]_vars => [Recovered]_vars
  BY <1>1
<1> QED BY <1>2, TypedAlways, ProbesAlways, PTL DEF Spec, RecoveredByProbe

-----------------------------------------------------------------------------
(* Evidence. *)

(* The 429 of attempt b that the shared circuit remembers of key k. *)
Remembered(b, k) ==
    /\ at[b].pc = "done" /\ at[b].out = "429" /\ at[b].key = k /\ at[b].gen = shared.gen
    /\ at[b].ended = shared.fails[k] /\ at[b].ended + at[b].delay <= shared.hint

Evidence == \A k \in Keys : shared.fails[k] # NotSeen => \E b \in Attempts : Remembered(b, k)

(* What a request does to the failures that a circuit remembers. *)
LEMMA FailsMoves ==
  ASSUME now \in 0..MaxTime, NEW c, Sane(c), NEW d, Sane(d), NEW r, Transition(c, r, d)
  PROVE  \/ d.fails = c.fails /\ d.hint = c.hint /\ d.gen = c.gen
         \/ \A k \in Keys : d.fails[k] = NotSeen
         \/ /\ r.op = "failure" /\ r.gen = c.gen /\ d.gen = c.gen /\ d.hint >= now + r.delay
            /\ r.key \in Keys => d.fails[r.key] = now
            /\ \A k \in Keys \ {r.key} : d.fails[k] # NotSeen => d.fails[k] = c.fails[k] /\ d.hint >= c.hint
<1>1. c \in Circuits
  BY DEF Sane
<1>2. CASE d = c \/ \E o, u : d = [c EXCEPT !.owner = o, !.probeUntil = u]
  BY <1>1, <1>2 DEF Circuits
<1>3. CASE \E seconds : Opened(c, d, seconds)
  BY <1>3 DEF Opened
<1>4. CASE d = [Closed EXCEPT !.gen = c.gen + 1]
  BY <1>4 DEF Closed
<1>5. ASSUME r.op = "failure", r.gen = c.gen,
             NEW h \in Nat, NEW recent \in [Keys -> {NotSeen} \cup 0..MaxTime],
             d = [c EXCEPT !.fails = [recent EXCEPT ![r.key] = now], !.hint = h],
             h >= now + r.delay,
             \A k \in Keys : recent[k] # NotSeen => recent[k] = c.fails[k] /\ h >= c.hint
      PROVE  /\ d.gen = c.gen /\ d.hint >= now + r.delay
             /\ r.key \in Keys => d.fails[r.key] = now
             /\ \A k \in Keys \ {r.key} : d.fails[k] # NotSeen => d.fails[k] = c.fails[k] /\ d.hint >= c.hint
  <2>1. d.gen = c.gen /\ d.hint = h /\ d.fails = [recent EXCEPT ![r.key] = now]
    BY <1>1, <1>5 DEF Circuits
  <2> QED BY <1>5, <2>1
<1> QED BY <1>2, <1>3, <1>4, <1>5 DEF Transition

(* An ended attempt stays as it is. *)
LEMMA DoneStays ==
  ASSUME Typed, [Next]_vars, NEW b \in Attempts, at[b].pc = "done"
  PROVE  at'[b] = at[b]
<1> USE DEF Typed
<1>1. ASSUME NEW a \in Attempts, NEW p \in Procs, NEW k \in Keys, AdmitMoves(a, p, k) PROVE at'[b] = at[b]
  <2>1. \A row : [at EXCEPT ![a] = row][b] = at[b]
    BY <1>1 DEF AdmitMoves
  <2> QED BY <1>1, <2>1 DEF AdmitMoves
<1>2. ASSUME NEW a \in Attempts, NEW out \in Replies, NEW d \in Nat, FinishMoves(a, out, d) PROVE at'[b] = at[b]
  BY <1>2 DEF FinishMoves
<1>3. CASE \E p \in Procs : PeekMoves(p) \/ Restart(p)
  BY <1>3 DEF PeekMoves, Restart
<1>4. CASE Tick \/ UNCHANGED vars
  BY <1>4 DEF Tick, vars
<1>5. Steps
  BY NextSteps
<1> QED BY <1>1, <1>2, <1>3, <1>4, <1>5 DEF Steps

LEMMA EvidenceKept == Typed /\ Evidence /\ [Next]_vars => Evidence'
<1> SUFFICES ASSUME Typed, Evidence, [Next]_vars PROVE Evidence'
  OBVIOUS
<1> USE Time, CircuitAssumption
<1>1. ASSUME NEW k \in Keys, shared'.fails[k] = shared.fails[k], shared'.fails[k] # NotSeen,
             shared'.gen = shared.gen, shared'.hint >= shared.hint
      PROVE  \E b \in Attempts : Remembered(b, k)'
  <2>1. PICK b \in Attempts : Remembered(b, k)
    BY <1>1 DEF Evidence
  <2>2. at'[b] = at[b]
    BY <2>1, DoneStays DEF Remembered
  <2>3. at[b].ended \in Nat /\ at[b].delay \in Nat /\ shared.hint \in Nat /\ shared'.hint \in Nat
    <3>1. shared' \in Circuits
      BY TypedKept DEF Typed, Sane
    <3> QED BY <3>1 DEF Typed, AttemptRows, Sane, Circuits
  <2> QED BY <1>1, <2>1, <2>2, <2>3 DEF Remembered
<1>2. CASE shared' = shared
  <2>1. shared.hint \in Nat
    BY DEF Typed, Sane, Circuits
  <2> QED BY <1>1, <1>2, <2>1 DEF Evidence
<1>3. ASSUME NEW p \in Procs, NEW r, SharedMoves(p, r) \/ LocalMoves(p, r), r.op # "failure" PROVE Evidence'
  <2>1. CASE Transition(shared, r, shared')
    <3>1. Sane(shared) /\ Sane(shared') /\ shared.hint \in Nat
      BY <1>2, <1>3 DEF Typed, SharedMoves, LocalMoves, Sane, Circuits
    <3>2. \/ shared'.fails = shared.fails /\ shared'.hint = shared.hint /\ shared'.gen = shared.gen
          \/ \A k \in Keys : shared'.fails[k] = NotSeen
      <4>1. PICK d : d = shared'
        OBVIOUS
      <4> QED BY <1>3, <2>1, <3>1, <4>1, FailsMoves DEF Typed
    <3> QED BY <1>1, <3>1, <3>2 DEF Evidence
  <2> QED BY <1>2, <1>3, <2>1 DEF SharedMoves, LocalMoves
<1>4. ASSUME NEW a \in Attempts, NEW out \in Replies, NEW d \in Nat, FinishMoves(a, out, d) PROVE Evidence'
  <2> DEFINE r == FinishRequest(a, out, d)
  <2>1. /\ at[a].pc = "running" /\ at[a].proc \in Procs /\ at[a].key \in Keys
        /\ SharedMoves(at[a].proc, r) \/ LocalMoves(at[a].proc, r)
    BY <1>4 DEF FinishMoves, Typed
  <2>2. CASE out # "429"
    <3>1. r.op # "failure"
      BY <2>2 DEF FinishRequest, OpOf, Replies
    <3> QED BY <1>3, <2>1, <3>1
  <2>3. CASE out = "429" /\ Transition(shared, r, shared') /\ shared' # shared
    <3>1. Sane(shared) /\ Sane(shared') /\ shared.hint \in Nat /\ shared'.hint \in Nat
      BY <2>1, <2>3 DEF Typed, SharedMoves, LocalMoves, Sane, Circuits
    <3>2. \/ shared'.fails = shared.fails /\ shared'.hint = shared.hint /\ shared'.gen = shared.gen
          \/ \A k \in Keys : shared'.fails[k] = NotSeen
          \/ /\ r.op = "failure" /\ r.gen = shared.gen /\ shared'.gen = shared.gen /\ shared'.hint >= now + r.delay
             /\ r.key \in Keys => shared'.fails[r.key] = now
             /\ \A k \in Keys \ {r.key} :
                  shared'.fails[k] # NotSeen => shared'.fails[k] = shared.fails[k] /\ shared'.hint >= shared.hint
      <4>1. PICK s : s = shared'
        OBVIOUS
      <4> HIDE DEF r
      <4> QED BY <2>3, <3>1, <4>1, FailsMoves DEF Typed
    <3>3. r.key = at[a].key /\ r.gen = at[a].gen /\ r.delay = d
      BY DEF FinishRequest
    <3>4. /\ at'[a].pc = "done" /\ at'[a].out = "429" /\ at'[a].key = at[a].key /\ at'[a].gen = at[a].gen
          /\ at'[a].ended = now /\ at'[a].delay = d
      BY <1>4, <2>3 DEF FinishMoves, Outcome, NewAttempt, Typed
    <3>5. ASSUME NEW k \in Keys, shared'.fails[k] # NotSeen PROVE \E b \in Attempts : Remembered(b, k)'
      <4>1. CASE shared'.fails = shared.fails /\ shared'.hint = shared.hint /\ shared'.gen = shared.gen
        BY <1>1, <3>1, <3>5, <4>1
      <4>2. CASE \A key \in Keys : shared'.fails[key] = NotSeen
        BY <3>5, <4>2
      <4>3. CASE /\ r.gen = shared.gen /\ shared'.gen = shared.gen /\ shared'.hint >= now + d
                 /\ r.key \in Keys => shared'.fails[r.key] = now
                 /\ \A key \in Keys \ {r.key} :
                      shared'.fails[key] # NotSeen => shared'.fails[key] = shared.fails[key] /\ shared'.hint >= shared.hint
        <5>1. CASE k = at[a].key
          <6>1. Remembered(a, k)'
            BY <2>1, <3>3, <3>4, <4>3, <5>1 DEF Remembered
          <6> QED BY <6>1
        <5>2. CASE k # at[a].key
          <6>1. shared'.fails[k] = shared.fails[k] /\ shared'.hint >= shared.hint
            BY <3>3, <3>5, <4>3, <5>2
          <6> QED BY <1>1, <3>5, <4>3, <6>1
        <5> QED BY <5>1, <5>2
      <4> QED BY <3>2, <3>3, <4>1, <4>2, <4>3
    <3> QED BY <3>5 DEF Evidence
  <2> QED BY <1>2, <2>1, <2>2, <2>3 DEF SharedMoves, LocalMoves
<1>5. ASSUME NEW a \in Attempts, NEW p \in Procs, NEW k \in Keys, AdmitMoves(a, p, k) PROVE Evidence'
  BY <1>3, <1>5 DEF AdmitMoves, AdmitRequest
<1>6. ASSUME NEW p \in Procs, PeekMoves(p) PROVE Evidence'
  BY <1>3, <1>6 DEF PeekMoves, PeekRequest
<1>7. CASE (\E p \in Procs : Restart(p)) \/ Tick \/ UNCHANGED vars
  BY <1>2, <1>7 DEF Restart, Tick, vars
<1>8. Steps
  BY NextSteps
<1> QED BY <1>4, <1>5, <1>6, <1>7, <1>8 DEF Steps

LEMMA EvidenceAlways == Spec => []Evidence
<1>1. Init => Evidence
  <2> SUFFICES ASSUME Init PROVE shared.fails = [k \in Keys |-> NotSeen]
    BY DEF Evidence
  <2>1. CASE shared = Closed
    BY <2>1 DEF Closed
  <2>2. CASE shared = [Closed EXCEPT !.gen = 1, !.stage = 1, !.active = TRUE, !.until = Cool]
    BY <2>2 DEF Closed
  <2> QED BY <2>1, <2>2 DEF Init, Found
<1> QED BY <1>1, TypedAlways, EvidenceKept, PTL DEF Spec

(* The circuit opens on evidence of its own generation: OpenedOnEvidence. *)
THEOREM OpenedOnEvidenceAlways == Spec => OpenedOnEvidence
<1> DEFINE Justified ==
      ~shared.active /\ shared'.active =>
         \E a, b \in Attempts :
            /\ EndsNow(a, "429") \/ (EndsNow(a, "503") /\ a = b)
            /\ at'[a].out = "429" =>
                  at'[b].out = "429" /\ at[b].key # at[a].key
                     /\ at'[b].ended > now - Window
            /\ \A x \in {a, b} :
                 at[x].gen = shared.gen /\ shared'.until >= at'[x].ended + at'[x].delay
<1>1. Typed /\ Evidence /\ [Next]_vars => Justified
  <2> SUFFICES ASSUME Typed, Evidence, [Next]_vars, ~shared.active, shared'.active PROVE Justified
    OBVIOUS
  <2> USE Time, CircuitAssumption
  <2>1. ASSUME NEW p, NEW r, SharedMoves(p, r) \/ LocalMoves(p, r)
        PROVE  /\ r.gen = shared.gen /\ Opened(shared, shared', r.delay)
               /\ \/ r.op = "server_failure"
                  \/ /\ r.op = "failure"
                     /\ \E k \in Keys \ {r.key} :
                          shared.fails[k] # NotSeen /\ shared.fails[k] > now - Window /\ shared'.until >= shared.hint
    <3>1. Transition(shared, r, shared')
      BY <2>1 DEF SharedMoves, LocalMoves
    <3>2. shared \in Circuits /\ ~Owned(shared, r)
      BY DEF Typed, Sane, Probed, Owned, Circuits
    <3>3. ~\E f, h : shared' = [shared EXCEPT !.fails = f, !.hint = h]
      BY <3>2 DEF Circuits
    <3>4. shared' # shared
      OBVIOUS
    <3> QED BY <3>1, <3>2, <3>3, <3>4 DEF Transition
  <2>2. ASSUME NEW a \in Attempts, NEW p \in Procs, NEW k \in Keys, AdmitMoves(a, p, k) PROVE FALSE
    BY <2>1, <2>2 DEF AdmitMoves, AdmitRequest
  <2>3. ASSUME NEW a \in Attempts, NEW out \in Replies, NEW d \in Nat, FinishMoves(a, out, d) PROVE Justified
    <3> DEFINE r == FinishRequest(a, out, d)
    <3>1. /\ at[a].pc = "running" /\ at[a].key \in Keys /\ r.gen = at[a].gen /\ r.key = at[a].key
          /\ r.delay = d /\ r.op = OpOf(out)
      BY <2>3 DEF FinishMoves, FinishRequest, Typed
    <3>2. SharedMoves(at[a].proc, r) \/ LocalMoves(at[a].proc, r)
      BY <2>3 DEF FinishMoves
    <3>3. at' = [at EXCEPT ![a] = Outcome(at[a], out, d)]
      BY <2>3 DEF FinishMoves
    <3> HIDE DEF r
    <3>4. /\ at[a].gen = shared.gen /\ shared'.until >= now + d
          /\ \/ r.op = "server_failure"
             \/ /\ r.op = "failure"
                /\ \E k \in Keys \ {at[a].key} :
                     shared.fails[k] # NotSeen /\ shared.fails[k] > now - Window /\ shared'.until >= shared.hint
      BY <2>1, <3>1, <3>2 DEF Opened
    <3>5. CASE r.op = "server_failure"
      <4>1. out = "503"
        BY <3>1, <3>5 DEF OpOf, Replies
      <4>2. at'[a].out = "503" /\ at'[a].ended = now /\ at'[a].delay = d
        BY <3>3, <4>1 DEF Outcome, NewAttempt, Typed
      <4> QED BY <3>1, <3>4, <4>2 DEF EndsNow
    <3>6. CASE r.op = "failure"
      <4>1. out = "429"
        BY <3>1, <3>6 DEF OpOf, Replies
      <4>2. at'[a].out = "429" /\ at'[a].ended = now /\ at'[a].delay = d
        BY <3>3, <4>1 DEF Outcome, NewAttempt, Typed
      <4>3. PICK k \in Keys \ {at[a].key} :
              shared.fails[k] # NotSeen /\ shared.fails[k] > now - Window /\ shared'.until >= shared.hint
        BY <3>4, <3>6
      <4>4. PICK b \in Attempts : Remembered(b, k)
        BY <4>3 DEF Evidence
      <4>5. at'[b] = at[b]
        BY <4>4, DoneStays DEF Remembered
      <4>6. shared'.until >= at'[b].ended + at'[b].delay
        <5>1. shared.hint \in Nat /\ at[b].ended \in Nat /\ at[b].delay \in Nat
          BY DEF Typed, Sane, Circuits, AttemptRows
        <5>2. shared'.until \in Nat
          BY TypedKept DEF Typed, Sane, Circuits
        <5> QED BY <4>3, <4>4, <4>5, <5>1, <5>2 DEF Remembered
      <4>7. EndsNow(a, "429")
        BY <3>1, <4>2 DEF EndsNow
      <4>8. at'[b].out = "429" /\ at[b].key # at[a].key /\ at'[b].ended > now - Window /\ at[b].gen = shared.gen
        BY <4>3, <4>4, <4>5 DEF Remembered
      <4> QED BY <3>4, <4>2, <4>6, <4>7, <4>8
    <3> QED BY <3>4, <3>5, <3>6
  <2>4. ASSUME NEW p \in Procs, PeekMoves(p) PROVE FALSE
    BY <2>1, <2>4 DEF PeekMoves, PeekRequest
  <2>5. CASE (\E p \in Procs : Restart(p)) \/ Tick \/ UNCHANGED vars
    BY <2>5 DEF Restart, Tick, vars
  <2>6. Steps
    BY NextSteps
  <2> QED BY <2>2, <2>3, <2>4, <2>5, <2>6 DEF Steps
<1>2. Typed /\ Evidence /\ [Next]_vars => [Justified]_vars
  BY <1>1
<1> QED BY <1>2, TypedAlways, EvidenceAlways, PTL DEF Spec, OpenedOnEvidence
=============================================================================
