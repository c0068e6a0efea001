\* Create, attach, force and cancel requests, and producers beside them, for one key.
SPECIFICATION Spec
CONSTANTS
  j1 = j1
  j2 = j2
  k1 = k1
  w1 = w1
  w2 = w2
  web = web
  sched = sched
  NoJob = NoJob
  Keys = {k1}
  KeyOf <- OneKey
  Web = {web}
  Direct = {j1, j2}
  Jobs = {j1, j2}
  Clients = {web, sched}
  Workers = {w1}
  LastSegment = 1
  MaxRetries = 1
  MaxPushes = 1
  MaxCrashes = 0
  Authoritative = FALSE
  Env = {"force", "cancel", "refusal", "client_crash"}
INVARIANTS OneActivePerKey CancelledWasRequested
PROPERTIES OnlyCancelledRevive ImplementsLifecycle
SYMMETRY JobSymmetry
CHECK_DEADLOCK FALSE
