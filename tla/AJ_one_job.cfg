\* One job of the API, two workers, two pipelines, and every fault inside a run.
SPECIFICATION Spec
CONSTANTS
  j1 = j1
  j2 = j2
  k1 = k1
  w1 = w1
  w2 = w2
  web = web
  sched = sched
  NoJob = NoJob
  Keys = {k1}
  KeyOf <- OneKey
  Web = {web}
  Direct = {}
  Jobs = {j1}
  Clients = {web, sched}
  Workers = {w1, w2}
  LastSegment = 2
  MaxRetries = 1
  MaxPushes = 2
  MaxCrashes = 0
  Authoritative = TRUE
  Env = {"cancel", "quota", "exception", "refusal", "redis_error", "db_error"}
SYMMETRY WorkerSymmetry
INVARIANTS TypeOK ExclusiveRun
PROPERTIES NoStageAfterCancel
CHECK_DEADLOCK FALSE
