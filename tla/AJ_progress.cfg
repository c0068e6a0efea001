\* Retries, failures and a restart: nothing is left behind and every job settles.
SPECIFICATION FairSpec
CONSTANTS
  j1 = j1
  j2 = j2
  k1 = k1
  w1 = w1
  w2 = w2
  web = web
  sched = sched
  NoJob = NoJob
  Keys = {k1}
  KeyOf <- OneKey
  Web = {web}
  Direct = {j1}
  Jobs = {j1}
  Clients = {web, sched}
  Workers = {w1}
  LastSegment = 2
  MaxRetries = 1
  MaxPushes = 1
  MaxCrashes = 1
  Authoritative = FALSE
  Env = {"quota", "exception", "refusal", "idle_gap"}
INVARIANTS DoneHasEveryReport StartedHasOwner RetryPromiseKept
PROPERTIES ActiveSettles NoReportAfterSettling
CHECK_DEADLOCK FALSE
