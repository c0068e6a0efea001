\* Two sessions under fair ticks, a deployment and a fault: a row settles in its night.
SPECIFICATION FairSpec
CONSTANTS
  m1 = m1
  t1 = t1
  t2 = t2
  None = None
  Nights = 2
  Manual = {}
  Ticks = {t1}
  MaxAttempts = 2
  MaxFaults = 1
  Requests = FALSE
  Deployments = TRUE
PROPERTIES RowSettles
CHECK_DEADLOCK FALSE
