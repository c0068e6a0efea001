\* Overlapping ticks, requests, a deployment and a fault: no row is dropped or pushed twice.
SPECIFICATION Spec
CONSTANTS
  m1 = m1
  t1 = t1
  t2 = t2
  None = None
  Nights = 1
  Manual = {m1}
  Ticks = {t1, t2}
  MaxAttempts = 1
  MaxFaults = 1
  Requests = TRUE
  Deployments = TRUE
INVARIANTS NoRowDropped OnePush
PROPERTIES InputFixed LeaseRespected BaselineHeld
SYMMETRY TickSymmetry
CHECK_DEADLOCK FALSE
