\* Two ticks, a manual request and a fault: no slot is dropped or pushed twice.
SPECIFICATION Spec
CONSTANTS
  m1 = m1
  s1 = s1
  s2 = s2
  None = None
  Slots = 1
  Manual = {m1}
  Schedulers = {s1, s2}
  MaxFaults = 1
  Env = {}
INVARIANTS TypeOK NoSlotDropped OnePush
PROPERTIES LeaseRespected
SYMMETRY SchedulerSymmetry
CHECK_DEADLOCK FALSE
