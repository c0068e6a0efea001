\* Two slots of one key, one tick, one fault: every due slot is settled.
SPECIFICATION FairSpec
CONSTANTS
  m1 = m1
  s1 = s1
  s2 = s2
  None = None
  Slots = 2
  Manual = {}
  Schedulers = {s1}
  MaxFaults = 1
  Env = {}
PROPERTIES DispatchSettles
CHECK_DEADLOCK FALSE
