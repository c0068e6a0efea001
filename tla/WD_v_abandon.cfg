\* The lookup of api.py closes the job of a slot the scheduler still owns.
SPECIFICATION Spec
CONSTANTS
  m1 = m1
  s1 = s1
  s2 = s2
  None = None
  Slots = 1
  Manual = {m1}
  Schedulers = {s1}
  MaxFaults = 1
  Env = {"api_lookup"}
PROPERTIES PendingNotTerminalized
CHECK_DEADLOCK FALSE
