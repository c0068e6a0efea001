\* A user, a worker, two controllers, crashes: the gate drains and stays drained.
SPECIFICATION FairSpec
CONSTANTS
  u1 = u1
  w1 = w1
  c1 = c1
  c2 = c2
  p1 = p1
  p2 = p2
  k1 = k1
  None = None
  Users = {u1}
  Workers = {w1}
  Controllers = {c1, c2}
  Plans = {p1, p2}
  Tasks = {k1}
  MaxCrashes = 1
INVARIANTS QuietOnceDrained OneLateWork
PROPERTIES ImplementsDrainGate PlanFixed DrainCompletes
CHECK_DEADLOCK FALSE
