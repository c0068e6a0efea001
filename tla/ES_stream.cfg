\* A page that leaves and returns, deaths of the worker, a locked database: what it is told is true.
SPECIFICATION FairSpec
CONSTANTS
  p1 = p1
  user = user
  Pages = {p1}
  Impatient = {p1}
  User = user
  MaxProgress = 2
  MaxRetries = 1
  MaxFaults = 2
INVARIANTS ReplayExact TellsTheRow
PROPERTIES EveryPageIsTold
CHECK_DEADLOCK FALSE
