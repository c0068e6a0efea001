SPECIFICATION Spec
CONSTANTS
    p1 = p1
    p2 = p2
    a1 = a1
    a2 = a2
    k1 = k1
    k2 = k2
    NoOwner = NoOwner
    NoProc = NoProc
    NoKey = NoKey
    Procs = {p1, p2}
    Attempts = {a1, a2}
    Keys = {k1, k2}
    Delays = {3}
    Jitters = {0}
    Cool = 2
    Cap = 4
    ReleaseWait = 1
    Window = 2
    Lease = 2
    MaxStage = 1
    MaxTime = 4
    MaxRestarts = 1
    Faults = {"redis_loss"}
SYMMETRY CallSymmetry
INVARIANT OneLiveProbe
PROPERTY RecoveredByProbe
PROPERTY OpenedOnEvidence
PROPERTY CooldownNeverShortened
