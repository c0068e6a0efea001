SPECIFICATION FairSpec
CONSTANTS
    p1 = p1
    p2 = p2
    Nothing = Nothing
    Partial = Partial
    Publishers = {p1, p2}
    MaxFaults = 2
INVARIANT TypeOK
INVARIANT VisibleIsWhole
INVARIANT ReadsWhole
PROPERTY FailedRestores
PROPERTY IndexHeals
