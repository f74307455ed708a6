CONSTANTS
    t1 = t1
    t2 = t2
    t3 = t3
    Trips = {t1, t2, t3}
    None = None
    Intervals = {0, 3}
    MaxRows = 4
SPECIFICATION FairSpec
INVARIANTS
    TypeOK
    LossIsCapped
PROPERTIES
    WalksInFull
    SamplingGoesOn
CHECK_DEADLOCK FALSE
