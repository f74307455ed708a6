CONSTANTS
    p1 = p1
    Peers = {p1}
    FailureThreshold = 3
    RecoveryThreshold = 2
    DetectionInterval = 2
    Timeout = 4
    MaxDue = 2
SPECIFICATION FairSpec
INVARIANT TypeOK
PROPERTIES
    FailureIsEarned
    RecoveryIsCurrent
    SilenceIsNoticed
    ReturnIsNoticed
