CONSTANTS
    c1 = c1
    c2 = c2
    t1 = t1
    t2 = t2
    NoTransport = NoTransport
    Clients = {c1}
    Transports = {t1, t2}
    MaxRuns = 2
    MaxStarts = 2
    MaxRestarts = 1
SPECIFICATION FairSpec
INVARIANTS
    TypeOK
    StoppedProtocolIsSilent
    NoAbandonedRun
    DataPlaneOfMission
PROPERTIES
    FollowsDiagram
    StartsAtInitialPosition
    ReturnCompletes
