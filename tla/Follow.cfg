CONSTANTS
    l1 = l1
    l2 = l2
    f1 = f1
    Leaders = {l1, l2}
    Followers = {f1}
    Unsteady = {l2}
    None = None
    Elsewhere = Elsewhere
    FollowerTimeout = 2
    LeaderTimeout = 2
    ScanEvery = 1
    MaxLate = 1
SPECIFICATION FairSpec
INVARIANTS
    TypeOK
    FollowsAvailable
PROPERTIES
    FollowersSettle
    FollowersArrive
CHECK_DEADLOCK FALSE
