CONSTANTS
    a = a
    b = b
    c = c
    Places = {a, b, c}
    Between = Between
    Missions <- MCMissions
    None = None
    MaxOlder = 2
SPECIFICATION FairSpec
INVARIANTS
    TypeOK
    CursorInMission
    FollowsWaypoint
PROPERTIES
    FollowsRoute
    MissionIsFlown
CHECK_DEADLOCK FALSE
