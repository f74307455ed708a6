CONSTANTS
    e1 = e1
    e2 = e2
    Encs = {e1, e2}
    Names = {"tick"}
    Careless = {e1}
    Nobody = Nobody
    MaxStray = 1
    MaxCommands = 1
    MaxInbox = 1
SPECIFICATION FairSpec
INVARIANTS
    TypeOK
    OverHoldsNothing
PROPERTIES
    SilentAfterFinish
    TimersAsDocumented
    FinishedLeavesNothing
CHECK_DEADLOCK FALSE
