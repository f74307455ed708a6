CONSTANTS
    e1 = e1
    e2 = e2
    Encs = {e1, e2}
    Names = {"tick"}
    Careless = {e1}
    Nobody = Nobody
    MaxStray = 1
    MaxCommands = 1
    MaxInbox = 1
SPECIFICATION Spec
PROPERTY AllTimersAsDocumented
CHECK_DEADLOCK FALSE
