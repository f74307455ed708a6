CONSTANTS
    n1 = n1
    n2 = n2
    n3 = n3
    v1 = v1
    v2 = v2
    NoNode = NoNode
    Null = Null
    Cleared = Cleared
    Nodes = {n1, n2, n3}
    Contenders = {n1, n2, n3}
    Values = {v1, v2}
    Modes = {"classic"}
    DetectorConfigured = TRUE
    MaxTerm = 2
    MaxNumber = 1
    MaxFailed = 0
    MaxOutages = 0
    MaxMessages = 14
SPECIFICATION Spec
CONSTRAINT FewMessages
SYMMETRY Symmetry
INVARIANTS
    Agreement
