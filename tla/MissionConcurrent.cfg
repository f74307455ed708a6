CONSTANTS
    c1 = c1
    c2 = c2
    t1 = t1
    t2 = t2
    NoTransport = NoTransport
    Clients = {c1, c2}
    Transports = {t1, t2}
    MaxRuns = 2
    MaxStarts = 1
    MaxRestarts = 0
SPECIFICATION Spec
SYMMETRY Symmetry
INVARIANTS
    QuietWhenIdle
    RunInfoAgrees
PROPERTIES
    OutcomesAreFinal
