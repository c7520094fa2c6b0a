SPECIFICATION Spec
CONSTANTS
    w1 = w1
    w2 = w2
    e1 = e1
    e2 = e2
    e3 = e3
    r1 = r1
    r2 = r2
    Workers <- MCWorkers
    Engines <- MCEngines
    Requests <- MCRequests
    NoEngine = NoEngine
    First = w1
    MaxCrashes = 0
INVARIANTS
    OnlyTheWinnerPushes
CHECK_DEADLOCK FALSE
