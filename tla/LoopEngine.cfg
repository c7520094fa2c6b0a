SPECIFICATION Spec
CONSTANTS
    p1 = p1
    p2 = p2
    t1 = t1
    t2 = t2
    Pipes <- MCPipes
    ShipTasks <- MCShipTasks
    NoPipe = NoPipe
    Levels <- OnlyL3
    MaxRestarts = 0
    MaxSelfHeals = 1
    MaxScanHeals = 1
    MaxOps = 4
    MaxVer = 2
    Sweeps = FALSE
SYMMETRY Sym
INVARIANTS
    PushedPassedGates
    CompletedMeansPushed
CHECK_DEADLOCK FALSE
