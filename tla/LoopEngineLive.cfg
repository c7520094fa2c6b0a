SPECIFICATION FairSpec
CONSTANTS
    p1 = p1
    p2 = p2
    t1 = t1
    t2 = t2
    Pipes <- OnePipe
    ShipTasks <- MCShipTasks
    NoPipe = NoPipe
    Levels <- AllLevels
    MaxRestarts = 1
    MaxSelfHeals = 1
    MaxScanHeals = 1
    MaxOps = 3
    MaxVer = 2
    Sweeps = TRUE
INVARIANTS
    TypeOK
PROPERTIES
    SkipStopsLaterShips
    PipelineEnds
    RunningComesToRest
CHECK_DEADLOCK FALSE
