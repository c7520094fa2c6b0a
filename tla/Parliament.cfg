CONSTANTS
    Runs = {r1, r2}
    Members = {m1, m2}
    Solo = solo
    NoRun = NoRun
    Threshold = 3
    Timeout = 1
    Cooldown = 2
    MaxCalls = 2
    CeoRescue = TRUE
SPECIFICATION FairSpec
CHECK_DEADLOCK FALSE
INVARIANTS TypeOK ProbeIsAlive
PROPERTIES RunsEnd Recovers KeepsPromise
