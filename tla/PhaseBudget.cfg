SPECIFICATION FairSpec
CONSTANTS
    Phases = 4
    Budget <- MCBudget
    Backoff = 1
    MaxRestarts = 1
    StaleAfter = 9
    Lag = 1
INVARIANTS
    TypeOK
    ReaperSparesPhases
    PhaseIsBounded
PROPERTIES
    RunningComesToRest
