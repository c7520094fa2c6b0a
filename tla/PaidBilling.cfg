CONSTANTS
    Tasks = {t1, t2, t3}
    Sessions = {s1, s2}
    Refs = {p1}
    None = None
    Requests = {"completed", "ended", "poll"}
    Referred = TRUE
    Policies = {}
    Default = "migrate_back"
    MaxAttempts = 1
    MaxFaults = 1
SPECIFICATION Spec
SYMMETRY Symmetric
CHECK_DEADLOCK FALSE
INVARIANTS PaidIsBacked RewardedOnce
