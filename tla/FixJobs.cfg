CONSTANTS
    Workers = {w1, w2}
    MaxJobs = 2
    MaxRequests = 3
    f1 = f1
    f2 = f2
    Findings = {f1, f2}
    Ids = {f1, f2}
    IdOf <- OwnIds
    Unnamed = {f2}
    Batches <- SomeBatches
    Cap = 2
    MaxAttempts = 2
    MaxFaults = 1
    NoRow = NoRow
    NoOne = NoOne
SPECIFICATION Spec
SYMMETRY Symmetric
CHECK_DEADLOCK FALSE
INVARIANTS TypeOK NoDoubleCharge DoneMeansHandled QuotaHolds RunningRowIsOwned
PROPERTIES SupersededStays
