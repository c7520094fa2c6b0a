CONSTANTS
    Workers = {w1, w2}
    Reqs = {r1, r2}
    Clients = {c1}
    MaxConnects = 2
    MaxDrops = 1
    MaxLeft = 1
    MaxFaults = 1
SPECIFICATION Spec
SYMMETRY Symmetric
CHECK_DEADLOCK FALSE
INVARIANTS TypeOK OneRevertUnlessRaced EndIsTrue
PROPERTIES HeldWhileInFlight
