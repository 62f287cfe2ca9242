\* Four nodes in range of each other, in three phases, around a coarse
\* boundary: first contacts, updates in DISCOVERY and in an election phase,
\* records taken without an update, and idle beacons.
CONSTANTS
    Nodes = {1, 2, 3, 4}
    Nbrs <- Full4
    Phase <- Mixed4
    FINE_MAX = 20
    JUMP = 2
    COARSE_OVF = 4
    InitDates = {18, 21}
    MaxTicks = 1
    MaxMsgs = 5
SPECIFICATION Spec
INVARIANTS TypeOK
CHECK_DEADLOCK FALSE
