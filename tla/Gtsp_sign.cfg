\* Two discovering nodes of a line whose dates straddle a coarse boundary:
\* one measures the other across it and marks it synced.
CONSTANTS
    Nodes = {1, 2, 3}
    Nbrs <- Line
    Phase <- AllDiscovery
    FINE_MAX = 20
    JUMP = 2
    COARSE_OVF = 4
    InitDates = {18, 19, 20, 21}
    MaxTicks = 2
    MaxMsgs = 4
SPECIFICATION Spec
INVARIANTS SyncedMeansClose
CHECK_DEADLOCK FALSE
