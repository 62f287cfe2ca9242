\* Node 1, a head, with three neighbours: a bridge's declaration may sum a
\* head pair that does not include node 1.
CONSTANTS
    MyAddr = 1
    Nbrs = {2, 3, 4}
    Degrees = {1}
    Dates = {1}
    MaxRxSync = 1
    MaxCycles = 1
    MaxSkew = 1
    MaxStage = 5
    Slots = {1}
    NUM_CH_MAX = 2
    NUM_CB_MAX = 4
    Closeness = {TRUE}
    ScheduleResults = {TRUE}
    InitDegrees <- LowDegrees
SPECIFICATION Spec
INVARIANTS BridgesLinkPeerHeads
