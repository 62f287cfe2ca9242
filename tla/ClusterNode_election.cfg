CONSTANTS
    MyAddr = 1
    Nbrs = {2, 3, 4}
    Degrees = {2, 3}
    Dates = {1}
    MaxRxSync = 1
    MaxCycles = 1
    MaxSkew = 1
    MaxStage = 3
    Slots = {1}
    NUM_CH_MAX = 2
    NUM_CB_MAX = 4
    Closeness = {TRUE}
    ScheduleResults = {TRUE}
    InitDegrees <- ElectionDegrees
SPECIFICATION Spec
INVARIANTS TypeOK HeadListTopK
