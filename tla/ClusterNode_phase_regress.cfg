\* Node 1 with two neighbours through every modelled phase of one cycle,
\* every clock offset within threshold and every schedule in time.
CONSTANTS
    MyAddr = 1
    Nbrs = {2, 3}
    Degrees = {1, 2}
    Dates = {1}
    MaxRxSync = 1
    MaxCycles = 1
    MaxSkew = 1
    MaxStage = 7
    Slots = {1}
    NUM_CH_MAX = 4
    NUM_CB_MAX = 4
    Closeness = {TRUE}
    ScheduleResults = {TRUE}
    InitDegrees <- TwoDegrees
SPECIFICATION Spec

PROPERTIES PhaseMonotone
