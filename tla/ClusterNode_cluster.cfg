\* Node 1 with two neighbours through every modelled phase of one cycle,
\* every clock offset within threshold and every schedule in time, under
\* fair timer and thread scheduling.  A convergence announcement heard in an
\* election phase either is ignored or moves the node straight to
\* CONSENSUS_CONVERGENCE, so hearing the neighbours up to CONSENSUS_REVELATION
\* cannot delay progress.
CONSTANTS
    MyAddr = 1
    Nbrs = {2, 3}
    Degrees = {1, 2}
    Dates = {1}
    MaxRxSync = 1
    MaxCycles = 1
    MaxSkew = 1
    MaxStage = 7
    Slots = {1}
    NUM_CH_MAX = 4
    NUM_CB_MAX = 4
    Closeness = {TRUE}
    ScheduleResults = {TRUE}
    InitDegrees <- TwoDegrees
SPECIFICATION FairSpec
PROPERTIES ElectionProgress
