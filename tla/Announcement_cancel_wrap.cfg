\* One node from DISCOVERY to CONNECTION_REVELATION with two polite sends
\* per bump and the intervals of the build.  The 8-bit send_dups is kept.
CONSTANTS
    MaxSendDups = 2
    MaxRecvDups = 2
    PoliteInterval = 4
    DeclIntervals = {4}
    BaInitial = 10
    BaMax = 20
    MacCap = 2
SPECIFICATION Spec
CONSTRAINT MacBound
INVARIANTS CancelSilences
CHECK_DEADLOCK FALSE
