\* RTIMER_0 with two callbacks over two coarse periods of three ticks.
\* The overflow handler can wait for ever (README, Overflow deadlock), so
\* the system may stop.
SPECIFICATION Spec
CONSTANTS
    Funcs = {f1, f2}
    NoFunc = NoFunc
    Dates = {1, 2, 3, 4, 5, 6}
    P = 3
    MaxTime = 6
INVARIANTS TypeOK
CHECK_DEADLOCK FALSE
