\* Two callbacks within one coarse period (P > MaxTime, no overflow).
SPECIFICATION Spec
CONSTANTS
    Funcs = {f1, f2}
    NoFunc = NoFunc
    Dates = {1, 2, 3, 4}
    P = 7
    MaxTime = 4
PROPERTIES OneShotSpec
CHECK_DEADLOCK FALSE
