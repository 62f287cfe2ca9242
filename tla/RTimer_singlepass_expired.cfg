\* One callback over one coarse period.
SPECIFICATION Spec
CONSTANTS
    Funcs = {f1}
    NoFunc = NoFunc
    Dates = {1, 2, 3}
    P = 5
    MaxTime = 3
PROPERTIES SinglePassOnArmed
CHECK_DEADLOCK FALSE
