\* One polling task of three pollsters running twelve cycles.
CONSTANTS
    t1 = t1  t2 = t2
    Tasks = {t1}
    None = None
    Pollsters = 3
    MaxCycles = 12
SPECIFICATION Spec
INVARIANT TypeOK
CHECK_DEADLOCK FALSE
