\* Two polling tasks of different intervals, as green threads of one agent.
CONSTANTS
    t1 = t1  t2 = t2
    Tasks = {t1, t2}
    None = None
    Pollsters = 2
    MaxCycles = 2
SPECIFICATION Spec
INVARIANT FreshFailure
CHECK_DEADLOCK FALSE
