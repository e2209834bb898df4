\* One dispatcher thread, no cache, a backend that may fail any call.
CONSTANTS
    w1 = w1  w2 = w2  p1 = p1  p2 = p2  r1 = r1
    m1 = m1  m2 = m2  m3 = m3  v1 = v1  v2 = v2
    Workers = {w1}
    Procs = {p1}
    ProcOf <- SingleThread
    Resources = {r1}
    MeterOrder <- TwoMapped
    MeterDef <- TwoMappedDef
    DefMetrics <- TwoMappedMetrics
    Vals = {v1, v2}
    NoExtra = NoExtra
    Miss = Miss
    NoWorker = NoWorker
    UseCache = FALSE
    Faults = TRUE
    Ambiguous = FALSE
    MaxBatches = 1
SPECIFICATION Spec
INVARIANT MeterGroupIsolation
CHECK_DEADLOCK FALSE
