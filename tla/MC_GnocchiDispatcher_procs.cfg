\* One dispatcher thread in each of two processes sharing memcached; clean errors.
CONSTANTS
    w1 = w1  w2 = w2  p1 = p1  p2 = p2  r1 = r1
    m1 = m1  m2 = m2  m3 = m3  v1 = v1  v2 = v2
    Workers = {w1, w2}
    Procs = {p1, p2}
    ProcOf <- TwoProcesses
    Resources = {r1}
    MeterOrder <- TwoMapped
    MeterDef <- TwoMappedDef
    DefMetrics <- TwoMappedMetrics
    Vals = {v1, v2}
    NoExtra = NoExtra
    Miss = Miss
    NoWorker = NoWorker
    UseCache = TRUE
    Faults = FALSE
    Ambiguous = FALSE
    MaxBatches = 1
SPECIFICATION Spec
INVARIANT CacheCoherent
CHECK_DEADLOCK FALSE
