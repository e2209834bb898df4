\* Two threads of one process without memcached; meters mapped, ignored and unmapped; a backend that fails, and applies updates it reports as failed.
CONSTANTS
    w1 = w1  w2 = w2  p1 = p1  p2 = p2  r1 = r1
    m1 = m1  m2 = m2  m3 = m3  v1 = v1  v2 = v2
    Workers = {w1, w2}
    Procs = {p1}
    ProcOf <- OneProcess
    Resources = {r1}
    MeterOrder <- MixedMeters
    MeterDef <- MixedDef
    DefMetrics <- MixedMetrics
    Vals = {v1, v2}
    NoExtra = NoExtra
    Miss = Miss
    NoWorker = NoWorker
    UseCache = FALSE
    Faults = TRUE
    Ambiguous = TRUE
    MaxBatches = 1
SPECIFICATION Spec
INVARIANT TypeOK
INVARIANT NoRetryFailure
CHECK_DEADLOCK FALSE
