\* Two collector threads, the activity filter on, failing keystone and Gnocchi.
\* A returned call has no next step: deadlock is not an error.
CONSTANTS
    t1 = t1  t2 = t2  v1 = v1  v2 = v2
    Threads = {t1, t2}
    Ids = {1, 2}
    GnocchiProject = 2
    MeterNames <- Names
    Defs <- Definitions
    DefaultPolicy = DefaultPolicy
    NoPolicy = NoPolicy
    Null = Null
    AttrNames <- Attrs
    Batches <- MixedBatches
    FilterActivity = TRUE
    Faults = TRUE
    None = None
    NoThread = NoThread
SPECIFICATION Spec
INVARIANT FilteredNeverDispatched
INVARIANT ProjectIdLookupOnce
INVARIANT MeterGroupsDistinct
INVARIANT ReconcileLastWriterWins
PROPERTY CallReturns
CHECK_DEADLOCK FALSE
