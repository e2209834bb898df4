\* InstancePollster and InstanceFlavorPollster over three instances.
\* A generator that has stopped has no next step: deadlock is not an error.
CONSTANTS
    r1 = r1  r2 = r2  r3 = r3
    ResOrder <- Three
    Kinds <- BareKinds
SPECIFICATION Spec
INVARIANT FailureIsolation
CHECK_DEADLOCK FALSE
