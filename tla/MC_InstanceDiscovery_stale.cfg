\* As MC_InstanceDiscovery.cfg, checking the listing is never staler than the period.
CONSTANTS
    i1 = i1  i2 = i2
    Instances = {i1, i2}
    Period = 1
    Day = 3
    MaxTime = 5
    None = None
SPECIFICATION Spec
INVARIANT RefreshWhenDue
