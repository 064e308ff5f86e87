SPECIFICATION Spec
CONSTANTS
    Processes = {p, q}
    p = p
    q = q
    Nobody = Nobody
    MaxCrashes = 2
    MaxFailures = 2
    MaxDamages = 1
    MaxSlow = 1
INVARIANTS TypeOK NeverHalf
PROPERTIES InstallKept Served
