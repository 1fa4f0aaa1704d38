SPECIFICATION Spec
CONSTANTS
    Tenants = {t1, t2}
    Ids = {a, b}
    None = None
    Shared = Shared
    RetrySteps = 2
    MaxTenantsPerSharedInstance = 1
    MaxFaults = 0
SYMMETRY Interchangeable
INVARIANT CapacityRespected
CHECK_DEADLOCK FALSE
