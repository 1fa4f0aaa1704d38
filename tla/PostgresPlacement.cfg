SPECIFICATION Spec
CONSTANTS
    Tenants = {t1, t2}
    Ids = {a, b}
    None = None
    Shared = Shared
    RetrySteps = 2
    MaxTenantsPerSharedInstance = 1
    MaxFaults = 1
SYMMETRY Interchangeable
INVARIANTS
    TypeOK
    OneInstancePerTenant
    AssignedIsRegistered
    DedicatedIsExclusive
PROPERTY NoLostTenant
CHECK_DEADLOCK FALSE
