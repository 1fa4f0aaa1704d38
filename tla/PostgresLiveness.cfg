SPECIFICATION FairSpec
CONSTANTS
    Tenants = {t1, t2}
    Ids = {a, b}
    None = None
    Shared = Shared
    RetrySteps = 2
    MaxTenantsPerSharedInstance = 2
    MaxFaults = 0
PROPERTIES
    DeleteReturns
    AssignedGetsDatabase
    KnownTenantIsRemoved
CHECK_DEADLOCK FALSE
