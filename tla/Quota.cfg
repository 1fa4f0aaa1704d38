SPECIFICATION FairSpec
CONSTANTS
    Limits <- FourLimits
    DefaultPods = 10
    None = None
    MaxEdits = 3
    MaxFaults = 2
INVARIANTS
    TypeOK
    QuotaIsOfOneSpec
    MemoryRequestsWithinLimit
PROPERTY LastReconcileSettles
CHECK_DEADLOCK FALSE
