SPECIFICATION FairSpec
CONSTANTS
    Tenants = {t1}
    Specs <- OneSpec
    Defaulted <- PodsDefaulted
    NoLimits = "none"
    None = None
    MaxEdits = 0
    MaxErrors = 0
    MaxCrashes = 1
    MaxPodVersions = 3
INVARIANT ReadyIsProvisioned
PROPERTIES
    ReadyIsMeasured
    ReadyPodIsReported
    DeletionCompletes
    ImplementsLifecycle
CHECK_DEADLOCK FALSE
