SPECIFICATION FairSpec
CONSTANTS
    Tenants = {t1}
    Specs <- OneSpec
    Defaulted <- PodsDefaulted
    NoLimits = "none"
    None = None
    MaxEdits = 0
    MaxErrors = 0
    MaxCrashes = 0
    MaxPodVersions = 0
PROPERTY NamespaceCleanedUp
CHECK_DEADLOCK FALSE
