SPECIFICATION FairSpec
CONSTANTS
    Tenants = {t1}
    Specs <- ThreeSpecs
    Defaulted <- PodsDefaulted
    NoLimits = "none"
    None = None
    MaxEdits = 1
    MaxErrors = 0
    MaxCrashes = 0
    MaxPodVersions = 0
PROPERTY DatabaseGetsAssigned
CHECK_DEADLOCK FALSE
