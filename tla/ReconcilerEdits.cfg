SPECIFICATION Spec
CONSTANTS
    Tenants = {t1}
    Specs <- ThreeSpecs
    Defaulted <- PodsDefaulted
    NoLimits = "none"
    None = None
    MaxEdits = 2
    MaxErrors = 0
    MaxCrashes = 1
    MaxPodVersions = 0
INVARIANTS
    TypeOK
    ProvisionedAtMostOnce
PROPERTIES
    StatusNeverRegresses
    EditsAreKept
    CreatesUnderFinalizer
CHECK_DEADLOCK FALSE
