SPECIFICATION FairSpec
CONSTANTS
    Tenants = {t1}
    Specs <- ThreeSpecs
    Defaulted <- PodsDefaulted
    NoLimits = "none"
    None = None
    MaxEdits = 1
    MaxErrors = 1
    MaxCrashes = 0
    MaxPodVersions = 0
PROPERTIES
    Converges
    DeletionCompletes
    KnownNamespaceIsRemoved
    ImplementsLifecycle
CHECK_DEADLOCK FALSE
