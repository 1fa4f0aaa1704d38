SPECIFICATION FairSpec
CONSTANTS
    Replicas = {r1, r2, r3}
    None = None
    Stale = Stale
    MaxFaults = 1
INVARIANTS
    TypeOK
    RaceIsLostOncePerObject
    DoneMeansShared
PROPERTIES
    OneManagerRemains
    OperatorComesUp
CHECK_DEADLOCK FALSE
