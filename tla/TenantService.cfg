SPECIFICATION FairSpec
CONSTANTS
    ReadinessDelay = 5
    ReadinessPeriod = 3
    ReadinessThreshold = 3
    LivenessDelay = 15
    LivenessPeriod = 10
    LivenessThreshold = 3
    MaxBackoff = 1
INVARIANTS
    TypeOK
    ReadyIsRecent
PROPERTIES
    KilledOnlyAfterTrouble
    RecoversFromOutage
