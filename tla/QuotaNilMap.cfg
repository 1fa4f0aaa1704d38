SPECIFICATION FairSpec
CONSTANTS
    Limits <- TwoLimits
    DefaultPods = 10
    None = None
    MaxEdits = 2
    MaxFaults = 0
PROPERTIES
    QuotaFollowsSpec
CHECK_DEADLOCK FALSE
