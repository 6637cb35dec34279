SPECIFICATION FairSpec
CONSTANTS
    l1 = l1
    l2 = l2
    Leases <- MCLeases
    UserModes = {"Normal"}
    None = None
    LeaseTicks = 2
    Budgets <- Disturbed
CHECK_DEADLOCK FALSE
INVARIANTS GivenBack LossReported
PROPERTIES SilenceReleases
