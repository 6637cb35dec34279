SPECIFICATION FairSpec
CONSTANTS
    l1 = l1
    l2 = l2
    Leases <- MCLeases
    MaxEnqueues = 4
    MaxHostFailures = 2
CHECK_DEADLOCK FALSE
INVARIANTS EntryOwned OneWorker ForgottenIsReleased
PROPERTIES EntryReleased
