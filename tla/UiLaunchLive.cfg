SPECIFICATION FairSpec
CONSTANTS
    Tokens = {t1}
    Scopes = {s1}
    Sessions = {u1}
    Panes = {p1}
    Uis = {c1}
    SupportsCapture = TRUE
    SlowConsumers = FALSE
    MaxDrains = 0
    MaxScopeFailures = 1
    None = None
CHECK_DEADLOCK FALSE
PROPERTIES WaiterAnswered AbandonedScopeFreed
