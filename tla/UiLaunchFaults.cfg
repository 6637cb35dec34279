SPECIFICATION Spec
CONSTANTS
    Tokens = {t1}
    Scopes = {s1}
    Sessions = {u1}
    Panes = {p1}
    Uis = {c1}
    SupportsCapture = TRUE
    SlowConsumers = TRUE
    MaxDrains = 1
    MaxScopeFailures = 1
    None = None
SYMMETRY Symmetry
CHECK_DEADLOCK FALSE
INVARIANTS PaneLeaseAccounted CaptureAccounted
PROPERTIES PaneSettledOnce
