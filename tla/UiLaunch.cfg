SPECIFICATION Spec
CONSTANTS
    Tokens = {t1, t2}
    Scopes = {s1}
    Sessions = {u1, u2}
    Panes = {p1}
    Uis = {c1}
    SupportsCapture = TRUE
    SlowConsumers = FALSE
    MaxDrains = 0
    MaxScopeFailures = 0
    None = None
SYMMETRY Symmetry
CHECK_DEADLOCK FALSE
INVARIANTS TypeOK LaunchBookAgrees RecordOwnsScope ReadyOwnerAlive PendingOwnsScope
PROPERTIES GateSpec
