SPECIFICATION Spec
CONSTANTS
    Menus = {"root"}
    Timeout <- MCTimeout
    Execs = {e1, e2}
    NoTime = NoTime
    NoExec = NoExec
    None = None
    Uis = {u1}
    Bindings <- AllBindings
    MaxDepth = 2
    Budgets <- OneFault
SYMMETRY ExecSymmetry
CHECK_DEADLOCK FALSE
INVARIANTS IndexedIsAwaited ReservationHasOwner GoneUiReleased ChildrenRegistered ReportIsFinal
PROPERTIES CancelFollowsPolicy
