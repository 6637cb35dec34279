SPECIFICATION FairSpec
CONSTANTS
    Menus = {"root"}
    Timeout <- MCTimeout
    Execs = {e1, e2}
    NoTime = NoTime
    NoExec = NoExec
    None = None
    Uis = {u1}
    Bindings <- LiveBindings
    MaxDepth = 1
    Budgets <- OneDrain
CHECK_DEADLOCK FALSE
PROPERTIES DrainEnds DetachedUiLeaves PendingResolved ExecutionEnds
