SPECIFICATION Spec
CONSTANTS
    Menus = {"never", "short", "long"}
    Timeout <- MCTimeout
    Execs = {e1, e2}
    NoTime = NoTime
    NoExec = NoExec
    MaxTime = 7
    MaxDepth = 3
CHECK_DEADLOCK FALSE
INVARIANTS TypeOK DeadlineIsIdleTime OneTimer
PROPERTY DismissedOnlyWhenIdle
