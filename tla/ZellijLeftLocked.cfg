SPECIFICATION Spec
CONSTANTS
    l1 = l1
    l2 = l2
    Leases <- MCLeases
    UserModes = {"Normal"}
    None = None
    LeaseTicks = 2
    Budgets <- Undisturbed
SYMMETRY Symmetry
CHECK_DEADLOCK FALSE
INVARIANTS NotLeftLocked
