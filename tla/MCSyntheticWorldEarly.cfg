SPECIFICATION Spec
CONSTANTS
    None = None
    Days = 90
    Fraction = {0, 2}
    Selections <- NoChange
    MaxHistory = 2
INVARIANTS
    AccountsPrecedeActions
CHECK_DEADLOCK FALSE
