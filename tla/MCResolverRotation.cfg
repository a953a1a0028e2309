\* A rotation and an invalidation while a fetch is under way.
CONSTANTS
    NULL = NULL
    Threads = {t1, t2}
    Names = {n1}
    TTL = 1
    MaxClock = 2
    MaxVersion = 2
    WithVault = {1, 2}
SPECIFICATION Spec
CHECK_DEADLOCK FALSE
INVARIANTS
    InvalidateIsFinal
