\* Two threads on one name; each of metadata and secret changes once.
CONSTANTS
    NULL = NULL
    Threads = {t1, t2}
    Names = {n1}
    TTL = 1
    MaxClock = 2
    MaxVersion = 2
    WithVault = {2}
SPECIFICATION Spec
SYMMETRY Symmetry
CHECK_DEADLOCK FALSE
INVARIANTS
    TypeOK
    BoundedStaleness
    SecretIsNotOlderThanMetadata
    QuietInvalidateIsFinal
