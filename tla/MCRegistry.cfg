\* Four calls of every kind on one name.
CONSTANTS
    NULL = NULL
    Platforms = {"kafka"}
    Hosts = {"h1", "h2"}
    Owners = {"o1", "o2"}
    MaxId = 4
    Requests = {q1, q2, q3, q4}
    Calls <- AllCalls
SPECIFICATION Spec
SYMMETRY Symmetry
CHECK_DEADLOCK FALSE
INVARIANTS
    TypeOK
    LogIsHistory
    AnswerMatchesAudit
    BeforeWasShown
PROPERTIES
    UpdateKeepsOtherColumns
    DeletedRowIsFrozen
    HalfUpdatesBreakTheRule
    ImplementsAtomicRegistry
