\* Runs one after the other, each of which may be killed.
CONSTANTS
    Runs = {r1, r2, r3}
    MaxActive = 1
    NFiles = 2
    NStatements <- MCStatements
    Tolerant <- MCTolerant
SPECIFICATION Spec
CHECK_DEADLOCK FALSE
INVARIANTS
    LaterRunsSucceed
