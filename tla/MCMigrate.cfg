\* Four runs of the script, up to three at once.
CONSTANTS
    Runs = {r1, r2, r3, r4}
    MaxActive = 3
    NFiles = 2
    NStatements <- MCStatements
    Tolerant <- MCTolerant
SPECIFICATION Spec
SYMMETRY Symmetry
CHECK_DEADLOCK FALSE
INVARIANTS
    IndInv
    RecordedIsApplied
    FilesInOrder
    ServesOnCompleteSchema
