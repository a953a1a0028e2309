\* Three events of two jobs that lock the same rows in opposite orders, or three
\* of one run, in any order, duplicated or late.
CONSTANTS
    NULL = NULL
    j1 = j1
    j2 = j2
    r1 = r1
    c1 = c1
    c2 = c2
    d1 = d1
    d2 = d2
    m1 = m1
    m2 = m2
    q1 = q1
    q2 = q2
    q3 = q3
    Jobs = {j1, j2}
    RunIds = {r1}
    Conns = {c1, c2}
    Datasets = {d1, d2}
    Times = {1, 2, 3}
    ColMaps = {m1, m2}
    ConnOf <- MCConnOf
    NsTraits <- MCNsTraits
    Events <- AllEvents
    Registered = {c1}
    Requests = {q1, q2, q3}
    MaxId = 3
    PoolSize = 2
SPECIFICATION SafetySpec
SYMMETRY Symmetry
CHECK_DEADLOCK FALSE
INVARIANTS
    IndInv
    AnswerTruthful
    ReplayMatchesTables
    RunRowSummarisesEvents
PROPERTIES
    ImplementsAtomicIngest
    ConflictsCommitInIdOrder
