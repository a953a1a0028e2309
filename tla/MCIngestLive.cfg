\* Three requests on a pool of two; transactions may lock each other's rows.
CONSTANTS
    NULL = NULL
    j1 = j1
    j2 = j2
    r1 = r1
    c1 = c1
    c2 = c2
    d1 = d1
    d2 = d2
    m1 = m1
    m2 = m2
    q1 = q1
    q2 = q2
    q3 = q3
    Jobs = {j1, j2}
    RunIds = {r1}
    Conns = {c1, c2}
    Datasets = {d1, d2}
    Times = {1, 2, 3}
    ColMaps = {m1, m2}
    ConnOf <- MCConnOf
    NsTraits <- MCNsTraits
    Events <- LiveEvents
    Registered = {}
    Requests = {q1, q2, q3}
    MaxId = 3
    PoolSize = 2
SPECIFICATION LiveSpec
CHECK_DEADLOCK FALSE
PROPERTIES
    EveryRequestAnswered
