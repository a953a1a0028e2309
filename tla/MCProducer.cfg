\* Two with blocks, a read or a write of one dataset, one call of configure(), one
\* other thread.
CONSTANTS
    NULL = NULL
    j1 = j1
    r1 = r1
    c1 = c1
    d1 = d1
    Jobs = {j1}
    RunIds = {r1}
    Conns = {c1}
    Datasets = {d1}
    Times = {1, 2, 3, 4}
    ColMaps = {}
    ConnOf <- MCConnOf
    NsTraits <- MCNsTraits
    Events = {}
    Registered = {}
    Job = j1
    Run = r1
    MaxEntries = 2
    MaxRecords = 1
    Collectors = {u1, u2}
    Startup <- MCStartup
    NewUrls = {u2}
    Threads = {t1}
    t1 = t1
    u1 = u1
    u2 = u2
SPECIFICATION FairSpec
CHECK_DEADLOCK FALSE
INVARIANTS
    TypeOK
    OutcomeIsShown
    LineageIsRecorded
PROPERTIES
    NeverHeldUp
