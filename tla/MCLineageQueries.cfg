\* Graphs of two jobs and three datasets on two connections, one of which may be
\* asked about and deleted.
CONSTANTS
    NULL = NULL
    Jobs = {j1, j2}
    Datasets <- MCDatasets
    Registered = {}
    Events <- MCEvents
    Asked <- MCAsked
    Deletable <- MCDeleted
    Caps = {1, 3}
    MaxAsked = 4
SPECIFICATION Spec
SYMMETRY Symmetry
CHECK_DEADLOCK FALSE
INVARIANTS
    TypeOK
    TraversalIsReachability
    RecursionEnds
    UpstreamMirrorsDownstream
    ViewsAgree
    RelatedIsSymmetric
    SummaryCoversJobs
