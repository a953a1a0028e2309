\* Five projects of two to four files.
CONSTANTS
    NULL = NULL
    Platforms = {"postgresql", "mysql", "oracle", "kafka", "redis", "mongodb", "s3", "iceberg", "trino", "clickhouse"}
    Hosts = {"h1", "h2", "h3"}
    Owners = {}
    Calls = {}
    Projects <- MCProjects
    Home <- MCHome
    SourceLike = {"raw_txn"}
SPECIFICATION Spec
CHECK_DEADLOCK FALSE
INVARIANTS
    TypeOK
    FirstFindingIsKept
    FailuresStayLocal
    NamespacesAreConnections
    PushSettles
