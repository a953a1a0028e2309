\* Two events with facets of one key.
CONSTANTS
    NULL = NULL
    Keys = {"k1"}
    Values = {1, 2}
    Rows = {x1}
    MaxEvents = 2
SPECIFICATION Spec
CHECK_DEADLOCK FALSE
INVARIANTS
    JsonbIsReturnedAsDict
