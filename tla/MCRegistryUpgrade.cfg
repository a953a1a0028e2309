\* Two registrations of a name that has a stub.
CONSTANTS
    NULL = NULL
    Platforms = {"kafka"}
    Hosts = {"h1", "h2"}
    Owners = {"o1", "o2"}
    MaxId = 3
    Requests = {q1, q2, q3}
    Calls <- CreateCalls
SPECIFICATION Spec
CHECK_DEADLOCK FALSE
PROPERTIES
    RegistrationIsNotReplaced
