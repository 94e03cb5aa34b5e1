CONSTANTS
    Orgs = {o1}
    Subs = {s1}
    Requests = {r1}
    MaxEvents = 1
    MaxStarted = 1
    MayFail = TRUE
SPECIFICATION Spec
INVARIANTS FailedEventsAreReleased
CHECK_DEADLOCK FALSE
