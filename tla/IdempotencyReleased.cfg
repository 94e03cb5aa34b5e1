CONSTANTS
    Keys = {k1}
    Keyed = {k1}
    Requests = {r1, r2}
    MayFail = FALSE
SPECIFICATION Spec
PROPERTIES FailureReleasesLock
CHECK_DEADLOCK FALSE
