CONSTANTS
    Letters = {l1}
    UsageIds = {u1, u2}
    Requests = {r1}
    Orgs = {"org"}
    MaxQuantity = 2
    MayFail = FALSE
    MaxStarted = 7
SPECIFICATION Spec
INVARIANTS RemainingTracksUsages
CHECK_DEADLOCK FALSE
