CONSTANTS
    Orgs = {o1}
    Subs = {s1, s2}
    Requests = {r1, r2}
    MaxEvents = 3
    MaxStarted = 3
    MayFail = TRUE
SPECIFICATION Spec
INVARIANTS MirrorsStripe AccessFollowsPayment PortalShowsSubscription
PROPERTIES HandledOnce
CHECK_DEADLOCK FALSE
