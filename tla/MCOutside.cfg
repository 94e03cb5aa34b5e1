CONSTANTS
    Keys = {k1, k2}
    Keyed = {k1}
    Requests = {r1, r2, r3}
    MayFail = TRUE
    Orgs = {o1}
    Subs = {s1}
    Webhooks = {w1, w2}
    MaxEvents = 4
    MaxStarted = 2
    Events = {e1, e2}
    Trackers = {t1}
    Flushers = {f1, f2}
    MaxBatch = 2
    MaxBuffer = 2
    MaxPushed = 4
SPECIFICATION OutsideSpec
INVARIANTS TakenOnce
PROPERTIES StoresAtMostOnce OldestLostFirstKept EverythingSettles
CHECK_DEADLOCK FALSE
