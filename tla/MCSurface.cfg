CONSTANTS
    Users = {u, v}
    Requests = {r1, r2}
    Served <- SomeRoutes
    Keys <- AllKeys
    Keyed <- HeaderKeys
    ClientKeys = {k}
    Paths = {p}
    MaxChanges = 1
    MayFail = TRUE
SPECIFICATION SurfaceSpec
SYMMETRY Symmetry
INVARIANTS TypesOK HandledWithPermission LocksHold PermissionsHold BlocksHold
CHECK_DEADLOCK FALSE
