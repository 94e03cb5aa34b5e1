CONSTANTS
    Accounts = {a1, a2}
    Movements = {m1}
    Requests = {r1}
    Types = {"INCOME", "EXPENSE", "TRANSFER", "ADJUSTMENT"}
    MaxStarted = 5
    NoAccount = NoAccount
    Checks = {c1, c2}
    Member = m
    Organization = o
SPECIFICATION LimitsSpec
SYMMETRY LimitsSymmetry
INVARIANTS AloneLosesNothing LimitsHold
CHECK_DEADLOCK FALSE
