CONSTANTS
    Accounts = {a1, a2}
    Movements = {m1, m2}
    Requests = {r1, r2}
    Types = {"INCOME", "EXPENSE", "TRANSFER", "ADJUSTMENT"}
    MaxStarted = 3
    NoAccount = NoAccount
SPECIFICATION Spec
SYMMETRY Symmetry
INVARIANTS TypeOK BooksBalance TrailAgrees
PROPERTY TerminalStatusKept
CHECK_DEADLOCK FALSE
