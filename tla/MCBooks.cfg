CONSTANTS
    Callers = {r1, r2}
    InvoiceIds = {i1}
    Items = {a1, a2}
    Payments = {m1, m2}
    Prices <- Cent
    Amounts <- Cents
    MaxBilled = 6
    Orgs = {a1, a2}
    Users = {u1, u2, u3}
    SystemAdmins = {u3}
    Slugs = {m1, m2}
    MaxAsked = 5
SPECIFICATION BooksSpec
SYMMETRY BooksSymmetry
INVARIANTS TypesOK AmountsAgree StatusAgrees OneOwner
PROPERTIES ClosedStays ChangedByManagers
CHECK_DEADLOCK FALSE
