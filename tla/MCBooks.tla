------------------------------- MODULE MCBooks -------------------------------
(* An organization and what it bills, one of the two active in a behaviour,  *)
(* since they share no rows: who may change its members, and the invoices it *)
(* sends.                                                                    *)
EXTENDS Integers, FiniteSets, TLC

CONSTANTS
    Callers,                                    \* requests in progress at once
    InvoiceIds, Items, Payments,                \* Invoices
    Prices, Amounts, MaxBilled,
    Orgs, Users, SystemAdmins, Slugs, MaxAsked  \* Organizations

ASSUME RowsAssumption == IsFiniteSet(Items) /\ IsFiniteSet(Payments)
ASSUME AmountsAssumption == Prices \subseteq Int /\ Amounts \subseteq Int
ASSUME MaxBilledAssumption == MaxBilled \in Nat
ASSUME SystemAdminsAssumption == SystemAdmins \subseteq Users
ASSUME MaxAskedAssumption == MaxAsked \in Nat

VARIABLES
    active,
    invoice, item, payment, amount, billing, billed,            \* Invoices
    crossed, halved,
    org, member, asking, asked, managers                        \* Organizations

IV == INSTANCE Invoices WITH
    Invoices <- InvoiceIds, Requests <- Callers, MaxStarted <- MaxBilled,
    request <- billing, started <- billed, raced <- crossed, torn <- halved
OR == INSTANCE Organizations WITH
    Requests <- Callers, MaxStarted <- MaxAsked, request <- asking, started <- asked

invoices == <<invoice, item, payment, amount, billing, billed, crossed, halved>>
membership == <<org, member, asking, asked, managers>>
books == <<active, invoices, membership>>

\* Without invoices what their rows would be worth makes no difference.
IndifferentAmounts ==
    /\ \A x \in Items : amount[x] = CHOOSE price \in Prices : TRUE
    /\ \A p \in Payments : amount[p] = CHOOSE a \in Amounts : TRUE

BooksInit ==
    /\ active \in {"Invoices", "Organizations"}
    /\ IV!Init /\ OR!Init
    /\ active = "Organizations" => IndifferentAmounts

BooksNext ==
    \/ active = "Invoices" /\ IV!Next /\ UNCHANGED <<active, membership>>
    \/ active = "Organizations" /\ OR!Next /\ UNCHANGED <<active, invoices>>

BooksSpec == BooksInit /\ [][BooksNext]_books

\* Rows and handlers are of their types.
TypesOK == IV!TypeOK /\ OR!TypeOK

\* The derived columns of an invoice count its rows between requests
\* (recalculateInvoiceTotals, updateInvoicePaymentStatus of billing.service.ts).
AmountsAgree == IV!AmountsAgree

\* The status of an invoice tells what was paid (updateInvoicePaymentStatus).
StatusAgrees == IV!StatusAgrees

\* An invoice that was issued keeps its items, a cancelled one stays cancelled
\* (INVOICE_EDITABLE_STATUSES, cancelInvoice).
ClosedStays == IV!ClosedStays

\* An organization has one owner, its creator (organizations.service.ts,
\* memberships.service.ts).
OneOwner == OR!OneOwner

\* Members change at the hand of those who may (PermissionsGuard).
ChangedByManagers == OR!ChangedByManagers

\* An item costs a cent; a payment is of a cent, of nothing, or gives one back.
Cent == {1}
Cents == {-1, 0, 1}

\* Ids are interchangeable; system admins stay apart.  The parts share no rows, so
\* the instance uses the same ids for items and organizations, and for payments
\* and slugs.
BooksSymmetry ==
    Permutations(Callers) \cup Permutations(Items) \cup Permutations(Payments)
    \cup Permutations(Users \ SystemAdmins)
=============================================================================
