------------------------------ MODULE Invoices ------------------------------
(***************************************************************************)
(* Invoices, their items and their payments:                               *)
(* modules/billing/billing.service.ts.                                     *)
(*                                                                         *)
(* totalAmount, paidAmount, balanceDue and, after payments, the status are *)
(* derived columns: each handler changes items or payments first and then  *)
(* reads them all back and rewrites the invoice.  The statements of two    *)
(* handlers interleave; one action is one statement.                       *)
(*                                                                         *)
(* A column is modelled by what was added up to get it: the items counted  *)
(* in the total, the payments counted as paid, and both for the balance.   *)
(* An amount comes from the body of a request and is a string nothing      *)
(* checks (create-payment.dto.ts:10): it may be zero or negative.  It is   *)
(* in cents, as the columns keep it (numeric with scale 2), and small      *)
(* enough for a double to hold them; what is no number is left out, and so *)
(* are the columns updateInvoice edits and the audit rows.                 *)
(***************************************************************************)
EXTENDS Integers, FiniteSets, Functions

CONSTANTS
    Invoices,       \* ids of invoices
    Items,          \* ids of invoice items
    Payments,       \* ids of payments
    Prices,         \* bound: what an item may be inserted with, tax included
    Amounts,        \* bound: what a payment may be inserted with
    Requests,       \* requests in progress at once
    MaxStarted      \* bound: requests that are more than one statement

VARIABLES
    invoice,    \* invoice[i]: the row, Absent or Gone
    item,       \* item[x]: the row, Absent or Gone
    payment,    \* payment[p]: the row or Absent
    amount,     \* amount[x]: what the item or payment x is inserted with; no
                \* statement changes it
    request,    \* request[r]: the handler r runs
    started,    \* requests begun, for the bound
    raced,      \* history: invoices two requests handled at once
    torn        \* history: <<invoice, part>> whose rows changed without the
                \* invoice being recalculated, because the handler died

vars == <<invoice, item, payment, amount, request, started, raced, torn>>

Absent == [row |-> "absent"]
Gone == [row |-> "gone"]        \* deleted; ids are never used again
Idle == [pc |-> "idle"]

\* CREDITED, SENT and OVERDUE are in the enumeration and never written.
Statuses == {"DRAFT", "ISSUED", "PARTIALLY_PAID", "PAID", "CANCELLED"}
PaymentStatuses == {"PENDING", "CONFIRMED", "CANCELLED"}
Balance == [total : SUBSET Items, paid : SUBSET Payments]
InvoiceRow == [status : Statuses, total : SUBSET Items, paid : SUBSET Payments,
               due : Balance]
ItemRow == [of : Invoices]
PaymentRow == [of : Invoices, status : PaymentStatuses]
Parts == {"items", "payments"}
Running ==
    [pc : {"delete", "issue", "cancel", "insertItem", "readItems",
           "insertPayment", "readInvoice"}, i : Invoices]
    \cup [pc : {"deleteItem"}, i : Invoices, x : Items]
    \cup [pc : {"writeTotals"}, i : Invoices, total : SUBSET Items]
    \cup [pc : {"confirmPayment"}, i : Invoices, p : Payments]
    \cup [pc : {"cancelPayment"}, i : Invoices, p : Payments, seen : PaymentStatuses]
    \cup [pc : {"readPayments"}, i : Invoices, status : Statuses, total : SUBSET Items]
    \cup [pc : {"writePaid"}, i : Invoices, status : Statuses, total : SUBSET Items,
          paid : SUBSET Payments]

TypeOK ==
    /\ invoice \in [Invoices -> InvoiceRow \cup {Absent, Gone}]
    /\ item \in [Items -> ItemRow \cup {Absent, Gone}]
    /\ payment \in [Payments -> PaymentRow \cup {Absent}]
    /\ amount \in [Items \cup Payments -> Prices \cup Amounts]
    /\ request \in [Requests -> Running \cup {Idle}]
    /\ started \in 0..MaxStarted
    /\ raced \subseteq Invoices
    /\ torn \subseteq Invoices \X Parts

Init ==
    /\ invoice = [i \in Invoices |-> Absent]
    /\ item = [x \in Items |-> Absent]
    /\ payment = [p \in Payments |-> Absent]
    /\ amount \in [Items \cup Payments -> Prices \cup Amounts]
    /\ \A x \in Items : amount[x] \in Prices
    /\ \A p \in Payments : amount[p] \in Amounts
    /\ request = [r \in Requests |-> Idle]
    /\ started = 0
    /\ raced = {} /\ torn = {}

Exists(i) == invoice[i] \notin {Absent, Gone}
ItemsOf(i) == {x \in Items : item[x] = [of |-> i]}
PaymentsOf(i) == {p \in Payments : payment[p] # Absent /\ payment[p].of = i}
Confirmed(i) == {p \in PaymentsOf(i) : payment[p].status = "CONFIRMED"}

At(r, pc) == request[r].pc = pc
Goto(r, record) == request' = [request EXCEPT ![r] = record]
Handling(r, i) == request[r] # Idle /\ request[r].i = i

Begin(r, i, record) ==
    /\ request[r] = Idle
    /\ started < MaxStarted
    /\ started' = started + 1
    /\ Goto(r, record)
    /\ raced' = IF \E q \in Requests : Handling(q, i) THEN raced \cup {i} ELSE raced
    /\ UNCHANGED <<invoice, item, payment, torn>>

(***************************************************************************)
(* Invoices.                                                               *)
(***************************************************************************)

CreateInvoice(i) ==
    /\ invoice[i] = Absent
    /\ invoice' = [invoice EXCEPT ![i] =
                     [status |-> "DRAFT", total |-> {}, paid |-> {},
                      due |-> [total |-> {}, paid |-> {}]]]
    /\ UNCHANGED <<item, payment, request, started, raced, torn>>

\* INVOICE_EDITABLE_STATUSES
Editable(i) == Exists(i) /\ invoice[i].status = "DRAFT"

\* Fault: every invoice that is not cancelled can be deleted.
BeginDeleteAny(r, i) ==
    /\ Exists(i) /\ invoice[i].status # "CANCELLED"
    /\ Begin(r, i, [pc |-> "delete", i |-> i])

BeginDelete(r, i) == Editable(i) /\ Begin(r, i, [pc |-> "delete", i |-> i])

\* Items go with their invoice; the foreign key of the payments refuses.
Delete(r) ==
    LET i == request[r].i IN
    /\ At(r, "delete")
    /\ IF PaymentsOf(i) # {} \/ ~Exists(i) THEN UNCHANGED <<invoice, item>>
       ELSE /\ invoice' = [invoice EXCEPT ![i] = Gone]
            /\ item' = [x \in Items |-> IF x \in ItemsOf(i) THEN Gone ELSE item[x]]
    /\ Goto(r, Idle)
    /\ UNCHANGED <<payment, started, raced, torn>>

\* Fault: a cancelled invoice can be issued again.
BeginIssueCancelled(r, i) ==
    /\ Exists(i) /\ invoice[i].status \in {"DRAFT", "CANCELLED"}
    /\ Begin(r, i, [pc |-> "issue", i |-> i])

BeginIssue(r, i) == Editable(i) /\ Begin(r, i, [pc |-> "issue", i |-> i])

BeginCancel(r, i) ==
    /\ Exists(i)
    /\ invoice[i].status # "CANCELLED"
    /\ Begin(r, i, [pc |-> "cancel", i |-> i])

\* updateInvoice by id: nothing happens if the row is gone.
WriteStatus(r, pc, status) ==
    LET i == request[r].i IN
    /\ At(r, pc)
    /\ invoice' = IF Exists(i) THEN [invoice EXCEPT ![i].status = status] ELSE invoice
    /\ Goto(r, Idle)
    /\ UNCHANGED <<item, payment, started, raced, torn>>

\* Fault: a status that is not in the enumeration.
IssueMisspelt(r) == WriteStatus(r, "issue", "ISSUE")

Issue(r) == WriteStatus(r, "issue", "ISSUED")
Cancel(r) == WriteStatus(r, "cancel", "CANCELLED")

(***************************************************************************)
(* Items.                                                                  *)
(***************************************************************************)

BeginAddItem(r, i) == Editable(i) /\ Begin(r, i, [pc |-> "insertItem", i |-> i])

\* The insert fails, and with it the request, when the invoice is gone.
InsertItem(r, x) ==
    LET i == request[r].i IN
    /\ At(r, "insertItem")
    /\ item[x] = Absent
    /\ IF Exists(i)
       THEN item' = [item EXCEPT ![x] = [of |-> i]] /\ Goto(r, [pc |-> "readItems", i |-> i])
       ELSE item' = item /\ Goto(r, Idle)
    /\ UNCHANGED <<invoice, payment, started, raced, torn>>

BeginRemoveItem(r, i, x) ==
    /\ Editable(i)
    /\ x \in ItemsOf(i)
    /\ Begin(r, i, [pc |-> "deleteItem", i |-> i, x |-> x])

DeleteItem(r) ==
    LET q == request[r] IN
    /\ At(r, "deleteItem")
    /\ item' = [item EXCEPT ![q.x] = Gone]
    /\ Goto(r, [pc |-> "readItems", i |-> q.i])
    /\ UNCHANGED <<invoice, payment, started, raced, torn>>

\* recalculateInvoiceTotals
ReadItems(r) ==
    LET i == request[r].i IN
    /\ At(r, "readItems")
    /\ Goto(r, [pc |-> "writeTotals", i |-> i, total |-> ItemsOf(i)])
    /\ UNCHANGED <<invoice, item, payment, started, raced, torn>>

\* Fault: the balance is left as it was.
WriteTotalsOnly(r) ==
    LET q == request[r] IN
    /\ At(r, "writeTotals")
    /\ invoice' = IF ~Exists(q.i) THEN invoice
                  ELSE [invoice EXCEPT ![q.i].total = q.total]
    /\ Goto(r, Idle)
    /\ torn' = torn \ {<<q.i, "items">>}
    /\ UNCHANGED <<item, payment, started, raced>>

\* The balance becomes the whole total: payments are not subtracted.
WriteTotals(r) ==
    LET q == request[r] IN
    /\ At(r, "writeTotals")
    /\ invoice' = IF ~Exists(q.i) THEN invoice
                  ELSE [invoice EXCEPT ![q.i].total = q.total,
                                       ![q.i].due = [total |-> q.total, paid |-> {}]]
    /\ Goto(r, Idle)
    /\ torn' = torn \ {<<q.i, "items">>}
    /\ UNCHANGED <<item, payment, started, raced>>

(***************************************************************************)
(* Payments.                                                               *)
(***************************************************************************)

BeginCreatePayment(r, i) ==
    /\ Exists(i)
    /\ invoice[i].status # "CANCELLED"
    /\ Begin(r, i, [pc |-> "insertPayment", i |-> i])

InsertPayment(r, p) ==
    LET i == request[r].i IN
    /\ At(r, "insertPayment")
    /\ payment[p] = Absent
    /\ payment' = IF Exists(i)
                  THEN [payment EXCEPT ![p] = [of |-> i, status |-> "PENDING"]]
                  ELSE payment
    /\ Goto(r, Idle)
    /\ UNCHANGED <<invoice, item, started, raced, torn>>

BeginConfirmPayment(r, p) ==
    /\ payment[p] # Absent
    /\ payment[p].status = "PENDING"
    /\ Begin(r, payment[p].of, [pc |-> "confirmPayment", i |-> payment[p].of, p |-> p])

ConfirmPayment(r) ==
    LET q == request[r] IN
    /\ At(r, "confirmPayment")
    /\ payment' = [payment EXCEPT ![q.p].status = "CONFIRMED"]
    /\ Goto(r, [pc |-> "readInvoice", i |-> q.i])
    /\ UNCHANGED <<invoice, item, started, raced, torn>>

BeginCancelPayment(r, p) ==
    /\ payment[p] # Absent
    /\ payment[p].status # "CANCELLED"
    /\ Begin(r, payment[p].of, [pc |-> "cancelPayment", i |-> payment[p].of, p |-> p,
                                seen |-> payment[p].status])

CancelPayment(r) ==
    LET q == request[r] IN
    /\ At(r, "cancelPayment")
    /\ payment' = [payment EXCEPT ![q.p].status = "CANCELLED"]
    /\ Goto(r, IF q.seen = "CONFIRMED" THEN [pc |-> "readInvoice", i |-> q.i] ELSE Idle)
    /\ UNCHANGED <<invoice, item, started, raced, torn>>

\* updateInvoicePaymentStatus: an invoice with payments is never deleted.
ReadInvoice(r) ==
    LET i == request[r].i IN
    /\ At(r, "readInvoice")
    /\ Goto(r, [pc |-> "readPayments", i |-> i, status |-> invoice[i].status,
                total |-> invoice[i].total])
    /\ UNCHANGED <<invoice, item, payment, started, raced, torn>>

ReadPayments(r) ==
    LET q == request[r] IN
    /\ At(r, "readPayments")
    /\ Goto(r, [pc |-> "writePaid", i |-> q.i, status |-> q.status, total |-> q.total,
                paid |-> Confirmed(q.i)])
    /\ UNCHANGED <<invoice, item, payment, started, raced, torn>>

\* What rows are worth together.
Value(rows) == SumFunctionOnSet(amount, rows)

\* Amounts are added as doubles, unrounded, and the sum may come out a hair below
\* or above their worth: which, depends on decimals that are left out.  One
\* amount, or two that cancel out, are added without error.
Exact(rows) == LET some == {x \in rows : amount[x] # 0} IN
    Cardinality(some) <= 1 \/ (Cardinality(some) = 2 /\ Value(some) = 0)

Hairs(rows) == IF Exact(rows) THEN {0} ELSE {-1, 0, 1}

\* paidAmount >= totalAmount && totalAmount > 0, and paidAmount > 0.
Covers(paid, hair, total) ==
    /\ Value(total) > 0
    /\ Value(paid) > Value(total) \/ (Value(paid) = Value(total) /\ hair >= 0)

Something(paid, hair) == Value(paid) > 0 \/ (Value(paid) = 0 /\ hair > 0)

\* Fault: an invoice whose payments were all cancelled stays paid.
NewStatusSticky(status, total, paid, hair) ==
    IF Covers(paid, hair, total) THEN "PAID"
    ELSE IF Something(paid, hair) THEN "PARTIALLY_PAID"
    ELSE status

\* Neither DRAFT nor CANCELLED is excepted.
NewStatus(status, total, paid, hair) ==
    IF Covers(paid, hair, total) THEN "PAID"
    ELSE IF Something(paid, hair) THEN "PARTIALLY_PAID"
    ELSE IF status \in {"PAID", "PARTIALLY_PAID"} THEN "ISSUED"
    ELSE status

\* toFixed takes the hair off the columns, not off the comparison.
WritePaid(r) ==
    LET q == request[r] IN
    /\ At(r, "writePaid")
    /\ \E hair \in Hairs(q.paid) :
         invoice' = [invoice EXCEPT ![q.i].paid = q.paid,
                                    ![q.i].due = [total |-> q.total, paid |-> q.paid],
                                    ![q.i].status = NewStatus(q.status, q.total, q.paid, hair)]
    /\ Goto(r, Idle)
    /\ torn' = torn \ {<<q.i, "payments">>}
    /\ UNCHANGED <<item, payment, started, raced>>

\* A statement fails or the process dies between two statements.
Abort(r) ==
    LET q == request[r] IN
    /\ q # Idle
    /\ Goto(r, Idle)
    /\ torn' = torn \cup
         CASE q.pc \in {"readItems", "writeTotals"} -> {<<q.i, "items">>}
           [] q.pc \in {"readInvoice", "readPayments", "writePaid"} -> {<<q.i, "payments">>}
           [] OTHER -> {}
    /\ UNCHANGED <<invoice, item, payment, started, raced>>

Advance(r) ==
    \/ Delete(r) \/ Issue(r) \/ Cancel(r)
    \/ \E x \in Items : InsertItem(r, x)
    \/ DeleteItem(r) \/ ReadItems(r) \/ WriteTotals(r)
    \/ \E p \in Payments : InsertPayment(r, p)
    \/ ConfirmPayment(r) \/ CancelPayment(r)
    \/ ReadInvoice(r) \/ ReadPayments(r) \/ WritePaid(r)

BeginOn(r, i) ==
    \/ BeginDelete(r, i) \/ BeginIssue(r, i) \/ BeginCancel(r, i)
    \/ BeginAddItem(r, i) \/ BeginCreatePayment(r, i)
    \/ \E x \in Items : BeginRemoveItem(r, i, x)

Next ==
    /\ \/ \E i \in Invoices : CreateInvoice(i)
       \/ \E r \in Requests, i \in Invoices : BeginOn(r, i)
       \/ \E r \in Requests, p \in Payments :
            BeginConfirmPayment(r, p) \/ BeginCancelPayment(r, p)
       \/ \E r \in Requests : Advance(r) \/ Abort(r)
    /\ UNCHANGED amount

Spec == Init /\ [][Next]_vars

(***************************************************************************)
(* Properties.                                                             *)
(***************************************************************************)

Quiet(i) == Exists(i) /\ \A r \in Requests : ~Handling(r, i)

Whole(i) == \A part \in Parts : <<i, part>> \notin torn

\* Derived amounts are right (recalculateInvoiceTotals together with
\* updateInvoicePaymentStatus): between requests the total counts the invoice's
\* items, paidAmount its confirmed payments, and the balance is the one less the
\* other.  Adding or removing an item resets the balance to the total, which only
\* a draft can undergo, and a draft has no confirmed payments but such as are
\* worth nothing together, or less: for those the balance may be the whole total.
\* Two requests at once, or a death not yet followed by a recalculation, can
\* break all of it.
AmountsAgree ==
    \A i \in Invoices \ raced :
        (Quiet(i) /\ Whole(i)) =>
            /\ invoice[i].total = ItemsOf(i)
            /\ invoice[i].paid = Confirmed(i)
            /\ \/ invoice[i].due = [total |-> ItemsOf(i), paid |-> Confirmed(i)]
               \/ /\ Value(Confirmed(i)) <= 0
                  /\ invoice[i].due = [total |-> ItemsOf(i), paid |-> {}]

\* The status tells what was paid (updateInvoicePaymentStatus): under the same
\* conditions a PAID invoice has a positive total and confirmed payments that
\* reach it, a PARTIALLY_PAID one was paid something and not all of it, and a
\* draft or one merely issued was paid nothing, or less.  Where the payments are
\* worth exactly the total, or nothing, a sum of several of them may err: then
\* PARTIALLY_PAID is all that is promised, never the other way round.
StatusAgrees ==
    \A i \in Invoices \ raced :
        (Quiet(i) /\ Whole(i)) =>
            LET paid == Value(Confirmed(i))
                total == Value(ItemsOf(i))
                exact == Exact(Confirmed(i)) IN
            CASE invoice[i].status \in {"DRAFT", "ISSUED"} -> paid <= 0
              [] invoice[i].status = "PARTIALLY_PAID" ->
                   /\ paid > 0 \/ (paid = 0 /\ ~exact)
                   /\ total > 0 => paid < total \/ (paid = total /\ ~exact)
              [] invoice[i].status = "PAID" -> total > 0 /\ paid >= total
              [] OTHER -> TRUE

\* What left DRAFT is frozen (INVOICE_EDITABLE_STATUSES): unless two requests
\* handled it at once, an invoice that is not a draft is never deleted and
\* neither gains nor loses an item.
FrozenAfterDraft ==
    [][\A i \in Invoices \ raced' :
         (Exists(i) /\ invoice[i].status # "DRAFT") =>
             /\ invoice'[i] # Gone
             /\ \A x \in Items : (item[x] = [of |-> i]) <=> (item'[x] = [of |-> i])]_vars

\* A cancelled invoice comes back only through a payment that was created before
\* the cancellation: with every payment cancelled, and no two requests at once,
\* CANCELLED is final.
CancelledIsFinal ==
    [][\A i \in Invoices \ raced' :
         (Exists(i) /\ invoice[i].status = "CANCELLED"
            /\ \A p \in PaymentsOf(i) : payment[p].status = "CANCELLED") =>
                invoice'[i].status = "CANCELLED"]_vars

\* What was closed stays closed: an invoice that left DRAFT, and a cancelled one.
ClosedStays == FrozenAfterDraft /\ CancelledIsFinal
=============================================================================
