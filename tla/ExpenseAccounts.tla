-------------------------- MODULE ExpenseAccounts --------------------------
(***************************************************************************)
(* Expense accounts and their items: the second half of                    *)
(* modules/billing/billing.service.ts.                                     *)
(*                                                                         *)
(* An item is written, then all items are read, then their sum is written  *)
(* to the account.  A sum is modelled by the items it was made of.         *)
(***************************************************************************)
EXTENDS Handlers, FiniteSets

CONSTANTS
    Ids,        \* ids of expense accounts
    Items       \* ids of items

VARIABLES
    expense,    \* expense[x]: the row of expense_accounts
    item,       \* item[i]: the row of expense_account_items
    owed        \* history: accounts whose totals were not written after an item,
                \* because the handler stopped

expenses == <<expense, item, owed>>
vars == <<expense, item, owed, request, started, raced>>

\* expenseAccountStatusEnum
Statuses == {"DRAFT", "GENERATED", "SENT_TO_CLIENT", "APPROVED_BY_CLIENT", "INVOICED", "CLOSED"}

\* EXPENSE_ACCOUNT_EDITABLE_STATUSES
EditableStatuses == {"DRAFT"}

\* Fault: an approved account can be taken back.
TransitionsBack ==
    [DRAFT |-> {"GENERATED"}, GENERATED |-> {"SENT_TO_CLIENT", "DRAFT"},
     SENT_TO_CLIENT |-> {"APPROVED_BY_CLIENT", "DRAFT"},
     APPROVED_BY_CLIENT |-> {"INVOICED", "DRAFT"}, INVOICED |-> {"CLOSED"}, CLOSED |-> {}]

\* EXPENSE_ACCOUNT_TRANSITIONS
Transitions ==
    [DRAFT |-> {"GENERATED"}, GENERATED |-> {"SENT_TO_CLIENT", "DRAFT"},
     SENT_TO_CLIENT |-> {"APPROVED_BY_CLIENT", "DRAFT"},
     APPROVED_BY_CLIENT |-> {"INVOICED"}, INVOICED |-> {"CLOSED"}, CLOSED |-> {}]

\* totalCharges and balanceDue, which are always written together
ExpenseRow == [status : Statuses, total : SUBSET Items]
ItemRow == [of : Ids]
Running ==
    [pc : {"updateExpenseAccount", "deleteExpenseAccount", "insertItem", "readItems"}, on : Ids]
    \cup [pc : {"writeStatus"}, on : Ids, new : Statuses]
    \cup [pc : {"findItem", "deleteItem"}, on : Ids, i : Items]
    \cup [pc : {"writeTotal"}, on : Ids, total : SUBSET Items]

TypeOK ==
    /\ expense \in [Ids -> ExpenseRow \cup {Absent, Gone}]
    /\ item \in [Items -> ItemRow \cup {Absent, Gone}]
    /\ owed \subseteq Ids
    /\ HandlersTypeOK(Running, Ids)

Init ==
    /\ expense = [x \in Ids |-> Absent]
    /\ item = [i \in Items |-> Absent]
    /\ owed = {}
    /\ HandlersInit

\* getExpenseAccountById
Found(x) == Present(expense[x])
Editable(x) == Found(x) /\ expense[x].status \in EditableStatuses

\* findItemsByExpenseAccount
ItemsOf(x) == {i \in Items : Present(item[i]) /\ item[i].of = x}

CreateExpenseAccount(r, x) ==
    /\ expense[x] = Absent
    /\ expense' = [expense EXCEPT ![x] = [status |-> "DRAFT", total |-> {}]]
    /\ Once(r, x)
    /\ UNCHANGED <<item, owed>>

\* updateExpenseAccount edits columns that no property is about.
BeginUpdate(r, x) ==
    /\ Editable(x)
    /\ Start(r, [pc |-> "updateExpenseAccount", on |-> x])
    /\ UNCHANGED expenses

UpdateExpenseAccount(r) ==
    /\ At(r, "updateExpenseAccount")
    /\ Finish(r)
    /\ UNCHANGED expenses

BeginDelete(r, x) ==
    /\ Editable(x)
    /\ Start(r, [pc |-> "deleteExpenseAccount", on |-> x])
    /\ UNCHANGED expenses

\* Items go with their account.
DeleteExpenseAccount(r) ==
    LET x == request[r].on IN
    /\ At(r, "deleteExpenseAccount")
    /\ expense' = [expense EXCEPT ![x] = Gone]
    /\ item' = [i \in Items |-> IF i \in ItemsOf(x) THEN Gone ELSE item[i]]
    /\ Finish(r)
    /\ UNCHANGED owed

BeginChangeStatus(r, x, s) ==
    /\ Found(x)
    /\ s \in Transitions[expense[x].status]
    /\ Start(r, [pc |-> "writeStatus", on |-> x, new |-> s])
    /\ UNCHANGED expenses

WriteStatus(r) ==
    LET q == request[r] IN
    /\ At(r, "writeStatus")
    /\ expense' = IF Found(q.on) THEN [expense EXCEPT ![q.on].status = q.new] ELSE expense
    /\ Finish(r)
    /\ UNCHANGED <<item, owed>>

BeginAddItem(r, x) ==
    /\ Editable(x)
    /\ Start(r, [pc |-> "insertItem", on |-> x])
    /\ UNCHANGED expenses

\* The foreign key refuses the item of a deleted account, which ends the handler.
InsertItem(r, i) ==
    LET x == request[r].on IN
    /\ At(r, "insertItem")
    /\ item[i] = Absent
    /\ IF Found(x)
       THEN item' = [item EXCEPT ![i] = [of |-> x]] /\ Goto(r, [pc |-> "readItems", on |-> x])
       ELSE UNCHANGED item /\ Finish(r)
    /\ UNCHANGED <<expense, owed>>

BeginRemoveItem(r, x, i) ==
    /\ Editable(x)
    /\ Start(r, [pc |-> "findItem", on |-> x, i |-> i])
    /\ UNCHANGED expenses

FindItem(r) ==
    LET q == request[r] IN
    /\ At(r, "findItem")
    /\ IF q.i \in ItemsOf(q.on) THEN Goto(r, [q EXCEPT !.pc = "deleteItem"]) ELSE Finish(r)
    /\ UNCHANGED expenses

\* Fault: the totals stay as they are.
DeleteItemAlone(r) ==
    LET q == request[r] IN
    /\ At(r, "deleteItem")
    /\ item' = [item EXCEPT ![q.i] = Gone]
    /\ Finish(r)
    /\ UNCHANGED <<expense, owed>>

DeleteItem(r) ==
    LET q == request[r] IN
    /\ At(r, "deleteItem")
    /\ item' = [item EXCEPT ![q.i] = Gone]
    /\ Goto(r, [pc |-> "readItems", on |-> q.on])
    /\ UNCHANGED <<expense, owed>>

\* recalculateExpenseAccountTotals, its two statements
ReadItems(r) ==
    LET x == request[r].on IN
    /\ At(r, "readItems")
    /\ Goto(r, [pc |-> "writeTotal", on |-> x, total |-> ItemsOf(x)])
    /\ UNCHANGED expenses

WriteTotal(r) ==
    LET q == request[r] IN
    /\ At(r, "writeTotal")
    /\ expense' = IF Found(q.on) THEN [expense EXCEPT ![q.on].total = q.total] ELSE expense
    /\ Finish(r)
    /\ UNCHANGED <<item, owed>>

Abort(r) ==
    /\ Stop(r)
    /\ owed' = IF request[r].pc \in {"readItems", "writeTotal"} THEN owed \cup {request[r].on}
               ELSE owed
    /\ UNCHANGED <<expense, item>>

Next ==
    \E r \in Requests :
        \/ \E x \in Ids :
            \/ CreateExpenseAccount(r, x) \/ BeginUpdate(r, x) \/ BeginDelete(r, x)
            \/ BeginAddItem(r, x)
            \/ \E s \in Statuses : BeginChangeStatus(r, x, s)
            \/ \E i \in Items : BeginRemoveItem(r, x, i)
        \/ \E i \in Items : InsertItem(r, i)
        \/ UpdateExpenseAccount(r) \/ DeleteExpenseAccount(r) \/ WriteStatus(r)
        \/ FindItem(r) \/ DeleteItem(r) \/ ReadItems(r) \/ WriteTotal(r) \/ Abort(r)

Spec == Init /\ [][Next]_vars

(***************************************************************************)
(* Properties.                                                             *)
(***************************************************************************)

\* Once no handler is under way, the total of an expense account is the sum of
\* its items (recalculateExpenseAccountTotals), unless two requests handled it
\* at once or one stopped between an item and the total.
TotalIsOfItems ==
    \A x \in Ids \ (raced \cup owed) :
        Found(x) /\ ~Handled(x) => expense[x].total = ItemsOf(x)

\* An expense account the client approved is never billed for anything else:
\* it never goes back, and its items and total stay, unless two requests
\* handled it at once (EXPENSE_ACCOUNT_TRANSITIONS and the editable statuses).
ApprovedIsFixed ==
    [][\A x \in Ids \ (raced' \cup owed) :
        Found(x) /\ expense[x].status \in {"APPROVED_BY_CLIENT", "INVOICED", "CLOSED"} =>
            /\ Found(x)'
            /\ expense'[x].status \in {"APPROVED_BY_CLIENT", "INVOICED", "CLOSED"}
            /\ expense'[x].total = expense[x].total
            /\ {i \in Items : Present(item'[i]) /\ item'[i].of = x} = ItemsOf(x)]_vars
=============================================================================
