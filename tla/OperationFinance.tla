-------------------------- MODULE OperationFinance --------------------------
(***************************************************************************)
(* Charges and advances of operations, and the summary made of them:       *)
(* modules/operation-charges, operation-advances, operation-finance.       *)
(*                                                                         *)
(* The two sums are read side by side and not in one snapshot.  Both       *)
(* kinds of rows are entries here.  Amounts are positive (IsPositive),     *)
(* counted in the last of their four decimals, and small enough for a      *)
(* double to hold it.  They are added as doubles (parseFloat), and the     *)
(* balance is compared before toFixed rounds it.                           *)
(***************************************************************************)
EXTENDS Handlers, Integers, FiniteSets, Functions

CONSTANTS
    Ids,            \* ids of operations; their rows are never deleted
    EntryIds,       \* ids of charges and advances
    MaxAmount       \* bound: amounts are 1..MaxAmount

VARIABLES
    entry,      \* entry[c]: the row of operation_charges or operation_advances
    account     \* account[o]: the last expense account written to the audit log

finance == <<entry, account>>
vars == <<entry, account, request, started, raced>>

Kinds == {"charge", "advance"}
RowAmounts == 1..MaxAmount
Sums == Nat
Error == {-1, 0, 1}
FinancialStatuses == {"NO_CHARGES", "PAID", "PARTIALLY_PAID", "PENDING"}

ChargeRow == [kind : {"charge"}, of : Ids, amount : RowAmounts, status : {"ACTIVE", "INACTIVE"}]
AdvanceRow == [kind : {"advance"}, of : Ids, amount : RowAmounts, status : {"ACTIVE", "INACTIVE"}]
Account == [charges : Sums, advances : Sums, status : FinancialStatuses]
Running ==
    [pc : {"insert"}, on : Ids, kind : Kinds, amount : RowAmounts]
    \cup [pc : {"update"}, on : Ids, c : EntryIds, amount : RowAmounts, status : {"ACTIVE", "INACTIVE"}]
    \cup [pc : {"deactivate"}, on : Ids, c : EntryIds]
    \cup [pc : {"readSums"}, on : Ids]
    \cup [pc : {"readAdvances"}, on : Ids, charges : Sums, hairs : SUBSET Error]
    \cup [pc : {"readCharges"}, on : Ids, advances : Sums, hairs : SUBSET Error]
    \cup [pc : {"writeAccount"}, on : Ids, charges : Sums, advances : Sums, hairs : SUBSET Error]

TypeOK ==
    /\ entry \in [EntryIds -> ChargeRow \cup AdvanceRow \cup {Absent}]
    /\ account \in [Ids -> Account \cup {Absent}]
    /\ HandlersTypeOK(Running, Ids)

Init ==
    /\ entry = [c \in EntryIds |-> Absent]
    /\ account = [o \in Ids |-> Absent]
    /\ HandlersInit

\* findActiveByOperation of the charges, or of the advances
Active(o, kind) == {c \in EntryIds : /\ Present(entry[c])
                                     /\ entry[c].of = o /\ entry[c].kind = kind
                                     /\ entry[c].status = "ACTIVE"}

Sum(o, kind) == SumFunctionOnSet([c \in Active(o, kind) |-> entry[c].amount], Active(o, kind))

\* How far a sum of doubles can be off: by a hair, below or above, when it is of
\* several amounts.  Whether it is depends on decimals that are left out.
Hairs(o, kind) == IF Cardinality(Active(o, kind)) <= 1 THEN {0} ELSE Error

\* Fault: an operation is paid as soon as something was advanced.
FinancialStatusGenerous(charges, advances, hair) ==
    CASE charges = 0 -> "NO_CHARGES"
      [] advances > 0 -> "PAID"
      [] OTHER -> "PENDING"

\* What is left to pay, charges - advances, is not positive.
Covered(charges, advances, hair) == charges < advances \/ (charges = advances /\ hair <= 0)

\* computeFinancialStatus; a sum of no amounts is 0, any other is positive.
FinancialStatus(charges, advances, hair) ==
    CASE charges = 0 -> "NO_CHARGES"
      [] charges # 0 /\ Covered(charges, advances, hair) -> "PAID"
      [] ~Covered(charges, advances, hair) /\ advances > 0 -> "PARTIALLY_PAID"
      [] OTHER -> "PENDING"

BeginCreateCharge(r, o, n) ==
    Start(r, [pc |-> "insert", on |-> o, kind |-> "charge", amount |-> n]) /\ UNCHANGED finance
BeginCreateAdvance(r, o, n) ==
    Start(r, [pc |-> "insert", on |-> o, kind |-> "advance", amount |-> n]) /\ UNCHANGED finance

Insert(r, c) ==
    LET q == request[r] IN
    /\ At(r, "insert")
    /\ entry[c] = Absent
    /\ entry' = [entry EXCEPT ![c] = [kind |-> q.kind, of |-> q.on, amount |-> q.amount,
                                      status |-> "ACTIVE"]]
    /\ Finish(r)
    /\ UNCHANGED account

\* update of a charge or an advance; an inactive one can be made active again.
BeginUpdate(r, c, n, s) ==
    /\ Present(entry[c])
    /\ Start(r, [pc |-> "update", on |-> entry[c].of, c |-> c, amount |-> n, status |-> s])
    /\ UNCHANGED finance

Update(r) ==
    LET q == request[r] IN
    /\ At(r, "update")
    /\ entry' = [entry EXCEPT ![q.c].amount = q.amount, ![q.c].status = q.status]
    /\ Finish(r)
    /\ UNCHANGED account

BeginDeactivate(r, c) ==
    /\ Present(entry[c])
    /\ Start(r, [pc |-> "deactivate", on |-> entry[c].of, c |-> c])
    /\ UNCHANGED finance

Deactivate(r) ==
    /\ At(r, "deactivate")
    /\ entry' = [entry EXCEPT ![request[r].c].status = "INACTIVE"]
    /\ Finish(r)
    /\ UNCHANGED account

\* generateExpenseAccount: getSummary, whose two reads run side by side
BeginGenerate(r, o) == Start(r, [pc |-> "readSums", on |-> o]) /\ UNCHANGED finance

ReadCharges(r) ==
    LET q == request[r]
        charges == Sum(q.on, "charge")
        hairs == Hairs(q.on, "charge") IN
    /\ q.pc \in {"readSums", "readCharges"}
    /\ Goto(r, IF q.pc = "readSums"
               THEN [pc |-> "readAdvances", on |-> q.on, charges |-> charges, hairs |-> hairs]
               ELSE [pc |-> "writeAccount", on |-> q.on, charges |-> charges,
                     advances |-> q.advances, hairs |-> hairs \cup q.hairs])
    /\ UNCHANGED finance

ReadAdvances(r) ==
    LET q == request[r]
        advances == Sum(q.on, "advance")
        hairs == Hairs(q.on, "advance") IN
    /\ q.pc \in {"readSums", "readAdvances"}
    /\ Goto(r, IF q.pc = "readSums"
               THEN [pc |-> "readCharges", on |-> q.on, advances |-> advances, hairs |-> hairs]
               ELSE [pc |-> "writeAccount", on |-> q.on, charges |-> q.charges,
                     advances |-> advances, hairs |-> q.hairs \cup hairs])
    /\ UNCHANGED finance

WriteAccount(r) ==
    LET q == request[r] IN
    /\ At(r, "writeAccount")
    /\ \E hair \in q.hairs :
         account' = [account EXCEPT ![q.on] =
                       [charges |-> q.charges, advances |-> q.advances,
                        status |-> FinancialStatus(q.charges, q.advances, hair)]]
    /\ Finish(r)
    /\ UNCHANGED entry

Abort(r) == Stop(r) /\ UNCHANGED finance

Next ==
    \E r \in Requests :
        \/ \E o \in Ids :
            \/ \E n \in RowAmounts : BeginCreateCharge(r, o, n) \/ BeginCreateAdvance(r, o, n)
            \/ BeginGenerate(r, o)
        \/ \E c \in EntryIds :
            \/ \E n \in RowAmounts, s \in {"ACTIVE", "INACTIVE"} : BeginUpdate(r, c, n, s)
            \/ BeginDeactivate(r, c) \/ Insert(r, c)
        \/ Update(r) \/ Deactivate(r)
        \/ ReadCharges(r) \/ ReadAdvances(r) \/ WriteAccount(r) \/ Abort(r)

Spec == Init /\ [][Next]_vars

(***************************************************************************)
(* Properties.                                                             *)
(***************************************************************************)

\* An expense account is that of one moment (getSummary): unless the rows of
\* the operation changed while it was made, it states what is charged and
\* advanced when it is written, and PAID only when nothing is left to pay.  An
\* operation that is paid is called so, except where the advances are exactly the
\* charges and one of the two is a sum: then a hair may be missing.
AccountOfOneMoment ==
    [][\A o \in Ids \ raced' :
        account'[o] # account[o] =>
            LET charges == Sum(o, "charge")
                advances == Sum(o, "advance")
                paid == account'[o].status = "PAID" IN
            /\ account'[o].charges = charges
            /\ account'[o].advances = advances
            /\ paid => charges > 0 /\ advances >= charges
            /\ (charges > 0 /\ advances > charges) => paid
            /\ (charges > 0 /\ advances = charges
                  /\ Hairs(o, "charge") \cup Hairs(o, "advance") = {0}) => paid]_vars
=============================================================================
