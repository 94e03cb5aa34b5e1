--------------------------- MODULE ClientAccounts ---------------------------
(***************************************************************************)
(* The running accounts of clients: their movements, the funds kept for    *)
(* them and the statements sent to them: modules/client-accounts.          *)
(*                                                                         *)
(* A balance is the sum of the movements.  Recording a movement reads it,  *)
(* inserts the movement with the balances before and after, and copies the *)
(* balance after to the funds, each in a statement of its own.             *)
(***************************************************************************)
EXTENDS Handlers, Integers, Sequences, FiniteSets, Functions

CONSTANTS
    Clients,        \* ids of clients
    Amounts,        \* amounts in requests, which may be negative
    Dates,          \* movement dates, days counted from 1
    PageLimit       \* movements a statement can hold; 1000 in the code

VARIABLES
    movements,  \* movements[c]: the rows of client_account_movements, in order
    funds,      \* funds[c]: the balances of the rows of client_funds
    statement,  \* statement[c]: the last row of client_account_statements
    owed        \* history: clients whose funds were not written after a movement,
                \* because the handler stopped

ledgers == <<movements, funds, statement, owed>>
vars == <<movements, funds, statement, owed, request, started, raced>>

MovementRow == [amount : Int, date : Dates, before : Int, after : Int]
StatementRow == [from : Dates, to : Dates, opening : Int, credits : Nat, debits : Nat,
                 closing : Int, movementCount : 0..PageLimit]
Running ==
    [pc : {"insertMovement"}, on : Clients, amount : Int, date : Dates, before : Int]
    \cup [pc : {"findFunds"}, on : Clients, after : Int]
    \cup [pc : {"writeFunds"}, on : Clients, after : Int, row : Nat]
    \cup [pc : {"findMovements"}, on : Clients, from : Dates, to : Dates, opening : Int]
    \cup [pc : {"insertStatement"}, on : Clients, row : StatementRow]

TypeOK ==
    /\ movements \in [Clients -> Seq(MovementRow)]
    /\ funds \in [Clients -> Seq(Int)]
    /\ statement \in [Clients -> StatementRow \cup {Absent}]
    /\ owed \subseteq Clients
    /\ HandlersTypeOK(Running, Clients)

Init ==
    /\ movements = [c \in Clients |-> <<>>]
    /\ funds = [c \in Clients |-> <<>>]
    /\ statement = [c \in Clients |-> Absent]
    /\ owed = {}
    /\ HandlersInit

\* The sum of some of the movements of a client, by their places.
Sum(c, places) == SumFunctionOnSet([i \in places |-> movements[c][i].amount], places)

\* getClientBalance: the sum of all movements, whatever their date and currency
Balance(c) == Sum(c, DOMAIN movements[c])

\* Credits enter with a plus and debits with a minus, whatever sign was sent.
Abs(n) == IF n < 0 THEN -n ELSE n
Signed(credit, n) == IF credit THEN Abs(n) ELSE -Abs(n)

(***************************************************************************)
(* Movements.                                                              *)
(***************************************************************************)

BeginRecord(r, c, credit, n, date) ==
    /\ Start(r, [pc |-> "insertMovement", on |-> c, amount |-> Signed(credit, n),
                 date |-> date, before |-> Balance(c)])
    /\ UNCHANGED ledgers

\* Fault: the balance after a movement is the balance before it.
InsertMovementBefore(r) ==
    LET q == request[r] IN
    /\ At(r, "insertMovement")
    /\ movements' = [movements EXCEPT ![q.on] =
         Append(@, [amount |-> q.amount, date |-> q.date, before |-> q.before, after |-> q.before])]
    /\ Goto(r, [pc |-> "findFunds", on |-> q.on, after |-> q.before + q.amount])
    /\ UNCHANGED <<funds, statement, owed>>

InsertMovement(r) ==
    LET q == request[r]
        after == q.before + q.amount
    IN
    /\ At(r, "insertMovement")
    /\ movements' = [movements EXCEPT ![q.on] =
         Append(@, [amount |-> q.amount, date |-> q.date, before |-> q.before, after |-> after])]
    /\ Goto(r, [pc |-> "findFunds", on |-> q.on, after |-> after])
    /\ UNCHANGED <<funds, statement, owed>>

\* findFundsByClient: some row of the client; 0 when there is none.
FindFunds(r) ==
    LET q == request[r] IN
    /\ At(r, "findFunds")
    /\ \E row \in IF funds[q.on] = <<>> THEN {0} ELSE DOMAIN funds[q.on] :
        Goto(r, [pc |-> "writeFunds", on |-> q.on, after |-> q.after, row |-> row])
    /\ UNCHANGED ledgers

\* Fault: a row is inserted whether or not there is one.
WriteFundsAlwaysInsert(r) ==
    LET q == request[r] IN
    /\ At(r, "writeFunds")
    /\ funds' = [funds EXCEPT ![q.on] = Append(@, q.after)]
    /\ Finish(r)
    /\ UNCHANGED <<movements, statement, owed>>

\* No key forbids a second row of a client.
WriteFunds(r) ==
    LET q == request[r] IN
    /\ At(r, "writeFunds")
    /\ funds' = [funds EXCEPT ![q.on] =
         IF q.row = 0 THEN Append(@, q.after) ELSE [@ EXCEPT ![q.row] = q.after]]
    /\ Finish(r)
    /\ UNCHANGED <<movements, statement, owed>>

(***************************************************************************)
(* Statements.                                                             *)
(***************************************************************************)

BeginStatement(r, c, from, to) ==
    /\ Start(r, [pc |-> "findMovements", on |-> c, from |-> from, to |-> to,
                 opening |-> Balance(c)])
    /\ UNCHANGED ledgers

\* findMovementsByClient: those of the period, the latest first, at most PageLimit
InPeriod(c, from, to) == {i \in DOMAIN movements[c] : movements[c][i].date \in from..to}

Page(c, from, to) ==
    LET found == InPeriod(c, from, to)
        date(i) == movements[c][i].date
        later(i) == {j \in found : date(j) > date(i) \/ (date(j) = date(i) /\ j > i)}
    IN {i \in found : Cardinality(later(i)) < PageLimit}

Credits(c, page) == Sum(c, {i \in page : movements[c][i].amount > 0})

\* The debits are added up without their signs.
Debits(c, page) ==
    LET debits == {i \in page : movements[c][i].amount < 0}
    IN SumFunctionOnSet([i \in debits |-> Abs(movements[c][i].amount)], debits)

\* Fault: only the credits are added up.
FindMovementsCredits(r) ==
    LET q == request[r]
        page == Page(q.on, q.from, q.to)
        credits == Credits(q.on, page)
    IN
    /\ At(r, "findMovements")
    /\ Goto(r, [pc |-> "insertStatement", on |-> q.on,
                row |-> [from |-> q.from, to |-> q.to, opening |-> q.opening, credits |-> credits,
                         debits |-> 0, closing |-> q.opening + credits,
                         movementCount |-> Cardinality(page)]])
    /\ UNCHANGED ledgers

FindMovements(r) ==
    LET q == request[r]
        page == Page(q.on, q.from, q.to)
        credits == Credits(q.on, page)
        debits == Debits(q.on, page)
    IN
    /\ At(r, "findMovements")
    /\ Goto(r, [pc |-> "insertStatement", on |-> q.on,
                row |-> [from |-> q.from, to |-> q.to, opening |-> q.opening, credits |-> credits,
                         debits |-> debits, closing |-> q.opening + credits - debits,
                         movementCount |-> Cardinality(page)]])
    /\ UNCHANGED ledgers

InsertStatement(r) ==
    LET q == request[r] IN
    /\ At(r, "insertStatement")
    /\ statement' = [statement EXCEPT ![q.on] = q.row]
    /\ Finish(r)
    /\ UNCHANGED <<movements, funds, owed>>

Abort(r) ==
    /\ Stop(r)
    /\ owed' = IF request[r].pc \in {"findFunds", "writeFunds"} THEN owed \cup {request[r].on}
               ELSE owed
    /\ UNCHANGED <<movements, funds, statement>>

Next ==
    \E r \in Requests :
        \/ \E c \in Clients, date \in Dates :
            \/ \E credit \in BOOLEAN, n \in Amounts : BeginRecord(r, c, credit, n, date)
            \/ \E to \in Dates : BeginStatement(r, c, date, to)
        \/ InsertMovement(r) \/ FindFunds(r) \/ WriteFunds(r)
        \/ FindMovements(r) \/ InsertStatement(r) \/ Abort(r)

Spec == Init /\ [][Next]_vars

(***************************************************************************)
(* Properties.                                                             *)
(***************************************************************************)

\* The balances before and after the movements of a client lead from zero to
\* the present balance, each movement starting where the one before ended
\* (recordMovement), unless two requests recorded at once.
BalancesLead ==
    \A c \in Clients \ raced :
        \A i \in DOMAIN movements[c] :
            LET row == movements[c][i] IN
            /\ row.before = IF i = 1 THEN 0 ELSE movements[c][i - 1].after
            /\ row.after = row.before + row.amount

\* Once no handler is under way, the funds of a client are one row that holds
\* the sum of the movements (upsertClientFunds), unless two requests recorded
\* at once or one stopped between the movement and the funds.
FundsFollow ==
    \A c \in Clients \ (raced \cup owed) :
        ~Handled(c) /\ movements[c] # <<>> => funds[c] = <<Balance(c)>>

\* A statement that no movement races is off by the net of its own period: its
\* opening balance is the present one, which holds the period already, and the
\* closing balance holds it a second time (generateStatement).  With no more
\* than PageLimit movements in the period.
StatementCountsTwice ==
    [][\A c \in Clients \ raced' :
        LET row == statement'[c]
            net == Sum(c, InPeriod(c, row.from, row.to))
        IN statement'[c] # statement[c] /\ row.movementCount < PageLimit =>
               row.opening = Balance(c) /\ row.closing = Balance(c) + net]_vars
=============================================================================
