------------------------------ MODULE Treasury ------------------------------
(***************************************************************************)
(* Bank accounts and fund movements: modules/treasury/treasury.service.ts. *)
(*                                                                         *)
(* No operation runs in a transaction.  Confirming or cancelling a         *)
(* movement is a chain of awaited statements (read the movement, read an   *)
(* account, write its balance, read and write the destination, write the   *)
(* movement, write the audit row), and the requests of an organization     *)
(* interleave between any two of them.  One action below is one statement, *)
(* with the decision the code takes on its result.                         *)
(*                                                                         *)
(* A balance is only ever written as "the balance just read plus or minus  *)
(* one amount", so it is modelled by what it contains: for every movement  *)
(* leg, the signed number of times that leg's amount is in the balance.    *)
(* The number in the column is the opening balance plus the sum of         *)
(* applied[a][leg] times the leg's amount.                                 *)
(***************************************************************************)
EXTENDS Integers, TLC

CONSTANTS
    Accounts,       \* ids of bank accounts
    Movements,      \* ids of fund movements
    Requests,       \* HTTP requests that can be in progress at once
    Types,          \* movement types in use
    MaxStarted,     \* bound: how many requests on movements ever start
    NoAccount       \* destinationAccountId left out

ASSUME NoAccountAssumption == NoAccount \notin Accounts
ASSUME MaxStartedAssumption == MaxStarted \in Nat
ASSUME TypesAssumption ==
    Types \subseteq {"INCOME", "EXPENSE", "TRANSFER", "ADJUSTMENT"}

Statuses == {"PENDING", "CONFIRMED", "RECONCILED", "CANCELLED"}
Ops == {"confirm", "reconcile", "cancel"}
Sides == {"source", "dest"}
Legs == Movements \X Sides

Terms == [type : Types, source : Accounts, dest : Accounts \cup {NoAccount}]
NoTerms == [type |-> "none"]

VARIABLES
    account,    \* account[a]: the row does not exist yet, is live, is deleted
    applied,    \* applied[a][<<m, side>>]: what a's currentBalance contains
    status,     \* status[m], "absent" before the row is inserted
    terms,      \* terms[m]: type, bankAccountId and destinationAccountId
    request,    \* request[r]: the handler r runs and where it stands
    trail,      \* audit rows: <<movement, operation>>
    started,    \* how many requests on movements started, for the bound
    raced,      \* history: movements two requests handled at the same time
    torn,       \* history: movements whose handler died between two writes
    lost        \* history: accounts overwritten from an outdated read

vars == <<account, applied, status, terms, request, trail, started,
          raced, torn, lost>>
history == <<raced, torn, lost>>

Idle == [pc |-> "idle"]
Steps == {"readSource", "writeSource", "readDest", "writeDest",
          "writeStatus", "audit"}
Contents == [Legs -> Int]
Running == [pc : Steps, op : Ops, m : Movements, seen : Statuses,
            read : Contents]

NothingApplied == [l \in Legs |-> 0]

TypeOK ==
    /\ account \in [Accounts -> {"none", "live", "deleted"}]
    /\ applied \in [Accounts -> Contents]
    /\ status \in [Movements -> Statuses \cup {"absent"}]
    /\ terms \in [Movements -> Terms \cup {NoTerms}]
    /\ request \in [Requests -> Running \cup {Idle}]
    /\ trail \subseteq Movements \X Ops
    /\ started \in 0..MaxStarted
    /\ raced \subseteq Movements
    /\ torn \subseteq Movements
    /\ lost \subseteq Accounts

Init ==
    /\ account = [a \in Accounts |-> "none"]
    /\ applied = [a \in Accounts |-> NothingApplied]
    /\ status = [m \in Movements |-> "absent"]
    /\ terms = [m \in Movements |-> NoTerms]
    /\ request = [r \in Requests |-> Idle]
    /\ trail = {}
    /\ started = 0
    /\ raced = {} /\ torn = {} /\ lost = {}

(***************************************************************************)
(* What a movement does to the accounts it names.                          *)
(***************************************************************************)

\* The sign with which the amount enters the source account on confirmation,
\* and the sign cancelMovement uses to take it out again.
ConfirmSign(type) == IF type \in {"EXPENSE", "TRANSFER"} THEN -1 ELSE 1
\* Fault: the reversal knows expenses only.
ReverseSignNoTransfer(type) == IF type = "EXPENSE" THEN 1 ELSE -1

ReverseSign(type) == IF type \in {"EXPENSE", "TRANSFER"} THEN 1 ELSE -1

\* Only a transfer that names a destination has a second leg.
HasDest(m) == terms[m].type = "TRANSFER" /\ terms[m].dest # NoAccount

SourceSign(op, m) == IF op = "confirm" THEN ConfirmSign(terms[m].type)
                                       ELSE ReverseSign(terms[m].type)
DestSign(op) == IF op = "confirm" THEN 1 ELSE -1

\* Fault: a status that is not in the enumeration.
OutcomeMisspelt(op) == CASE op = "confirm"   -> "CONFIRMED"
                         [] op = "reconcile" -> "RECONCILED"
                         [] op = "cancel"    -> "CANCELED"

Outcome(op) == CASE op = "confirm"   -> "CONFIRMED"
                 [] op = "reconcile" -> "RECONCILED"
                 [] op = "cancel"    -> "CANCELLED"

Busy(r) == request[r] # Idle

\* r has read m and has not yet written m's new status.
Handling(r, m) == Busy(r) /\ request[r].m = m /\ request[r].pc # "audit"

(***************************************************************************)
(* Operations that are one statement, or whose statement the database      *)
(* checks again: the foreign keys of fund_movements repeat the lookups of  *)
(* createMovement and refuse the deletion of a referenced account.         *)
(***************************************************************************)

CreateBankAccount(a) ==
    /\ account[a] = "none"
    /\ account' = [account EXCEPT ![a] = "live"]
    /\ UNCHANGED <<applied, status, terms, request, trail, started, history>>

Names(m, a) == status[m] # "absent" /\ a \in {terms[m].source, terms[m].dest}

DeleteBankAccount(a) ==
    /\ account[a] = "live"
    /\ \A m \in Movements : ~Names(m, a)
    /\ account' = [account EXCEPT ![a] = "deleted"]
    /\ UNCHANGED <<applied, status, terms, request, trail, started, history>>

CreateMovement(m, t) ==
    /\ status[m] = "absent"
    /\ account[t.source] = "live"
    /\ t.dest # NoAccount => account[t.dest] = "live"
    /\ status' = [status EXCEPT ![m] = "PENDING"]
    /\ terms' = [terms EXCEPT ![m] = t]
    /\ UNCHANGED <<account, applied, request, trail, started, history>>

(***************************************************************************)
(* confirmMovement, reconcileMovement, cancelMovement: the first statement *)
(* reads the movement and the code decides on the status it saw.           *)
(***************************************************************************)

Begin(r, m, op, pc) ==
    /\ ~Busy(r)
    /\ request' = [request EXCEPT ![r] =
                     [pc |-> pc, op |-> op, m |-> m, seen |-> status[m],
                      read |-> NothingApplied]]
    /\ raced' = IF \E q \in Requests : Handling(q, m) THEN raced \cup {m}
                                                      ELSE raced
    /\ started < MaxStarted
    /\ started' = started + 1
    /\ UNCHANGED <<account, applied, status, terms, trail, torn, lost>>

\* Fault: a cancelled movement can be confirmed again.
BeginConfirmCancelled(r, m) ==
    /\ status[m] \in {"PENDING", "CANCELLED"}
    /\ Begin(r, m, "confirm", "readSource")

BeginConfirm(r, m) ==
    /\ status[m] = "PENDING"
    /\ Begin(r, m, "confirm", "readSource")

BeginReconcile(r, m) ==
    /\ status[m] = "CONFIRMED"
    /\ Begin(r, m, "reconcile", "writeStatus")

\* Fault: reconciled movements are not excluded.
BeginCancelReconciled(r, m) ==
    /\ status[m] \notin {"absent", "CANCELLED"}
    /\ Begin(r, m, "cancel", IF status[m] = "CONFIRMED" THEN "readSource"
                                                        ELSE "writeStatus")

BeginCancel(r, m) ==
    /\ status[m] \in {"PENDING", "CONFIRMED"}
    /\ Begin(r, m, "cancel", IF status[m] = "CONFIRMED" THEN "readSource"
                                                        ELSE "writeStatus")

At(r, pc) == Busy(r) /\ request[r].pc = pc
Goto(r, pc) == request' = [request EXCEPT ![r].pc = pc]

\* getBankAccountById: the balance the next write is computed from.
Read(r, a, pc) ==
    /\ request' = [request EXCEPT ![r].pc = pc, ![r].read = applied[a]]
    /\ UNCHANGED <<account, applied, status, terms, trail, started, history>>

\* updateBankAccount: the balance read earlier plus or minus the amount,
\* whatever the row holds by now.
Write(r, a, leg, sign, pc) ==
    /\ applied' = [applied EXCEPT ![a] =
                     [request[r].read EXCEPT ![leg] = @ + sign]]
    /\ lost' = IF request[r].read = applied[a] THEN lost ELSE lost \cup {a}
    /\ Goto(r, pc)
    /\ UNCHANGED <<account, status, terms, trail, started, raced, torn>>

ReadSource(r) ==
    /\ At(r, "readSource")
    /\ Read(r, terms[request[r].m].source, "writeSource")

\* Fault: the destination's balance is computed from the source's.
WriteSourceSharedRead(r) ==
    LET m == request[r].m IN
    /\ At(r, "writeSource")
    /\ Write(r, terms[m].source, <<m, "source">>, SourceSign(request[r].op, m),
             IF HasDest(m) THEN "writeDest" ELSE "writeStatus")

WriteSource(r) ==
    LET m == request[r].m IN
    /\ At(r, "writeSource")
    /\ Write(r, terms[m].source, <<m, "source">>, SourceSign(request[r].op, m),
             IF HasDest(m) THEN "readDest" ELSE "writeStatus")

ReadDest(r) ==
    /\ At(r, "readDest")
    /\ Read(r, terms[request[r].m].dest, "writeDest")

WriteDest(r) ==
    LET m == request[r].m IN
    /\ At(r, "writeDest")
    /\ Write(r, terms[m].dest, <<m, "dest">>, DestSign(request[r].op),
             "writeStatus")

\* updateMovement by id: no condition on the status the row has by now.
WriteStatus(r) ==
    /\ At(r, "writeStatus")
    /\ status' = [status EXCEPT ![request[r].m] = Outcome(request[r].op)]
    /\ Goto(r, "audit")
    /\ UNCHANGED <<account, applied, terms, trail, started, history>>

WriteAudit(r) ==
    /\ At(r, "audit")
    /\ trail' = trail \cup {<<request[r].m, request[r].op>>}
    /\ request' = [request EXCEPT ![r] = Idle]
    /\ UNCHANGED <<account, applied, status, terms, started, history>>

\* A statement fails (the error becomes a 500) or the process dies: what was
\* written stays written.
Halfway(q) ==
    \/ q.pc \in {"readDest", "writeDest"}
    \/ q.pc = "writeStatus" /\ \/ q.op = "confirm"
                               \/ q.op = "cancel" /\ q.seen = "CONFIRMED"

Abort(r) ==
    /\ Busy(r)
    /\ request' = [request EXCEPT ![r] = Idle]
    /\ torn' = IF Halfway(request[r]) THEN torn \cup {request[r].m} ELSE torn
    /\ UNCHANGED <<account, applied, status, terms, trail, started, raced, lost>>

Advance(r) ==
    \/ ReadSource(r) \/ WriteSource(r) \/ ReadDest(r) \/ WriteDest(r)
    \/ WriteStatus(r) \/ WriteAudit(r)

Next ==
    \/ \E a \in Accounts : CreateBankAccount(a) \/ DeleteBankAccount(a)
    \/ \E m \in Movements, t \in Terms : CreateMovement(m, t)
    \/ \E r \in Requests, m \in Movements :
         BeginConfirm(r, m) \/ BeginReconcile(r, m) \/ BeginCancel(r, m)
    \/ \E r \in Requests : Advance(r) \/ Abort(r)

Spec == Init /\ [][Next]_vars

(***************************************************************************)
(* Properties.                                                             *)
(***************************************************************************)

Settled(m) == status[m] \in {"CONFIRMED", "RECONCILED"}

LegAccount(m, side) == IF side = "source" THEN terms[m].source ELSE terms[m].dest

LegSign(m, side) == IF side = "source" THEN ConfirmSign(terms[m].type) ELSE 1

HasLeg(m, side) == side = "source" \/ HasDest(m)

\* What account a should contain of one leg of m, by the status of m alone.
Booked(a, m, side) ==
    IF status[m] # "absent" /\ Settled(m) /\ HasLeg(m, side)
         /\ LegAccount(m, side) = a
    THEN LegSign(m, side) ELSE 0

\* Balances and movements agree (confirmMovement, cancelMovement): between
\* requests every account contains each leg of a confirmed or reconciled
\* movement exactly once and nothing of any other movement.  Only three things
\* can break that: two requests on the same movement, a handler that died
\* between its writes, a balance written over one it had not read.
BooksBalance ==
    \A a \in Accounts \ lost, m \in Movements \ (raced \cup torn) :
        (\A r \in Requests : ~Handling(r, m)) =>
            \A side \in Sides : applied[a][<<m, side>>] = Booked(a, m, side)

\* A movement that was reconciled or cancelled keeps that status for ever,
\* unless a second request handled it at the same time: the unconditional
\* status write of confirmMovement and reconcileMovement is then the last word.
TerminalStatusKept ==
    [][\A m \in Movements \ raced' :
         status[m] \in {"RECONCILED", "CANCELLED"} => status'[m] = status[m]]_vars

\* The audit log explains the status: for a movement no two requests met on,
\* a row of an operation is there only if the movement went through it, and
\* the rows of reconcile and cancel exclude each other.
TrailAgrees ==
    \A m \in Movements \ raced :
        /\ <<m, "confirm">> \in trail => status[m] \notin {"absent", "PENDING"}
        /\ <<m, "reconcile">> \in trail => status[m] = "RECONCILED"
        /\ <<m, "cancel">> \in trail => status[m] = "CANCELLED"

\* One request at a time loses nothing: no balance is written from an outdated
\* read, whatever the accounts of a transfer are, the same account twice
\* included.
AloneLosesNothing ==
    (\A q, r \in Requests : q = r) => raced = {} /\ lost = {}

\* Accounts, movements and requests are interchangeable.
Symmetry == Permutations(Accounts) \cup Permutations(Movements) \cup Permutations(Requests)
=============================================================================
