----------------------------- MODULE BooksProofs -----------------------------
(***************************************************************************)
(* Proofs about the books of an organization: Treasury for any accounts    *)
(* and movements, then, about MCBooks, Invoices for any invoices, items    *)
(* and payments and Organizations for any organizations and users; each    *)
(* for any number of concurrent requests.                                  *)
(***************************************************************************)
EXTENDS Treasury, MCBooks, Functions, FiniteSetTheorems, WellFoundedInduction, TLAPS

(***************************************************************************)
(* Treasury.                                                               *)
(***************************************************************************)

(***************************************************************************)
(* The inductive invariant.                                                *)
(***************************************************************************)

\* r's handler has already written this leg (or found that m has no such leg).
Wrote(r, side) ==
    /\ \/ request[r].op = "confirm"
       \/ request[r].op = "cancel" /\ request[r].seen = "CONFIRMED"
    /\ request[r].pc \in (IF side = "source" THEN {"readDest", "writeDest", "writeStatus"}
                                             ELSE {"writeStatus"})

Full(a, m, side) ==
    IF HasLeg(m, side) /\ LegAccount(m, side) = a THEN LegSign(m, side) ELSE 0

RowsInv ==
    /\ \A m \in Movements : status[m] # "absent" => terms[m] \in Terms
    /\ \A r \in Requests : Busy(r) => status[request[r].m] # "absent"

HandlerInv ==
    \A r \in Requests : Busy(r) =>
        LET q == request[r] IN
        /\ q.pc \in {"readDest", "writeDest"} => HasDest(q.m)
        /\ q.op = "confirm" => q.seen = "PENDING"
        /\ q.op = "reconcile" => q.seen = "CONFIRMED" /\ q.pc \in {"writeStatus", "audit"}
        /\ q.op = "cancel" => q.seen \in {"PENDING", "CONFIRMED"}
        /\ q.op = "cancel" /\ q.seen = "PENDING" => q.pc \in {"writeStatus", "audit"}

\* A movement never handled by two requests at once: its handler is the only
\* one, and the status it read is still the status of the row.
AloneInv ==
    \A m \in Movements \ raced : \A r \in Requests : Handling(r, m) =>
        /\ request[r].seen = status[m]
        /\ \A q \in Requests : Handling(q, m) => q = r

LedgerInv ==
    \A a \in Accounts \ lost, m \in Movements \ (raced \cup torn), side \in Sides :
        /\ (\A r \in Requests : ~Handling(r, m)) =>
             applied[a][<<m, side>>] = Booked(a, m, side)
        /\ \A r \in Requests : Handling(r, m) =>
             applied[a][<<m, side>>] =
                IF Wrote(r, side)
                THEN IF request[r].op = "confirm" THEN Full(a, m, side) ELSE 0
                ELSE Booked(a, m, side)

Inv == TypeOK /\ RowsInv /\ HandlerInv /\ AloneInv /\ LedgerInv

(***************************************************************************)
(* Lemmas.                                                                 *)
(***************************************************************************)

\* A request in progress is a record with all its fields.
LEMMA BusyFields ==
    ASSUME TypeOK, NEW r \in Requests, Busy(r)
    PROVE  request[r] \in Running
BY DEF TypeOK, Busy

\* Cancelling takes out of the source account what confirming put into it.
LEMMA SignsCancel == \A type : ConfirmSign(type) + ReverseSign(type) = 0
BY DEF ConfirmSign, ReverseSign

LEMMA InitInv == Init => Inv
<1> SUFFICES ASSUME Init PROVE Inv
    OBVIOUS
<1>1. TypeOK
      BY MaxStartedAssumption DEF Init, TypeOK, NothingApplied, Contents
<1>2. RowsInv /\ HandlerInv /\ AloneInv
      BY DEF Init, RowsInv, HandlerInv, AloneInv, Busy, Handling
<1>3. LedgerInv
      BY DEF Init, LedgerInv, Booked, Handling, Busy, NothingApplied, Legs
<1> QED BY <1>1, <1>2, <1>3 DEF Inv

LEMMA TypeStep ==
    ASSUME Inv, [Next]_vars
    PROVE  TypeOK'
<1> USE DEF Inv, history
<1>1. ASSUME NEW a \in Accounts, CreateBankAccount(a) \/ DeleteBankAccount(a)
      PROVE  TypeOK'
      BY <1>1 DEF TypeOK, CreateBankAccount, DeleteBankAccount
<1>2. ASSUME NEW m \in Movements, NEW t \in Terms, CreateMovement(m, t)
      PROVE  TypeOK'
      BY <1>2 DEF TypeOK, CreateMovement, Statuses
<1>3. ASSUME NEW r \in Requests, NEW m \in Movements,
             BeginConfirm(r, m) \/ BeginReconcile(r, m) \/ BeginCancel(r, m)
      PROVE  TypeOK'
  <2>1. PICK op \in Ops, pc \in Steps : Begin(r, m, op, pc) /\ status[m] \in Statuses
        BY <1>3 DEF BeginConfirm, BeginReconcile, BeginCancel, Ops, Steps, Statuses
  <2>2. NothingApplied \in Contents
        BY DEF NothingApplied, Contents
  <2> QED BY <2>1, <2>2, MaxStartedAssumption DEF TypeOK, Begin, Running
<1>4. ASSUME NEW r \in Requests, Advance(r) \/ Abort(r)
      PROVE  TypeOK'
  <2>1. request[r] \in Running /\ Busy(r)
        BY <1>4, BusyFields DEF Advance, Abort, ReadSource, WriteSource, ReadDest,
           WriteDest, WriteStatus, WriteAudit, At
  <2> DEFINE m == request[r].m
  <2>2. m \in Movements /\ terms[m] \in Terms
        BY <2>1 DEF RowsInv, Running
  <2>3. ASSUME NEW a \in Accounts, NEW pc \in Steps, Read(r, a, pc)
        PROVE  TypeOK'
        BY <2>1, <2>3 DEF Read, TypeOK, Running
  <2>4. ASSUME NEW a \in Accounts, NEW leg \in Legs, NEW sign \in Int, NEW pc \in Steps,
               Write(r, a, leg, sign, pc)
        PROVE  TypeOK'
    <3>1. [request[r].read EXCEPT ![leg] = @ + sign] \in Contents
          BY <2>1 DEF Running, Contents
    <3> QED BY <2>1, <2>4, <3>1 DEF Write, Goto, TypeOK, Running
  <2>5. <<m, "source">> \in Legs /\ <<m, "dest">> \in Legs
        BY <2>2 DEF Legs, Sides
  <2>6. SourceSign(request[r].op, m) \in Int /\ DestSign(request[r].op) \in Int
        BY DEF SourceSign, DestSign, ConfirmSign, ReverseSign
  <2>7. terms[m].source \in Accounts
        BY <2>2 DEF Terms
  <2>8. HasDest(m) => terms[m].dest \in Accounts
        BY <2>2 DEF Terms, HasDest
  <2>9. CASE ReadSource(r)
        BY <2>3, <2>7, <2>9 DEF ReadSource, Steps
  <2>10. CASE WriteSource(r)
        BY <2>4, <2>5, <2>6, <2>7, <2>10 DEF WriteSource, Steps
  <2>11. CASE ReadDest(r)
        BY <2>1, <2>3, <2>8, <2>11 DEF ReadDest, Steps, HandlerInv, At
  <2>12. CASE WriteDest(r)
        BY <2>1, <2>4, <2>5, <2>6, <2>8, <2>12 DEF WriteDest, Steps, HandlerInv, At
  <2>13. CASE WriteStatus(r)
    <3>1. Outcome(request[r].op) \in Statuses
          BY <2>1 DEF Outcome, Statuses, Running, Ops
    <3> QED BY <2>1, <2>2, <2>13, <3>1 DEF WriteStatus, TypeOK, Goto, Running, Steps
  <2>14. CASE WriteAudit(r)
        BY <2>1, <2>2, <2>14 DEF WriteAudit, TypeOK, Running
  <2>15. CASE Abort(r)
        BY <2>1, <2>2, <2>15 DEF Abort, TypeOK
  <2> QED BY <1>4, <2>9, <2>10, <2>11, <2>12, <2>13, <2>14, <2>15 DEF Advance
<1>5. CASE UNCHANGED vars
      BY <1>5 DEF vars, TypeOK
<1> QED BY <1>1, <1>2, <1>3, <1>4, <1>5 DEF Next

\* What a step of a running handler leaves of the other requests, and of its
\* own record, whichever step it is.
LEMMA AdvanceFrame ==
    ASSUME TypeOK, NEW r \in Requests, Advance(r)
    PROVE  /\ Busy(r)
           /\ \A q \in Requests \ {r} : request'[q] = request[q]
           /\ \/ request'[r] = Idle
              \/ /\ Busy(r)'
                 /\ request'[r].m = request[r].m
                 /\ request'[r].op = request[r].op
                 /\ request'[r].seen = request[r].seen
           /\ UNCHANGED <<terms, account, raced, torn>>
<1>1. request[r] \in Running
      BY BusyFields DEF Advance, ReadSource, WriteSource, ReadDest,
         WriteDest, WriteStatus, WriteAudit, At
<1>2. ASSUME NEW pc \in Steps, request' = [request EXCEPT ![r].pc = pc]
      PROVE  request'[r] # Idle
  <2>1. request'[r].pc = pc
        BY <1>1, <1>2 DEF TypeOK, Running
  <2> QED BY <2>1 DEF Steps, Idle
<1>3. ASSUME NEW a, NEW pc \in Steps, Read(r, a, pc)
      PROVE  request'[r] # Idle
  <2>1. request'[r].pc = pc
        BY <1>1, <1>3 DEF TypeOK, Running, Read
  <2> QED BY <2>1 DEF Steps, Idle
<1>4. ASSUME NEW a, NEW pc \in Steps, Read(r, a, pc)
      PROVE  /\ \A q \in Requests \ {r} : request'[q] = request[q]
             /\ Busy(r)' /\ request'[r].m = request[r].m
             /\ request'[r].op = request[r].op /\ request'[r].seen = request[r].seen
             /\ UNCHANGED <<terms, account, raced, torn>>
      BY <1>1, <1>3, <1>4 DEF Read, Busy, history, TypeOK, Running
<1>5. ASSUME NEW a, NEW leg, NEW sign, NEW pc \in Steps, Write(r, a, leg, sign, pc)
      PROVE  /\ \A q \in Requests \ {r} : request'[q] = request[q]
             /\ Busy(r)' /\ request'[r].m = request[r].m
             /\ request'[r].op = request[r].op /\ request'[r].seen = request[r].seen
             /\ UNCHANGED <<terms, account, raced, torn>>
      BY <1>1, <1>2, <1>5 DEF Write, Busy, Goto, TypeOK, Running
<1> DEFINE Kept == /\ \A q \in Requests \ {r} : request'[q] = request[q]
                   /\ request'[r].m = request[r].m /\ request'[r].op = request[r].op
                   /\ request'[r].seen = request[r].seen
                   /\ UNCHANGED <<terms, account, raced, torn>>
<1>6. ASSUME ReadSource(r)
      PROVE  Busy(r) /\ Busy(r)' /\ Kept
      BY <1>1, <1>4, <1>6 DEF ReadSource, At, Steps
<1>7. ASSUME WriteSource(r)
      PROVE  Busy(r) /\ Busy(r)' /\ Kept
      BY <1>1, <1>5, <1>7 DEF WriteSource, At, Steps
<1>8. ASSUME ReadDest(r)
      PROVE  Busy(r) /\ Busy(r)' /\ Kept
      BY <1>1, <1>4, <1>8 DEF ReadDest, At, Steps
<1>9. ASSUME WriteDest(r)
      PROVE  Busy(r) /\ Busy(r)' /\ Kept
      BY <1>1, <1>5, <1>9 DEF WriteDest, At, Steps
<1>10. ASSUME WriteStatus(r)
      PROVE  Busy(r) /\ Busy(r)' /\ Kept
      BY <1>1, <1>2, <1>10 DEF WriteStatus, At, Busy, Goto, history, TypeOK, Running, Steps
<1>11. CASE WriteAudit(r)
      BY <1>1, <1>11 DEF WriteAudit, At, history, TypeOK
<1> QED BY <1>6, <1>7, <1>8, <1>9, <1>10, <1>11 DEF Advance

LEMMA RowsStep ==
    ASSUME Inv, [Next]_vars
    PROVE  RowsInv'
<1> USE DEF Inv, RowsInv
<1>1. ASSUME NEW a \in Accounts, CreateBankAccount(a) \/ DeleteBankAccount(a)
      PROVE  RowsInv'
      BY <1>1 DEF CreateBankAccount, DeleteBankAccount, Busy
<1>2. ASSUME NEW m \in Movements, NEW t \in Terms, CreateMovement(m, t)
      PROVE  RowsInv'
      BY <1>2 DEF TypeOK, CreateMovement, Busy
<1>3. ASSUME NEW r \in Requests, NEW m \in Movements,
             BeginConfirm(r, m) \/ BeginReconcile(r, m) \/ BeginCancel(r, m)
      PROVE  RowsInv'
      BY <1>3 DEF TypeOK, BeginConfirm, BeginReconcile, BeginCancel, Begin, Busy
<1>4. ASSUME NEW r \in Requests, Advance(r)
      PROVE  RowsInv'
  <2>1. \/ status' = status
        \/ status' = [status EXCEPT ![request[r].m] = Outcome(request[r].op)]
        BY <1>4 DEF Advance, ReadSource, WriteSource, ReadDest, WriteDest,
           WriteStatus, WriteAudit, Read, Write
  <2>2. request[r] \in Running
        BY <1>4, BusyFields, AdvanceFrame
  <2>3. Outcome(request[r].op) # "absent"
        BY <2>2 DEF Outcome, Running, Ops
  <2> QED BY <1>4, <2>1, <2>2, <2>3, AdvanceFrame DEF TypeOK, Busy, Running
<1>5. ASSUME NEW r \in Requests, Abort(r)
      PROVE  RowsInv'
      BY <1>5 DEF TypeOK, Abort, Busy
<1>6. CASE UNCHANGED vars
      BY <1>6 DEF vars, Busy
<1> QED BY <1>1, <1>2, <1>3, <1>4, <1>5, <1>6 DEF Next

LEMMA HandlerStep ==
    ASSUME Inv, [Next]_vars
    PROVE  HandlerInv'
<1> USE DEF Inv, HandlerInv
<1>1. ASSUME NEW a \in Accounts, CreateBankAccount(a) \/ DeleteBankAccount(a)
      PROVE  HandlerInv'
      BY <1>1 DEF CreateBankAccount, DeleteBankAccount, Busy, HasDest
<1>2. ASSUME NEW m \in Movements, NEW t \in Terms, CreateMovement(m, t)
      PROVE  HandlerInv'
      BY <1>2 DEF TypeOK, RowsInv, CreateMovement, Busy, HasDest, Running
<1>3. ASSUME NEW r \in Requests, NEW m \in Movements,
             BeginConfirm(r, m) \/ BeginReconcile(r, m) \/ BeginCancel(r, m)
      PROVE  HandlerInv'
      BY <1>3 DEF TypeOK, BeginConfirm, BeginReconcile, BeginCancel, Begin, Busy, HasDest
<1>4. ASSUME NEW r \in Requests, Advance(r)
      PROVE  HandlerInv'
  <2>1. request[r] \in Running /\ Busy(r)
        BY <1>4, BusyFields, AdvanceFrame
  <2>2. /\ \A q \in Requests \ {r} : request'[q] = request[q]
        /\ terms' = terms
        BY <1>4, AdvanceFrame
  <2>3. CASE ReadSource(r)
        BY <2>1, <2>2, <2>3 DEF ReadSource, Read, At, TypeOK, Running, Busy, HasDest
  <2>4. CASE WriteSource(r)
        BY <2>1, <2>2, <2>4 DEF WriteSource, Write, Goto, At, TypeOK, Running, Busy, HasDest
  <2>5. CASE ReadDest(r)
        BY <2>1, <2>2, <2>5 DEF ReadDest, Read, At, TypeOK, Running, Busy, HasDest
  <2>6. CASE WriteDest(r)
        BY <2>1, <2>2, <2>6 DEF WriteDest, Write, Goto, At, TypeOK, Running, Busy, HasDest
  <2>7. CASE WriteStatus(r)
        BY <2>1, <2>2, <2>7 DEF WriteStatus, Goto, At, TypeOK, Running, Busy, HasDest
  <2>8. CASE WriteAudit(r)
        BY <2>1, <2>2, <2>8 DEF WriteAudit, At, TypeOK, Running, Busy, HasDest
  <2> QED BY <1>4, <2>3, <2>4, <2>5, <2>6, <2>7, <2>8 DEF Advance
<1>5. ASSUME NEW r \in Requests, Abort(r)
      PROVE  HandlerInv'
      BY <1>5 DEF TypeOK, Abort, Busy, HasDest
<1>6. CASE UNCHANGED vars
      BY <1>6 DEF vars, Busy, HasDest
<1> QED BY <1>1, <1>2, <1>3, <1>4, <1>5, <1>6 DEF Next

LEMMA AloneStep ==
    ASSUME Inv, [Next]_vars
    PROVE  AloneInv'
<1> USE DEF Inv, AloneInv, history
<1>1. ASSUME NEW a \in Accounts, CreateBankAccount(a) \/ DeleteBankAccount(a)
      PROVE  AloneInv'
      BY <1>1 DEF CreateBankAccount, DeleteBankAccount, Busy, Handling
<1>2. ASSUME NEW m \in Movements, NEW t \in Terms, CreateMovement(m, t)
      PROVE  AloneInv'
      BY <1>2 DEF TypeOK, RowsInv, CreateMovement, Busy, Handling
<1>3. ASSUME NEW r \in Requests, NEW m \in Movements,
             BeginConfirm(r, m) \/ BeginReconcile(r, m) \/ BeginCancel(r, m)
      PROVE  AloneInv'
      BY <1>3 DEF TypeOK, BeginConfirm, BeginReconcile, BeginCancel, Begin, Busy, Handling
<1>4. ASSUME NEW r \in Requests, Advance(r)
      PROVE  AloneInv'
  <2>1. request[r] \in Running /\ Busy(r)
        BY <1>4, BusyFields, AdvanceFrame
  <2>2. CASE WriteStatus(r)
    <3>1. /\ request'[r].pc = "audit"
          /\ \A q \in Requests \ {r} : request'[q] = request[q]
          /\ \A m \in Movements : m # request[r].m => status'[m] = status[m]
          /\ raced' = raced
          BY <2>1, <2>2 DEF WriteStatus, Goto, TypeOK, Running
    <3>2. Handling(r, request[r].m)
          BY <2>1, <2>2 DEF WriteStatus, At, Handling
    <3>3. \A q \in Requests, m \in Movements : Handling(q, m)' => q # r /\ Handling(q, m)
          BY <3>1 DEF Handling, Busy
    <3> QED BY <2>1, <3>1, <3>2, <3>3
  <2>3. CASE ~WriteStatus(r)
    <3>1. status' = status
          BY <1>4, <2>3 DEF Advance, ReadSource, WriteSource, ReadDest, WriteDest,
             WriteAudit, Read, Write
    <3>2. \A q \in Requests, m \in Movements : Handling(q, m)' => Handling(q, m)
      <4>1. ASSUME request[r].pc = "audit" PROVE request'[r] = Idle
            BY <1>4, <2>1, <2>3, <4>1 DEF Advance, ReadSource, WriteSource, ReadDest,
               WriteDest, WriteAudit, At, TypeOK
      <4> QED BY <1>4, <4>1, AdvanceFrame DEF Handling, Busy
    <3>3. \A q \in Requests, m \in Movements :
             Handling(q, m)' => request'[q].seen = request[q].seen
          BY <1>4, AdvanceFrame DEF Handling, Busy
    <3> QED BY <1>4, <3>1, <3>2, <3>3, AdvanceFrame
  <2> QED BY <2>2, <2>3
<1>5. ASSUME NEW r \in Requests, Abort(r)
      PROVE  AloneInv'
      BY <1>5 DEF TypeOK, Abort, Busy, Handling
<1>6. CASE UNCHANGED vars
      BY <1>6 DEF vars, Busy, Handling
<1> QED BY <1>1, <1>2, <1>3, <1>4, <1>5, <1>6 DEF Next

(***************************************************************************)
(* LedgerInv, one lemma for each kind of step.                             *)
(***************************************************************************)

LEMMA LedgerBegin ==
    ASSUME Inv, NEW r \in Requests, NEW m0 \in Movements,
           BeginConfirm(r, m0) \/ BeginReconcile(r, m0) \/ BeginCancel(r, m0)
    PROVE  LedgerInv'
<1>1. /\ ~Busy(r) /\ Busy(r)'
      /\ request'[r].m = m0 /\ request'[r].seen = status[m0]
      /\ request'[r].pc \in {"readSource", "writeStatus"}
      /\ request'[r].pc = "writeStatus" =>
            \/ request'[r].op = "reconcile"
            \/ /\ request'[r].op = "cancel"
               /\ request'[r].seen = "PENDING"
      /\ \A q \in Requests \ {r} : request'[q] = request[q]
      /\ UNCHANGED <<applied, status, terms, lost, torn>>
      /\ raced \subseteq raced'
      /\ m0 \notin raced' => \A q \in Requests : ~Handling(q, m0)
      BY DEF Inv, TypeOK, BeginConfirm, BeginReconcile, BeginCancel, Begin, Busy, Idle
<1>2. ~Wrote(r, "source")' /\ ~Wrote(r, "dest")'
      BY <1>1 DEF Wrote
<1>3. \A q \in Requests \ {r} : \A m \in Movements, side \in Sides :
         /\ Handling(q, m)' <=> Handling(q, m)
         /\ Wrote(q, side)' <=> Wrote(q, side)
      BY <1>1 DEF Handling, Wrote, Busy
<1>4. \A a, m, side : /\ Booked(a, m, side)' = Booked(a, m, side)
                      /\ Full(a, m, side)' = Full(a, m, side)
      BY <1>1 DEF Booked, Full, Settled, HasLeg, HasDest, LegAccount, LegSign
<1> SUFFICES ASSUME NEW a \in Accounts \ lost', NEW m \in Movements \ (raced' \cup torn'),
                    NEW side \in Sides
             PROVE  /\ (\A q \in Requests : ~Handling(q, m)') =>
                         applied'[a][<<m, side>>] = Booked(a, m, side)'
                    /\ \A q \in Requests : Handling(q, m)' =>
                         applied'[a][<<m, side>>] =
                            IF Wrote(q, side)'
                            THEN IF request'[q].op = "confirm" THEN Full(a, m, side)' ELSE 0
                            ELSE Booked(a, m, side)'
    BY DEF LedgerInv
<1>5. a \in Accounts \ lost /\ m \in Movements \ (raced \cup torn)
      BY <1>1
<1>6. CASE m = m0
  <2>1. \A q \in Requests : Handling(q, m)' => q = r
        BY <1>1, <1>3, <1>6
  <2>2. applied[a][<<m, side>>] = Booked(a, m, side)
        BY <1>1, <1>5, <1>6 DEF Inv, LedgerInv
  <2>3. side \in {"source", "dest"}
        BY DEF Sides
  <2> QED BY <1>1, <1>2, <1>4, <2>1, <2>2, <2>3
<1>7. CASE m # m0
  <2>1. ~Handling(r, m)' /\ ~Handling(r, m)
        BY <1>1, <1>7 DEF Handling
  <2> QED BY <1>1, <1>3, <1>4, <1>5, <2>1 DEF Inv, LedgerInv
<1> QED BY <1>6, <1>7

\* A balance write changes one leg of one account, and a stale one gives the
\* account up.
LEMMA LedgerWrite ==
    ASSUME Inv, NEW r \in Requests, NEW q0 \in Running, request[r] = q0, Busy(r),
           NEW m0, m0 = q0.m,
           NEW s0 \in Sides, HasLeg(m0, s0),
           q0.pc = IF s0 = "source" THEN "writeSource" ELSE "writeDest",
           NEW sign, sign = IF s0 = "source" THEN SourceSign(q0.op, m0) ELSE DestSign(q0.op),
           NEW a0, a0 = LegAccount(m0, s0),
           Write(r, a0, <<m0, s0>>, sign,
                 IF s0 = "source" /\ HasDest(m0) THEN "readDest" ELSE "writeStatus")
    PROVE  LedgerInv'
<1>1. m0 \in Movements
      BY DEF Running
<1>2. s0 \in {"source", "dest"}
      BY DEF Sides
<1>3. /\ applied' = [applied EXCEPT ![a0] = [q0.read EXCEPT ![<<m0, s0>>] = @ + sign]]
      /\ lost' = IF q0.read = applied[a0] THEN lost ELSE lost \cup {a0}
      /\ UNCHANGED <<status, terms, raced, torn>>
      BY DEF Write
<1>5. /\ request'[r].m = m0 /\ request'[r].op = q0.op /\ request'[r].seen = q0.seen
      /\ Busy(r)'
      /\ request'[r].pc = IF s0 = "source" /\ HasDest(m0) THEN "readDest" ELSE "writeStatus"
      /\ \A q \in Requests \ {r} : request'[q] = request[q]
      BY DEF Inv, TypeOK, Running, Busy, Idle, Write, Goto
<1>6. \/ q0.op = "confirm" /\ q0.seen = "PENDING"
      \/ q0.op = "cancel" /\ q0.seen = "CONFIRMED"
      BY <1>2 DEF Inv, HandlerInv, Running, Ops
<1>7. /\ Wrote(r, s0)' /\ ~Wrote(r, s0)
      /\ \A side \in Sides : side # s0 /\ HasLeg(m0, side) => (Wrote(r, side)' <=> Wrote(r, side))
  <2>1. CASE s0 = "source"
        BY <1>5, <1>6, <2>1 DEF Wrote, HasLeg, Sides
  <2>2. CASE s0 = "dest"
        BY <1>5, <1>6, <2>2 DEF Wrote, HasLeg, Sides
  <2> QED BY <1>2, <2>1, <2>2
<1>8. \A q \in Requests, m \in Movements : Handling(q, m)' <=> Handling(q, m)
      BY <1>2, <1>5 DEF Handling, Busy
<1>9. \A a, m, side : /\ Booked(a, m, side)' = Booked(a, m, side)
                      /\ Full(a, m, side)' = Full(a, m, side)
      BY <1>3 DEF Booked, Full, Settled, HasLeg, HasDest, LegAccount, LegSign
<1> SUFFICES ASSUME NEW a \in Accounts \ lost', NEW m \in Movements \ (raced' \cup torn'),
                    NEW side \in Sides
             PROVE  /\ (\A q \in Requests : ~Handling(q, m)') =>
                         applied'[a][<<m, side>>] = Booked(a, m, side)'
                    /\ \A q \in Requests : Handling(q, m)' =>
                         applied'[a][<<m, side>>] =
                            IF Wrote(q, side)'
                            THEN IF request'[q].op = "confirm" THEN Full(a, m, side)' ELSE 0
                            ELSE Booked(a, m, side)'
    BY DEF LedgerInv
<1>10. a \in Accounts \ lost /\ m \in Movements \ (raced \cup torn)
       BY <1>3
<1>11. Handling(r, m0)
       BY <1>2 DEF Handling
<1>12. applied'[a][<<m, side>>] =
          IF a = a0 /\ m = m0 /\ side = s0 THEN applied[a][<<m, side>>] + sign
                                           ELSE applied[a][<<m, side>>]
  <2>1. applied[a] \in Contents /\ <<m, side>> \in Legs /\ <<m0, s0>> \in Legs
        BY <1>1 DEF Inv, TypeOK, Legs
  <2>2. CASE a = a0
    <3>1. q0.read = applied[a]
          BY <1>3, <1>10, <2>2
    <3>2. applied'[a] = [applied[a] EXCEPT ![<<m0, s0>>] = @ + sign]
          BY <1>3, <1>10, <2>2, <3>1 DEF Inv, TypeOK
    <3> QED BY <2>1, <2>2, <3>2 DEF Contents
  <2>3. CASE a # a0
        BY <1>3, <2>3 DEF Inv, TypeOK
  <2> QED BY <2>2, <2>3
<1>13. CASE m = m0
  <2>1. /\ \A q \in Requests : Handling(q, m) => q = r
        /\ q0.seen = status[m]
        BY <1>10, <1>11, <1>13 DEF Inv, AloneInv
  <2>2. applied[a][<<m, side>>] =
           IF Wrote(r, side) THEN IF q0.op = "confirm" THEN Full(a, m, side) ELSE 0
                             ELSE Booked(a, m, side)
        BY <1>10, <1>11, <1>13 DEF Inv, LedgerInv
  <2>3. Booked(a, m, side) = IF q0.seen = "CONFIRMED" THEN Full(a, m, side) ELSE 0
        BY <1>6, <2>1 DEF Booked, Settled, Full
  <2>4. applied'[a][<<m, side>>] =
           IF Wrote(r, side)' THEN IF q0.op = "confirm" THEN Full(a, m, side) ELSE 0
                              ELSE Booked(a, m, side)
    <3>1. CASE side = s0
      <4>1. Full(a, m, side) = IF a = a0 THEN LegSign(m, side) ELSE 0
            BY <1>13, <3>1 DEF Full
      <4>2. sign = IF q0.op = "confirm" THEN LegSign(m, side) ELSE -LegSign(m, side)
            BY <1>2, <1>6, <1>13, <3>1
               DEF SourceSign, DestSign, LegSign, ConfirmSign, ReverseSign
      <4>3. LegSign(m, side) \in Int
            BY DEF LegSign, ConfirmSign
      <4> QED BY <1>6, <1>7, <1>12, <1>13, <2>2, <2>3, <3>1, <4>1, <4>2, <4>3
    <3>2. CASE side # s0 /\ HasLeg(m, side)
          BY <1>7, <1>12, <1>13, <2>2, <3>2
    <3>3. CASE ~HasLeg(m, side)
          BY <1>12, <1>13, <2>2, <2>3, <3>3 DEF Full
    <3> QED BY <3>1, <3>2, <3>3
  <2> QED BY <1>5, <1>8, <1>9, <1>11, <1>13, <2>1, <2>4
<1>14. CASE m # m0
  <2>1. applied'[a][<<m, side>>] = applied[a][<<m, side>>]
        BY <1>12, <1>14
  <2>2. \A q \in Requests : Handling(q, m) => q # r
        BY <1>14 DEF Handling
  <2>3. \A q \in Requests \ {r} : Wrote(q, side)' <=> Wrote(q, side)
        BY <1>5 DEF Wrote
  <2> QED BY <1>5, <1>8, <1>9, <1>10, <2>1, <2>2, <2>3 DEF Inv, LedgerInv
<1> QED BY <1>13, <1>14

\* A step that writes no balance and no movement: every handler that goes on
\* stands where it stood as far as the ledger is concerned.
LEMMA LedgerFrame ==
    ASSUME Inv, UNCHANGED <<applied, status, terms, raced, lost>>, torn \subseteq torn',
           \A q \in Requests, m \in Movements : Handling(q, m)' =>
              /\ Handling(q, m)
              /\ request'[q].op = request[q].op
              /\ \A side \in Sides : Wrote(q, side)' <=> Wrote(q, side),
           \A q \in Requests, m \in Movements \ torn' :
              Handling(q, m) /\ ~Handling(q, m)' => \A side \in Sides : ~Wrote(q, side)
    PROVE  LedgerInv'
<1>1. \A a, m, side : /\ Booked(a, m, side)' = Booked(a, m, side)
                      /\ Full(a, m, side)' = Full(a, m, side)
      BY DEF Booked, Full, Settled, HasLeg, HasDest, LegAccount, LegSign
<1> SUFFICES ASSUME NEW a \in Accounts \ lost', NEW m \in Movements \ (raced' \cup torn'),
                    NEW side \in Sides
             PROVE  /\ (\A q \in Requests : ~Handling(q, m)') =>
                         applied'[a][<<m, side>>] = Booked(a, m, side)'
                    /\ \A q \in Requests : Handling(q, m)' =>
                         applied'[a][<<m, side>>] =
                            IF Wrote(q, side)'
                            THEN IF request'[q].op = "confirm" THEN Full(a, m, side)' ELSE 0
                            ELSE Booked(a, m, side)'
    BY DEF LedgerInv
<1>2. a \in Accounts \ lost /\ m \in Movements \ (raced \cup torn)
      OBVIOUS
<1>3. \A q \in Requests : Handling(q, m)' =>
         applied'[a][<<m, side>>] =
            IF Wrote(q, side)' THEN IF request'[q].op = "confirm" THEN Full(a, m, side)' ELSE 0
                               ELSE Booked(a, m, side)'
      BY <1>1, <1>2 DEF Inv, LedgerInv
<1>4. (\A q \in Requests : ~Handling(q, m)') => applied'[a][<<m, side>>] = Booked(a, m, side)'
      BY <1>1, <1>2 DEF Inv, LedgerInv
<1> QED BY <1>3, <1>4

LEMMA LedgerWriteStatus ==
    ASSUME Inv, NEW r \in Requests, NEW m0, m0 = request[r].m, WriteStatus(r)
    PROVE  LedgerInv'
<1>1. request[r] \in Running /\ Busy(r) /\ m0 \in Movements /\ request[r].pc = "writeStatus"
      BY BusyFields DEF Inv, WriteStatus, At, Running
<1>2. /\ status' = [status EXCEPT ![m0] = Outcome(request[r].op)]
      /\ request'[r].pc = "audit"
      /\ \A q \in Requests \ {r} : request'[q] = request[q]
      /\ UNCHANGED <<applied, terms, raced, torn, lost>>
      BY <1>1 DEF WriteStatus, Goto, history, Inv, TypeOK, Running
<1>3. Handling(r, m0) /\ \A m \in Movements : ~Handling(r, m)'
      BY <1>1, <1>2 DEF Handling
<1>4. \A q \in Requests \ {r} : \A m \in Movements, side \in Sides :
         /\ Handling(q, m)' <=> Handling(q, m)
         /\ Wrote(q, side)' <=> Wrote(q, side)
      BY <1>2 DEF Handling, Wrote, Busy
<1>5. \A a, m, side : Full(a, m, side)' = Full(a, m, side)
      BY <1>2 DEF Full, HasLeg, HasDest, LegAccount, LegSign
<1>6. \A a, side : \A m \in Movements \ {m0} : Booked(a, m, side)' = Booked(a, m, side)
      BY <1>1, <1>2 DEF Inv, TypeOK, Booked, Settled, HasLeg, HasDest, LegAccount, LegSign
<1>7. \A a, side : Booked(a, m0, side)' = IF request[r].op = "cancel" THEN 0 ELSE Full(a, m0, side)
  <2>1. status'[m0] = Outcome(request[r].op)
        BY <1>1, <1>2 DEF Inv, TypeOK
  <2> QED BY <1>1, <1>2, <2>1 DEF Booked, Settled, Full, HasLeg, HasDest, LegAccount, LegSign,
                                  Outcome, Running, Ops
<1> SUFFICES ASSUME NEW a \in Accounts \ lost', NEW m \in Movements \ (raced' \cup torn'),
                    NEW side \in Sides
             PROVE  /\ (\A q \in Requests : ~Handling(q, m)') =>
                         applied'[a][<<m, side>>] = Booked(a, m, side)'
                    /\ \A q \in Requests : Handling(q, m)' =>
                         applied'[a][<<m, side>>] =
                            IF Wrote(q, side)'
                            THEN IF request'[q].op = "confirm" THEN Full(a, m, side)' ELSE 0
                            ELSE Booked(a, m, side)'
    BY DEF LedgerInv
<1>8. a \in Accounts \ lost /\ m \in Movements \ (raced \cup torn)
      BY <1>2
<1>9. CASE m = m0
  <2>1. \A q \in Requests : Handling(q, m) => q = r
        BY <1>3, <1>8, <1>9 DEF Inv, AloneInv
  <2>2. \A q \in Requests : ~Handling(q, m)'
        BY <1>3, <1>4, <2>1
  <2>3. /\ request[r].seen = status[m]
        /\ applied[a][<<m, side>>] =
              IF Wrote(r, side) THEN IF request[r].op = "confirm" THEN Full(a, m, side) ELSE 0
                                ELSE Booked(a, m, side)
        BY <1>3, <1>8, <1>9 DEF Inv, AloneInv, LedgerInv
  <2>4. Booked(a, m, side) = IF request[r].seen = "CONFIRMED" THEN Full(a, m, side) ELSE
                             IF request[r].seen = "RECONCILED" THEN Full(a, m, side) ELSE 0
        BY <1>1, <2>3 DEF Booked, Settled, Full, Running, Statuses
  <2>5. applied[a][<<m, side>>] = IF request[r].op = "cancel" THEN 0 ELSE Full(a, m, side)
    <3>1. CASE request[r].op = "confirm"
          BY <1>1, <2>3, <3>1 DEF Wrote
    <3>2. CASE request[r].op = "reconcile"
          BY <1>1, <2>3, <2>4, <3>2 DEF Wrote, Inv, HandlerInv
    <3>3. CASE request[r].op = "cancel"
          BY <1>1, <2>3, <2>4, <3>3 DEF Wrote, Inv, HandlerInv
    <3> QED BY <1>1, <3>1, <3>2, <3>3 DEF Running, Ops
  <2> QED BY <1>2, <1>7, <1>9, <2>2, <2>5
<1>10. CASE m # m0
  <2>1. ~Handling(r, m) /\ ~Handling(r, m)'
        BY <1>3, <1>10 DEF Handling
  <2> QED BY <1>2, <1>4, <1>5, <1>6, <1>8, <1>10, <2>1 DEF Inv, LedgerInv
<1> QED BY <1>9, <1>10

LEMMA LedgerStep ==
    ASSUME Inv, [Next]_vars
    PROVE  LedgerInv'
<1>1. ASSUME NEW a \in Accounts, CreateBankAccount(a) \/ DeleteBankAccount(a)
      PROVE  LedgerInv'
      BY <1>1, LedgerFrame DEF CreateBankAccount, DeleteBankAccount, history, Handling, Busy, Wrote
<1>2. ASSUME NEW m \in Movements, NEW t \in Terms, CreateMovement(m, t)
      PROVE  LedgerInv'
  <2>1. \A q \in Requests : ~Handling(q, m)
        BY <1>2 DEF CreateMovement, Handling, Inv, RowsInv
  <2>2. \A a, side : Booked(a, m, side) = 0 /\ Booked(a, m, side)' = 0
        BY <1>2 DEF CreateMovement, Booked, Settled, Inv, TypeOK
  <2>3. \A a, side : \A n \in Movements \ {m} :
           /\ Booked(a, n, side)' = Booked(a, n, side)
           /\ Full(a, n, side)' = Full(a, n, side)
        BY <1>2 DEF CreateMovement, Booked, Full, Settled, HasLeg, HasDest, LegAccount,
           LegSign, Inv, TypeOK
  <2>4. \A q \in Requests, n \in Movements, side \in Sides :
           /\ Handling(q, n)' <=> Handling(q, n)
           /\ Wrote(q, side)' <=> Wrote(q, side)
           /\ request' = request
        BY <1>2 DEF CreateMovement, Handling, Busy, Wrote
  <2>5. UNCHANGED <<applied, request, raced, torn, lost>>
        BY <1>2 DEF CreateMovement, history
  <2> SUFFICES ASSUME NEW a \in Accounts \ lost', NEW n \in Movements \ (raced' \cup torn'),
                      NEW side \in Sides
               PROVE  /\ (\A q \in Requests : ~Handling(q, n)') =>
                           applied'[a][<<n, side>>] = Booked(a, n, side)'
                      /\ \A q \in Requests : Handling(q, n)' =>
                           applied'[a][<<n, side>>] =
                              IF Wrote(q, side)'
                              THEN IF request'[q].op = "confirm" THEN Full(a, n, side)' ELSE 0
                              ELSE Booked(a, n, side)'
      BY DEF LedgerInv
  <2>6. CASE n = m
        BY <2>1, <2>2, <2>4, <2>5, <2>6 DEF Inv, LedgerInv
  <2>7. CASE n # m
        BY <2>3, <2>4, <2>5, <2>7 DEF Inv, LedgerInv
  <2> QED BY <2>6, <2>7
<1>3. ASSUME NEW r \in Requests, NEW m \in Movements,
             BeginConfirm(r, m) \/ BeginReconcile(r, m) \/ BeginCancel(r, m)
      PROVE  LedgerInv'
      BY <1>3, LedgerBegin
<1>4. ASSUME NEW r \in Requests, Advance(r)
      PROVE  LedgerInv'
  <2>1. request[r] \in Running /\ Busy(r)
        BY <1>4, BusyFields, AdvanceFrame DEF Inv
  <2>2. CASE ReadSource(r) \/ ReadDest(r)
    <3>1. /\ \A q \in Requests \ {r} : request'[q] = request[q]
          /\ request'[r].m = request[r].m /\ request'[r].op = request[r].op
          /\ request'[r].seen = request[r].seen
          /\ \/ request[r].pc = "readSource" /\ request'[r].pc = "writeSource"
             \/ request[r].pc = "readDest" /\ request'[r].pc = "writeDest"
          /\ UNCHANGED <<applied, status, terms, raced, torn, lost>>
          BY <2>1, <2>2 DEF ReadSource, ReadDest, Read, At, history, Inv, TypeOK, Running
    <3>2. \A side \in Sides : Wrote(r, side)' <=> Wrote(r, side)
          BY <3>1 DEF Wrote, Sides
    <3>3. \A m : Handling(r, m)' <=> Handling(r, m)
          BY <2>1, <3>1 DEF Handling, Busy, Idle
    <3>4. \A q \in Requests \ {r} : \A m \in Movements, side \in Sides :
             /\ Handling(q, m)' <=> Handling(q, m)
             /\ Wrote(q, side)' <=> Wrote(q, side)
          BY <3>1 DEF Handling, Busy, Wrote
    <3>5. ASSUME NEW q \in Requests, NEW m \in Movements
          PROVE  /\ Handling(q, m)' <=> Handling(q, m)
                 /\ request'[q].op = request[q].op
                 /\ \A side \in Sides : Wrote(q, side)' <=> Wrote(q, side)
      <4>1. CASE q = r
            BY <3>1, <3>2, <3>3, <4>1
      <4>2. CASE q # r
            BY <3>1, <3>4, <4>2 DEF Sides
      <4> QED BY <4>1, <4>2
    <3> QED BY <3>1, <3>5, LedgerFrame
  <2>3. CASE WriteSource(r)
        BY <2>1, <2>3, LedgerWrite DEF WriteSource, At, Sides, HasLeg, LegAccount
  <2>4. CASE WriteDest(r)
    <3>1. HasDest(request[r].m)
          BY <2>1, <2>4 DEF WriteDest, At, Inv, HandlerInv
    <3> QED BY <2>1, <2>4, <3>1, LedgerWrite DEF WriteDest, At, Sides, HasLeg, LegAccount
  <2>5. CASE WriteStatus(r)
        BY <2>5, LedgerWriteStatus
  <2>6. CASE WriteAudit(r)
    <3>1. /\ \A q \in Requests \ {r} : request'[q] = request[q]
          /\ request'[r] = Idle /\ request[r].pc = "audit"
          /\ UNCHANGED <<applied, status, terms, raced, torn, lost>>
          BY <2>6 DEF WriteAudit, At, history, Inv, TypeOK
    <3>2. \A m : ~Handling(r, m) /\ ~Handling(r, m)'
          BY <3>1 DEF Handling, Busy
    <3> QED BY <3>1, <3>2, LedgerFrame DEF Handling, Busy, Wrote
  <2> QED BY <1>4, <2>2, <2>3, <2>4, <2>5, <2>6 DEF Advance
<1>5. ASSUME NEW r \in Requests, Abort(r)
      PROVE  LedgerInv'
  <2>1. /\ \A q \in Requests \ {r} : request'[q] = request[q]
        /\ request'[r] = Idle
        /\ UNCHANGED <<applied, status, terms, raced, lost>>
        /\ torn' = IF Halfway(request[r]) THEN torn \cup {request[r].m} ELSE torn
        BY <1>5 DEF Abort, Inv, TypeOK
  <2>2. \A m : ~Handling(r, m)'
        BY <2>1 DEF Handling, Busy
  <2>3. \A m \in Movements \ torn', side \in Sides : Handling(r, m) => ~Wrote(r, side)
        BY <2>1 DEF Handling, Wrote, Halfway
  <2> QED BY <2>1, <2>2, <2>3, LedgerFrame DEF Handling, Busy, Wrote
<1>6. CASE UNCHANGED vars
      BY <1>6, LedgerFrame DEF vars, Handling, Busy, Wrote
<1> QED BY <1>1, <1>2, <1>3, <1>4, <1>5, <1>6 DEF Next

(***************************************************************************)
(* Theorems.                                                               *)
(***************************************************************************)

\* The invariant holds in every reachable state.
LEMMA Invariance == Spec => []Inv
<1>1. Inv /\ [Next]_vars => Inv'
      BY TypeStep, RowsStep, HandlerStep, AloneStep, LedgerStep DEF Inv
<1> QED BY InitInv, <1>1, PTL DEF Spec

\* Every variable of the treasury keeps its type, whatever the requests do.
THEOREM TypeCorrect == Spec => []TypeOK
BY Invariance, PTL DEF Inv

\* Whatever number of requests interleave and die, a balance disagrees with
\* the movements only on an account written from an outdated read, or for a
\* movement that two requests handled at once or whose handler died halfway.
THEOREM LedgerCorrect == Spec => []BooksBalance
<1>1. Inv => BooksBalance
      BY DEF Inv, LedgerInv, BooksBalance
<1> QED BY Invariance, <1>1, PTL

\* A reconciled or cancelled movement that no two requests met on stays so.
THEOREM TerminalKept == Spec => TerminalStatusKept
<1>1. Inv /\ [Next]_vars =>
        [\A m \in Movements \ raced' :
           status[m] \in {"RECONCILED", "CANCELLED"} => status'[m] = status[m]]_vars
  <2> SUFFICES ASSUME Inv, Next, NEW m \in Movements \ raced',
                      status[m] \in {"RECONCILED", "CANCELLED"}
               PROVE  status'[m] = status[m]
      OBVIOUS
  <2>1. CASE \E r \in Requests : WriteStatus(r)
    <3>1. PICK r \in Requests : WriteStatus(r)
          BY <2>1
    <3>2. request[r] \in Running /\ Busy(r) /\ request[r].pc = "writeStatus" /\ raced' = raced
          BY <3>1, BusyFields DEF WriteStatus, At, Inv, history
    <3>3. CASE request[r].m = m
      <4>1. request[r].seen = status[m]
            BY <3>2, <3>3 DEF Inv, AloneInv, Handling
      <4> QED BY <3>2, <4>1 DEF Inv, HandlerInv, Running, Ops
    <3>4. CASE request[r].m # m
          BY <3>1, <3>4 DEF WriteStatus, Inv, TypeOK
    <3> QED BY <3>3, <3>4
  <2>2. CASE \E n \in Movements, t \in Terms : CreateMovement(n, t)
        BY <2>2 DEF CreateMovement, Inv, TypeOK
  <2>3. CASE ~(\E r \in Requests : WriteStatus(r))
               /\ ~(\E n \in Movements, t \in Terms : CreateMovement(n, t))
        BY <2>3 DEF Next, CreateBankAccount, DeleteBankAccount, BeginConfirm, BeginReconcile,
           BeginCancel, Begin, Advance, ReadSource, ReadDest, Read, WriteSource, WriteDest,
           Write, WriteAudit, Abort
  <2> QED BY <2>1, <2>2, <2>3
<1> QED BY Invariance, <1>1, PTL DEF Spec, TerminalStatusKept

(***************************************************************************)
(* The audit log.                                                          *)
(***************************************************************************)

\* What the audit row of an operation says about the status.
Tells(op, m) ==
    /\ op = "confirm" => status[m] \notin {"absent", "PENDING"}
    /\ op = "reconcile" => status[m] = "RECONCILED"
    /\ op = "cancel" => status[m] = "CANCELLED"

\* An audit row that is there, or that a handler is about to insert, is still
\* true of the status.
TrailInv ==
    \A m \in Movements \ raced :
        /\ \A op \in Ops : <<m, op>> \in trail => Tells(op, m)
        /\ \A r \in Requests : (At(r, "audit") /\ request[r].m = m) => Tells(request[r].op, m)

\* Every step keeps the audit log true: the only step that moves a status is
\* taken by the one handler of the movement, from the status it still has.
LEMMA TrailStep ==
    ASSUME Inv, TrailInv, [Next]_vars
    PROVE  TrailInv'
<1> USE DEF Inv, TrailInv, Tells, history
<1>1. ASSUME NEW a \in Accounts, CreateBankAccount(a) \/ DeleteBankAccount(a)
      PROVE  TrailInv'
      BY <1>1 DEF CreateBankAccount, DeleteBankAccount, At, Busy
<1>2. ASSUME NEW m \in Movements, NEW t \in Terms, CreateMovement(m, t)
      PROVE  TrailInv'
  <2>1. \A op \in Ops : ~Tells(op, m)
        BY <1>2 DEF CreateMovement, Ops
  <2>2. \A n \in Movements \ {m} : status'[n] = status[n]
        BY <1>2 DEF CreateMovement, TypeOK
  <2>3. \A r \in Requests : At(r, "audit") => request[r].op \in Ops
        BY BusyFields DEF At, Running
  <2>4. UNCHANGED <<request, trail, raced>>
        BY <1>2 DEF CreateMovement
  <2> QED BY <2>1, <2>2, <2>3, <2>4 DEF At, Busy
<1>3. ASSUME NEW r \in Requests, NEW m \in Movements,
             BeginConfirm(r, m) \/ BeginReconcile(r, m) \/ BeginCancel(r, m)
      PROVE  TrailInv'
  <2>1. PICK op \in Ops, pc \in {"readSource", "writeStatus"} : Begin(r, m, op, pc)
        BY <1>3 DEF BeginConfirm, BeginReconcile, BeginCancel, Ops
  <2> QED BY <2>1 DEF Begin, At, Busy, TypeOK
<1>4. ASSUME NEW r \in Requests, Advance(r) \/ Abort(r), ~WriteStatus(r)
      PROVE  TrailInv'
  <2>1. request[r] \in Running /\ Busy(r)
        BY <1>4, BusyFields, AdvanceFrame DEF Abort
  <2>2. CASE WriteAudit(r)
        BY <2>1, <2>2 DEF WriteAudit, At, Busy, TypeOK, Running
  <2>3. CASE ~WriteAudit(r)
    <3>1. /\ \A q \in Requests \ {r} : request'[q] = request[q]
          /\ UNCHANGED <<status, trail, raced>>
          BY <1>4, <2>3, AdvanceFrame DEF Abort, Advance, ReadSource, ReadDest, Read, WriteSource,
             WriteDest, Write, TypeOK
    <3>2. ~At(r, "audit")'
          BY <1>4, <2>1, <2>3 DEF Abort, Advance, ReadSource, ReadDest, Read, WriteSource,
             WriteDest, Write, Goto, At, Busy, TypeOK, Running
    <3> QED BY <3>1, <3>2 DEF At, Busy
  <2> QED BY <2>2, <2>3
<1>5. ASSUME NEW r \in Requests, WriteStatus(r)
      PROVE  TrailInv'
  <2>1. request[r] \in Running /\ Busy(r) /\ request[r].pc = "writeStatus"
        BY <1>5, BusyFields DEF WriteStatus, At
  <2> DEFINE m0 == request[r].m
             op0 == request[r].op
  <2>2. /\ request'[r].pc = "audit" /\ request'[r].m = m0 /\ request'[r].op = op0
        /\ \A q \in Requests \ {r} : request'[q] = request[q]
        /\ status'[m0] = Outcome(op0)
        /\ \A m \in Movements \ {m0} : status'[m] = status[m]
        /\ UNCHANGED <<trail, raced>>
        BY <1>5, <2>1 DEF WriteStatus, Goto, TypeOK, Running
  <2>3. ASSUME NEW m \in Movements \ raced, NEW op \in Ops, Tells(op, m)
        PROVE  Tells(op, m)'
    <3>1. CASE m = m0
      <4>1. request[r].seen = status[m]
            BY <2>1, <3>1 DEF AloneInv, Handling
      <4>2. status[m] \in {"PENDING", "CONFIRMED"}
            BY <2>1, <4>1 DEF HandlerInv, Running, Ops
      <4> QED BY <2>1, <2>2, <2>3, <3>1, <4>2 DEF Ops, Outcome, Running
    <3>2. CASE m # m0
          BY <2>2, <2>3, <3>2
    <3> QED BY <3>1, <3>2
  <2>4. \A op \in Ops, m \in Movements : op = op0 /\ m = m0 => Tells(op, m)'
        BY <2>2 DEF Outcome, Ops
  <2>5. ASSUME NEW m \in Movements \ raced', NEW q \in Requests, At(q, "audit")', request'[q].m = m
        PROVE  Tells(request[q].op, m)'
    <3>1. PICK op \in Ops : op = request'[q].op
      <4>1. CASE q = r
            BY <2>1, <2>2, <4>1 DEF Running
      <4>2. CASE q # r
            BY <2>2, <2>5, <4>2, BusyFields DEF At, Busy, Running
      <4> QED BY <4>1, <4>2
    <3>2. Tells(op, m)'
      <4>1. CASE q = r
            BY <2>2, <2>4, <2>5, <3>1, <4>1
      <4>2. CASE q # r
        <5>1. At(q, "audit") /\ request[q].m = m /\ request[q].op = op
              BY <2>2, <2>5, <3>1, <4>2 DEF At, Busy
        <5> QED BY <2>2, <2>3, <5>1
      <4> QED BY <4>1, <4>2
    <3> QED BY <3>1, <3>2
  <2> QED BY <2>2, <2>3, <2>5
<1>6. CASE UNCHANGED vars
      BY <1>6 DEF vars, At, Busy
<1> QED BY <1>1, <1>2, <1>3, <1>4, <1>5, <1>6 DEF Next

\* The audit log explains the status of a movement that no two requests met on
\* (the rows of confirmMovement, reconcileMovement and cancelMovement), although
\* each row is inserted after the status, when the next operation may have begun.
THEOREM TrailCorrect == Spec => []TrailAgrees
<1>1. Init => TrailInv
      BY DEF Init, TrailInv, At, Busy
<1>2. TrailInv => TrailAgrees
      BY DEF TrailInv, TrailAgrees, Tells, Ops
<1> QED BY Invariance, InitInv, TrailStep, <1>1, <1>2, PTL DEF Spec

(***************************************************************************)
(* One request at a time.                                                  *)
(***************************************************************************)

\* The handler about to write a balance has read the one that is there.
Fresh ==
    /\ raced = {} /\ lost = {}
    /\ \A r \in Requests :
         /\ At(r, "writeSource") => request[r].read = applied[terms[request[r].m].source]
         /\ At(r, "writeDest") => request[r].read = applied[terms[request[r].m].dest]

ReadsInv == (\A q, r \in Requests : q = r) => Fresh

\* Every step keeps that when no other request can come between: the
\* destination of a transfer is read after the source was written.
LEMMA ReadsStep ==
    ASSUME Inv, ReadsInv, [Next]_vars
    PROVE  ReadsInv'
<1> SUFFICES ASSUME \A q, r \in Requests : q = r, Fresh
             PROVE  Fresh'
    BY DEF ReadsInv
<1> USE DEF Inv, Fresh, history
<1>1. ASSUME NEW a \in Accounts, CreateBankAccount(a) \/ DeleteBankAccount(a)
      PROVE  Fresh'
      BY <1>1 DEF CreateBankAccount, DeleteBankAccount, At, Busy
<1>2. ASSUME NEW m \in Movements, NEW t \in Terms, CreateMovement(m, t)
      PROVE  Fresh'
  <2>1. \A r \in Requests : Busy(r) => request[r].m \in Movements /\ request[r].m # m
        BY <1>2, BusyFields DEF CreateMovement, RowsInv, Running
  <2>2. \A n \in Movements \ {m} : terms'[n] = terms[n]
        BY <1>2 DEF CreateMovement, TypeOK
  <2> QED BY <1>2, <2>1, <2>2 DEF CreateMovement, At, Busy
<1>3. ASSUME NEW r \in Requests, NEW m \in Movements,
             BeginConfirm(r, m) \/ BeginReconcile(r, m) \/ BeginCancel(r, m)
      PROVE  Fresh'
  <2>1. PICK op \in Ops, pc \in {"readSource", "writeStatus"} : Begin(r, m, op, pc)
        BY <1>3 DEF BeginConfirm, BeginReconcile, BeginCancel, Ops
  <2>2. raced' = raced
        BY <2>1 DEF Begin, Handling
  <2> QED BY <2>1, <2>2 DEF Begin, At, Busy, TypeOK
<1>4. ASSUME NEW r \in Requests, Advance(r) \/ Abort(r)
      PROVE  Fresh'
  <2>1. request[r] \in Running /\ Busy(r) /\ Requests = {r}
        BY <1>4, BusyFields, AdvanceFrame DEF Abort
  <2>2. raced' = raced /\ terms' = terms
        BY <1>4, AdvanceFrame DEF Abort
  <2>3. CASE ReadSource(r) \/ ReadDest(r)
        BY <2>1, <2>2, <2>3 DEF ReadSource, ReadDest, Read, At, Busy, TypeOK, Running
  <2>4. CASE WriteSource(r) \/ WriteDest(r)
    <3>1. lost' = lost
          BY <2>1, <2>4 DEF WriteSource, WriteDest, Write
    <3>2. request'[r].pc \in {"readDest", "writeStatus"}
          BY <2>1, <2>4 DEF WriteSource, WriteDest, Write, Goto, TypeOK, Running
    <3> QED BY <2>1, <2>2, <3>1, <3>2 DEF At
  <2>5. CASE WriteStatus(r) \/ WriteAudit(r) \/ Abort(r)
        BY <2>1, <2>2, <2>5 DEF WriteStatus, WriteAudit, Abort, Goto, At, Busy, TypeOK, Running
  <2> QED BY <1>4, <2>3, <2>4, <2>5 DEF Advance
<1>5. CASE UNCHANGED vars
      BY <1>5 DEF vars, At, Busy
<1> QED BY <1>1, <1>2, <1>3, <1>4, <1>5 DEF Next

\* Movements handled one after another lose nothing of a balance
\* (confirmMovement and cancelMovement), also when a transfer names the same
\* account twice, and however often a handler dies halfway.
THEOREM AloneCorrect == Spec => []AloneLosesNothing
<1>1. Init => ReadsInv
      BY DEF Init, ReadsInv, Fresh, At, Busy
<1>2. ReadsInv => AloneLosesNothing
      BY DEF ReadsInv, Fresh, AloneLosesNothing
<1> QED BY Invariance, ReadsStep, <1>1, <1>2, PTL DEF Spec

(***************************************************************************)
(* Invoices.                                                               *)
(***************************************************************************)

(***************************************************************************)
(* The inductive invariant.                                                *)
(***************************************************************************)

\* The steps of a handler that changes items or a draft, the steps after it
\* changed items, those of a handler of a payment, and those after it changed one.
IVItemTail == {"readItems", "writeTotals"}
IVEditing == {"delete", "issue", "insertItem", "deleteItem"} \cup IVItemTail
IVPaymentTail == {"readInvoice", "readPayments", "writePaid"}
IVPaying == {"confirmPayment", "cancelPayment"} \cup IVPaymentTail

\* Rows worth f are added without error.
IVExact(f, rows) == LET some == {x \in rows : f[x] # 0} IN
    \/ IV!Cardinality(some) <= 1
    \/ IV!Cardinality(some) = 2 /\ IV!SumFunctionOnSet(f, some) = 0

\* What the columns of an invoice say of each other, when rows are worth f.
IVRowAgrees(row, f) ==
    LET paid == IV!SumFunctionOnSet(f, row.paid)
        total == IV!SumFunctionOnSet(f, row.total) IN
    /\ \/ row.due = [total |-> row.total, paid |-> row.paid]
       \/ paid <= 0 /\ row.due = [total |-> row.total, paid |-> {}]
    /\ row.status \in {"DRAFT", "ISSUED"} => paid <= 0
    /\ row.status = "PARTIALLY_PAID" =>
         /\ paid > 0 \/ (paid = 0 /\ ~IVExact(f, row.paid))
         /\ total > 0 => paid < total \/ (paid = total /\ ~IVExact(f, row.paid))
    /\ row.status = "PAID" => total > 0 /\ paid >= total

\* Rows refer to rows that are there, whatever interleaves: deleting an invoice
\* takes its items along and is refused while it has payments.
IVRowsInv ==
    /\ \A x \in Items : \A i \in InvoiceIds : item[x] = [of |-> i] => IV!Exists(i)
    /\ \A p \in Payments : payment[p] # IV!Absent => IV!Exists(payment[p].of)

\* What a handler works on is still of the invoice it began with.
IVTargetInv ==
    \A r \in Callers : LET q == billing[r] IN
        /\ q.pc = "deleteItem" => item[q.x] \in {[of |-> q.i], IV!Gone}
        /\ q.pc \in {"confirmPayment", "cancelPayment"} =>
             payment[q.p] # IV!Absent /\ payment[q.p].of = q.i
        /\ q.pc \in IVPaying => IV!PaymentsOf(q.i) # {}

IVWithin(i, pcs) == \E r \in Callers : IV!Handling(r, i) /\ billing[r].pc \in pcs

\* An invoice never handled by two requests at once is there while it is handled,
\* by one request.
IVAloneInv(i) == \A r \in Callers : IV!Handling(r, i) =>
    IV!Exists(i) /\ \A q \in Callers : IV!Handling(q, i) => q = r

\* What its handler has read is still so.
IVReadInv(i) == \A r \in Callers : IV!Handling(r, i) => LET q == billing[r] IN
    /\ q.pc \in IVEditing => invoice[i].status = "DRAFT"
    /\ q.pc = "confirmPayment" => payment[q.p].status = "PENDING"
    /\ q.pc = "cancelPayment" => payment[q.p].status = q.seen
    /\ q.pc = "writeTotals" => q.total = IV!ItemsOf(i)
    /\ q.pc \in {"readPayments", "writePaid"} =>
         q.status = invoice[i].status /\ q.total = invoice[i].total
    /\ q.pc = "writePaid" => q.paid = IV!Confirmed(i)

\* Its columns agree among themselves, whatever was lost.
IVColumnsInv(i) == IV!Exists(i) => IVRowAgrees(invoice[i], amount)

\* They count the rows, but between a change and its recalculation.
IVCountedInv(i) == IV!Exists(i) =>
    /\ (<<i, "items">> \notin halved /\ ~IVWithin(i, IVItemTail)) => invoice[i].total = IV!ItemsOf(i)
    /\ (<<i, "payments">> \notin halved /\ ~IVWithin(i, IVPaymentTail)) =>
         invoice[i].paid = IV!Confirmed(i)

IVInvoiceInv(i) == IVAloneInv(i) /\ IVReadInv(i) /\ IVColumnsInv(i) /\ IVCountedInv(i)

IVInv == IV!TypeOK /\ IVRowsInv /\ IVTargetInv /\ \A i \in InvoiceIds \ crossed : IVInvoiceInv(i)

(***************************************************************************)
(* Lemmas.                                                                 *)
(***************************************************************************)

\* A set with 0 that is closed under successors holds every natural number.
LEMMA Counting ==
    ASSUME NEW S, 0 \in S, \A n \in Nat : n \in S => n + 1 \in S
    PROVE  Nat \subseteq S
<1> DEFINE T == Nat \ S
           Lt == {p \in Nat \X Nat : p[1] < p[2]}
<1>1. ASSUME T # {} PROVE FALSE
  <2>1. OpToRel(<, Nat) = Lt
        BY DEF OpToRel
  <2>2. IsWellFoundedOn(Lt, Nat)
        BY <2>1, NatLessThanWellFounded
  <2>3. PICK x \in T : \A y \in T : ~(<<y, x>> \in Lt)
    <3> HIDE DEF Lt
    <3> QED BY <1>1, <2>2, WFMin
  <2>4. x # 0 /\ x - 1 \in Nat /\ x \in Nat /\ x \notin S
        OBVIOUS
  <2>5. <<x - 1, x>> \in Lt
        BY <2>4
  <2>6. x - 1 \in S
        BY <2>3, <2>4, <2>5
  <2>7. (x - 1) + 1 = x
        BY <2>4
  <2> QED BY <2>4, <2>6, <2>7
<1> QED BY <1>1

\* The element that a fold takes next.
Pick(s) == CHOOSE x \in s : TRUE

\* G adds up f over the subsets of S.
Adds(G, f, S) == G = [s \in SUBSET S |-> IF s = {} THEN 0 ELSE f[Pick(s)] + G[s \ {Pick(s)}]]
Adder(f, S) == CHOOSE G : Adds(G, f, S)

\* A set that is not empty loses one element, the one that was picked.
LEMMA OneLess ==
    ASSUME NEW s, IsFiniteSet(s), s # {}, NEW x \in s
    PROVE  /\ IsFiniteSet(s \ {x}) /\ Cardinality(s) \in Nat /\ Cardinality(s) # 0
           /\ Cardinality(s \ {x}) = Cardinality(s) - 1
BY FS_RemoveElement, FS_CardinalityType, FS_EmptySet

\* Pick answers an element of the set.
LEMMA Picked == ASSUME NEW s, s # {} PROVE Pick(s) \in s
BY DEF Pick

\* A sum is what such a function says of the whole set.
LEMMA SumIs == ASSUME NEW f, NEW S PROVE SumFunctionOnSet(f, S) = Adder(f, S)[S]
BY Zenon DEF SumFunctionOnSet, FoldFunctionOnSet, MapThenFoldSet, Adder, Adds, Pick

\* There is such a function for a finite set.
LEMMA AdderExists == ASSUME NEW f, NEW S, IsFiniteSet(S) PROVE Adds(Adder(f, S), f, S)
<1> DEFINE Upto(n) == {s \in SUBSET S : Cardinality(s) <= n}
           Good(G, n) == \A s \in Upto(n) :
                             G[s] = IF s = {} THEN 0 ELSE f[Pick(s)] + G[s \ {Pick(s)}]
           T == {n \in Nat : \E G : Good(G, n)}
<1>0. \A s \in SUBSET S : IsFiniteSet(s) /\ Cardinality(s) \in Nat
      BY FS_Subset, FS_CardinalityType
<1>1. 0 \in T
  <2>1. \A s \in Upto(0) : s = {}
        BY <1>0, FS_EmptySet
  <2>2. Good([s \in SUBSET S |-> 0], 0)
        BY <2>1
  <2> QED BY <2>2
<1>2. ASSUME NEW n \in Nat, n \in T PROVE n + 1 \in T
  <2>1. PICK G : Good(G, n)
        BY <1>2
  <2> DEFINE H == [s \in SUBSET S |-> IF s = {} THEN 0 ELSE f[Pick(s)] + G[s \ {Pick(s)}]]
  <2>2. \A s \in Upto(n) : H[s] = G[s]
        BY <2>1
  <2>3. ASSUME NEW s \in Upto(n + 1), s # {} PROVE s \ {Pick(s)} \in Upto(n)
    <3>1. Pick(s) \in s
          BY <2>3, Picked
    <3> QED BY <1>0, <2>3, <3>1, OneLess
  <2>4. Good(H, n + 1)
        BY <2>2, <2>3
  <2> HIDE DEF Good
  <2> QED BY <2>4
<1>3. Nat \subseteq T
  <2> HIDE DEF T
  <2> QED BY <1>1, <1>2, Counting
<1>4. Cardinality(S) \in Nat
      BY <1>0
<1>5. PICK G : Good(G, Cardinality(S))
      BY <1>3, <1>4
<1>6. Upto(Cardinality(S)) = SUBSET S
      BY FS_Subset
<1> DEFINE H == [s \in SUBSET S |-> G[s]]
<1>7. Adds(H, f, S)
  <2>1. \A s \in SUBSET S : s \ {Pick(s)} \in SUBSET S
        OBVIOUS
  <2>2. \A s \in SUBSET S : G[s] = IF s = {} THEN 0 ELSE f[Pick(s)] + G[s \ {Pick(s)}]
        BY <1>5, <1>6
  <2>3. \A s \in SUBSET S : H[s] = IF s = {} THEN 0 ELSE f[Pick(s)] + H[s \ {Pick(s)}]
        BY <2>1, <2>2
  <2> QED BY <2>3 DEF Adds
<1> QED BY <1>7 DEF Adder

\* What holds of the empty set and of a set when it holds of all sets with one
\* element less holds of every finite set.
LEMMA BySize ==
    ASSUME NEW S, IsFiniteSet(S), NEW Good,
           {} \in Good,
           \A s \in SUBSET S : s # {} /\ (\A x \in s : s \ {x} \in Good) => s \in Good
    PROVE  SUBSET S \subseteq Good
<1> DEFINE T == {n \in Nat : \A s \in SUBSET S : Cardinality(s) = n => s \in Good}
<1>0. \A s \in SUBSET S : IsFiniteSet(s) /\ Cardinality(s) \in Nat
      BY FS_Subset, FS_CardinalityType
<1>1. 0 \in T
      BY <1>0, FS_EmptySet
<1>2. ASSUME NEW n \in Nat, n \in T PROVE n + 1 \in T
  <2>1. ASSUME NEW s \in SUBSET S, Cardinality(s) = n + 1 PROVE s \in Good
    <3>1. s # {}
      <4>1. Cardinality({}) = 0
            BY FS_EmptySet
      <4> QED BY <2>1, <4>1
    <3>2. \A x \in s : s \ {x} \in SUBSET S /\ Cardinality(s \ {x}) = n
          BY <1>0, <2>1, <3>1, OneLess
    <3> QED BY <1>2, <3>1, <3>2
  <2> QED BY <2>1
<1>3. Nat \subseteq T
  <2> HIDE DEF T
  <2> QED BY <1>1, <1>2, Counting
<1> QED BY <1>0, <1>3

\* How a sum begins.
LEMMA SumStarts ==
    ASSUME NEW f, NEW S, IsFiniteSet(S), NEW s \in SUBSET S
    PROVE  Adder(f, S)[s] = IF s = {} THEN 0 ELSE f[Pick(s)] + Adder(f, S)[s \ {Pick(s)}]
<1>1. Adds(Adder(f, S), f, S)
      BY AdderExists
<1> HIDE DEF Adder
<1> QED BY <1>1 DEF Adds

\* An empty sum.
LEMMA SumEmpty == \A f : SumFunctionOnSet(f, {}) = 0
BY SumIs, SumStarts, FS_EmptySet

\* A sum of numbers is a number.
LEMMA AdderType ==
    ASSUME NEW S, IsFiniteSet(S), NEW f, \A x \in S : f[x] \in Int
    PROVE  \A s \in SUBSET S : /\ Adder(f, S)[s] \in Int
                               /\ (\A x \in S : f[x] \in Nat) => Adder(f, S)[s] \in Nat
<1> DEFINE Good == {s \in SUBSET S : /\ Adder(f, S)[s] \in Int
                                     /\ (\A x \in S : f[x] \in Nat) => Adder(f, S)[s] \in Nat}
<1>1. {} \in Good
  <2>1. {} \in SUBSET S /\ Adder(f, S)[{}] = 0
        BY SumStarts
  <2> QED BY <2>1
<1>2. ASSUME NEW s \in SUBSET S, s # {}, \A x \in s : s \ {x} \in Good PROVE s \in Good
  <2>1. Pick(s) \in s
        BY <1>2, Picked
  <2>2. Adder(f, S)[s] = f[Pick(s)] + Adder(f, S)[s \ {Pick(s)}]
        BY <1>2, SumStarts
  <2>3. s \ {Pick(s)} \in Good
        BY <1>2, <2>1
  <2> QED BY <2>1, <2>2, <2>3
<1> HIDE DEF Good
<1>3. SUBSET S \subseteq Good
      BY <1>1, <1>2, BySize
<1> QED BY <1>3 DEF Good

\* A sum of integers is an integer, and of naturals a natural.
LEMMA SumType ==
    ASSUME NEW S, IsFiniteSet(S), NEW f, \A x \in S : f[x] \in Int
    PROVE  /\ SumFunctionOnSet(f, S) \in Int
           /\ (\A x \in S : f[x] \in Nat) => SumFunctionOnSet(f, S) \in Nat
BY AdderType, SumIs

\* The number of elements is that of the library, and so is a sum.
LEMMA IVCardinality == \A S : IV!Cardinality(S) = Cardinality(S)
BY Zenon DEF Cardinality, IV!Cardinality

LEMMA IVSums == \A f, S : IV!SumFunctionOnSet(f, S) = SumFunctionOnSet(f, S)
BY Zenon DEF SumFunctionOnSet, FoldFunctionOnSet, MapThenFoldSet, IV!SumFunctionOnSet,
   IV!FoldFunctionOnSet, IV!MapThenFoldSet

\* Items or payments are worth a number together, and no rows nothing.
LEMMA IVWorth ==
    ASSUME IV!TypeOK
    PROVE  /\ \A S \in (SUBSET Items) \cup (SUBSET Payments) : IV!SumFunctionOnSet(amount, S) \in Int
           /\ IV!SumFunctionOnSet(amount, {}) = 0
<1>1. ASSUME NEW S \in (SUBSET Items) \cup (SUBSET Payments)
      PROVE  SumFunctionOnSet(amount, S) \in Int
  <2>1. IsFiniteSet(S)
        BY RowsAssumption, FS_Subset
  <2>2. \A x \in S : amount[x] \in Int
        BY AmountsAssumption DEF IV!TypeOK
  <2> QED BY <2>1, <2>2, SumType
<1> QED BY <1>1, IVSums, SumEmpty

\* The status written to a row says what the row says of what was paid.
LEMMA IVStatusTells ==
    ASSUME IV!TypeOK, NEW old, NEW total \in SUBSET Items, NEW paid \in SUBSET Payments,
           NEW hair \in IV!Hairs(paid)
    PROVE  LET goal == IV!NewStatus(old, total, paid, hair)
               p == IV!SumFunctionOnSet(amount, paid)
               t == IV!SumFunctionOnSet(amount, total) IN
           /\ goal \in {"DRAFT", "ISSUED"} => p <= 0
           /\ goal = "PARTIALLY_PAID" =>
                /\ p > 0 \/ (p = 0 /\ ~IVExact(amount, paid))
                /\ t > 0 => p < t \/ (p = t /\ ~IVExact(amount, paid))
           /\ goal = "PAID" => t > 0 /\ p >= t
<1> DEFINE p == IV!SumFunctionOnSet(amount, paid)
           t == IV!SumFunctionOnSet(amount, total)
<1>1. p \in Int /\ t \in Int
      BY IVWorth
<1>2. hair \in {-1, 0, 1} /\ (IVExact(amount, paid) => hair = 0)
      BY DEF IV!Hairs, IV!Exact, IV!Value, IVExact
<1>3. /\ IV!Covers(paid, hair, total) <=> t > 0 /\ (p > t \/ (p = t /\ hair >= 0))
      /\ IV!Something(paid, hair) <=> p > 0 \/ (p = 0 /\ hair > 0)
      BY DEF IV!Covers, IV!Something, IV!Value
<1> HIDE DEF p, t
<1>4. /\ IV!NewStatus(old, total, paid, hair) = "PAID" =>
           IV!Covers(paid, hair, total) \/ IV!NewStatus(old, total, paid, hair) = old
      /\ IV!Covers(paid, hair, total) => IV!NewStatus(old, total, paid, hair) = "PAID"
      /\ IV!Something(paid, hair) /\ ~IV!Covers(paid, hair, total) =>
           IV!NewStatus(old, total, paid, hair) = "PARTIALLY_PAID"
      /\ ~IV!Something(paid, hair) /\ ~IV!Covers(paid, hair, total) =>
           IV!NewStatus(old, total, paid, hair) \notin {"PAID", "PARTIALLY_PAID"}
      BY DEF IV!NewStatus
<1>5. IV!Covers(paid, hair, total) => t > 0 /\ p >= t /\ p > 0
      BY <1>1, <1>3
<1>6. ~IV!Something(paid, hair) => p <= 0
      BY <1>1, <1>3
<1>7. IV!Something(paid, hair) => p > 0 \/ (p = 0 /\ ~IVExact(amount, paid))
      BY <1>1, <1>2, <1>3
<1>8. ~IV!Covers(paid, hair, total) /\ t > 0 => p < t \/ (p = t /\ ~IVExact(amount, paid))
      BY <1>1, <1>2, <1>3
<1> QED BY <1>4, <1>5, <1>6, <1>7, <1>8 DEF p, t

\* Without invoices the invariant holds.
LEMMA IVInitInv == IV!Init => IVInv
BY MaxBilledAssumption DEF IV!Init, IVInv, IV!TypeOK, IVRowsInv, IVTargetInv, IVInvoiceInv, IVAloneInv, IVReadInv, IVColumnsInv,
   IVCountedInv, IV!Exists, IV!Handling, IV!Absent, IV!Idle, IVPaying, IVPaymentTail

\* A request in progress is a record with the fields of its step.
LEMMA IVFields ==
    ASSUME IV!TypeOK, NEW r \in Callers, billing[r] # IV!Idle
    PROVE  billing[r] \in IV!Running /\ billing[r].i \in InvoiceIds
BY DEF IV!TypeOK, IV!Running

\* A request that goes on keeps its invoice and what it read.
LEMMA IVAdvanceBusy ==
    ASSUME NEW r \in Callers, IV!Advance(r)
    PROVE  billing[r] # IV!Idle
<1>1. IV!Idle.pc = "idle"
      BY DEF IV!Idle
<1> QED BY <1>1 DEF IV!Advance, IV!Delete, IV!Issue, IV!Cancel, IV!WriteStatus, IV!InsertItem, IV!DeleteItem, IV!ReadItems, IV!WriteTotals,
        IV!InsertPayment, IV!ConfirmPayment, IV!CancelPayment, IV!ReadInvoice, IV!ReadPayments, IV!WritePaid, IV!At

\* Beginning a request changes the request, and who raced.
LEMMA IVBeginTypes ==
    ASSUME IV!TypeOK, UNCHANGED amount, NEW r \in Callers, NEW i \in InvoiceIds, NEW record \in IV!Running, IV!Begin(r, i, record)
    PROVE  IV!TypeOK'
BY MaxBilledAssumption DEF IV!TypeOK, IV!Begin, IV!Goto

\* Every step of Next keeps the types.
LEMMA IVTypeStep ==
    ASSUME IVInv, [IV!Next]_IV!vars
    PROVE  IV!TypeOK'
<1> USE DEF IVInv
<1>0. UNCHANGED amount
      BY DEF IV!Next, IV!vars
<1> USE <1>0
<1>1. ASSUME NEW i \in InvoiceIds, IV!CreateInvoice(i)
      PROVE  IV!TypeOK'
      BY <1>1 DEF IV!TypeOK, IV!CreateInvoice, IV!InvoiceRow, IV!Balance, IV!Statuses
<1>2. ASSUME NEW r \in Callers, NEW i \in InvoiceIds, IV!BeginOn(r, i)
      PROVE  IV!TypeOK'
  <2>1. PICK record \in IV!Running : IV!Begin(r, i, record)
        BY <1>2 DEF IV!BeginOn, IV!BeginDelete, IV!BeginIssue, IV!BeginCancel, IV!BeginAddItem, IV!BeginCreatePayment,
           IV!BeginRemoveItem, IV!Running
  <2> QED BY <2>1, IVBeginTypes
<1>3. ASSUME NEW r \in Callers, NEW p \in Payments,
             IV!BeginConfirmPayment(r, p) \/ IV!BeginCancelPayment(r, p)
      PROVE  IV!TypeOK'
  <2>1. payment[p] \in IV!PaymentRow
        BY <1>3 DEF IV!TypeOK, IV!BeginConfirmPayment, IV!BeginCancelPayment
  <2>2. PICK record \in IV!Running : IV!Begin(r, payment[p].of, record)
        BY <1>3, <2>1 DEF IV!BeginConfirmPayment, IV!BeginCancelPayment, IV!Running, IV!PaymentRow
  <2> QED BY <2>1, <2>2, IVBeginTypes DEF IV!PaymentRow
<1>4. ASSUME NEW r \in Callers, IV!Advance(r) \/ IV!Abort(r)
      PROVE  IV!TypeOK'
  <2> DEFINE q == billing[r]
  <2>1. q \in IV!Running /\ q.i \in InvoiceIds
        BY <1>4, IVFields, IVAdvanceBusy DEF IV!Abort
  <2>2. IV!Exists(q.i) => invoice[q.i] \in IV!InvoiceRow
        BY <2>1 DEF IV!TypeOK, IV!Exists
  <2>3. q.pc \in IVPaying => IV!Exists(q.i)
        BY <2>1 DEF IVTargetInv, IVRowsInv, IV!PaymentsOf
  <2>4. CASE IV!Delete(r)
        BY <2>1, <2>4 DEF IV!Delete, IV!TypeOK, IV!Goto
  <2>5. ASSUME NEW pc, NEW goal \in IV!Statuses, IV!WriteStatus(r, pc, goal)
        PROVE  IV!TypeOK'
        BY <2>1, <2>2, <2>5 DEF IV!WriteStatus, IV!TypeOK, IV!Goto, IV!InvoiceRow
  <2>6. IV!Issue(r) => IV!TypeOK'
        BY <2>5 DEF IV!Issue, IV!Statuses
  <2>7. IV!Cancel(r) => IV!TypeOK'
        BY <2>5 DEF IV!Cancel, IV!Statuses
  <2>8. ASSUME NEW x \in Items, IV!InsertItem(r, x)
        PROVE  IV!TypeOK'
        BY <2>1, <2>8 DEF IV!InsertItem, IV!TypeOK, IV!Goto, IV!ItemRow, IV!Running
  <2>9. CASE IV!DeleteItem(r)
        BY <2>1, <2>9 DEF IV!DeleteItem, IV!TypeOK, IV!Goto, IV!Running, IV!At
  <2>10. CASE IV!ReadItems(r)
    <3>1. IV!ItemsOf(q.i) \in SUBSET Items
          BY DEF IV!ItemsOf
    <3>2. [pc |-> "writeTotals", i |-> q.i, total |-> IV!ItemsOf(q.i)] \in IV!Running
          BY <2>1, <3>1 DEF IV!Running
    <3> QED BY <2>1, <2>10, <3>2 DEF IV!ReadItems, IV!TypeOK, IV!Goto
  <2>11. CASE IV!WriteTotals(r)
        BY <2>1, <2>2, <2>11 DEF IV!WriteTotals, IV!TypeOK, IV!Goto, IV!InvoiceRow, IV!Balance, IV!Running, IV!At
  <2>12. ASSUME NEW p \in Payments, IV!InsertPayment(r, p)
         PROVE  IV!TypeOK'
        BY <2>1, <2>12 DEF IV!InsertPayment, IV!TypeOK, IV!Goto, IV!PaymentRow, IV!PaymentStatuses
  <2>13. CASE IV!ConfirmPayment(r)
    <3>1. q.p \in Payments /\ payment[q.p] \in IV!PaymentRow
          BY <2>1, <2>13 DEF IV!ConfirmPayment, IV!At, IV!Running, IV!TypeOK, IVTargetInv
    <3>2. [pc |-> "readInvoice", i |-> q.i] \in IV!Running
          BY <2>1 DEF IV!Running
    <3> QED BY <2>13, <3>1, <3>2 DEF IV!ConfirmPayment, IV!TypeOK, IV!Goto, IV!PaymentRow, IV!PaymentStatuses
  <2>14. CASE IV!CancelPayment(r)
    <3>1. q.p \in Payments /\ payment[q.p] \in IV!PaymentRow
          BY <2>1, <2>14 DEF IV!CancelPayment, IV!At, IV!Running, IV!TypeOK, IVTargetInv
    <3>2. [pc |-> "readInvoice", i |-> q.i] \in IV!Running
          BY <2>1 DEF IV!Running
    <3> QED BY <2>14, <3>1, <3>2 DEF IV!CancelPayment, IV!TypeOK, IV!Goto, IV!PaymentRow, IV!PaymentStatuses
  <2>15. CASE IV!ReadInvoice(r)
    <3>1. invoice[q.i] \in IV!InvoiceRow
          BY <2>2, <2>3, <2>15 DEF IV!ReadInvoice, IV!At, IVPaying, IVPaymentTail
    <3>2. [pc |-> "readPayments", i |-> q.i, status |-> invoice[q.i].status,
           total |-> invoice[q.i].total] \in IV!Running
          BY <2>1, <3>1 DEF IV!Running, IV!InvoiceRow
    <3> QED BY <2>15, <3>2 DEF IV!ReadInvoice, IV!TypeOK, IV!Goto
  <2>16. CASE IV!ReadPayments(r)
    <3>1. IV!Confirmed(q.i) \in SUBSET Payments
          BY DEF IV!Confirmed, IV!PaymentsOf
    <3>2. [pc |-> "writePaid", i |-> q.i, status |-> q.status, total |-> q.total,
           paid |-> IV!Confirmed(q.i)] \in IV!Running
          BY <2>1, <2>16, <3>1 DEF IV!ReadPayments, IV!At, IV!Running
    <3> QED BY <2>16, <3>2 DEF IV!ReadPayments, IV!TypeOK, IV!Goto
  <2>17. CASE IV!WritePaid(r)
    <3>1. invoice[q.i] \in IV!InvoiceRow
          BY <2>2, <2>3, <2>17 DEF IV!WritePaid, IV!At, IVPaying, IVPaymentTail
    <3>2. q.status \in IV!Statuses /\ q.total \in SUBSET Items /\ q.paid \in SUBSET Payments
          BY <2>1, <2>17 DEF IV!WritePaid, IV!At, IV!Running
    <3>3. PICK hair : invoice' = [invoice EXCEPT
                                    ![q.i].paid = q.paid,
                                    ![q.i].due = [total |-> q.total, paid |-> q.paid],
                                    ![q.i].status = IV!NewStatus(q.status, q.total, q.paid, hair)]
          BY <2>17 DEF IV!WritePaid
    <3>4. IV!NewStatus(q.status, q.total, q.paid, hair) \in IV!Statuses
          BY <3>2 DEF IV!NewStatus, IV!Statuses
    <3>5. [invoice[q.i] EXCEPT !.paid = q.paid, !.due = [total |-> q.total, paid |-> q.paid],
                               !.status = IV!NewStatus(q.status, q.total, q.paid, hair)] \in IV!InvoiceRow
          BY <3>1, <3>2, <3>4 DEF IV!InvoiceRow, IV!Balance
    <3> QED BY <2>1, <2>17, <3>3, <3>5 DEF IV!WritePaid, IV!TypeOK, IV!Goto
  <2>18. CASE IV!Abort(r)
        BY <2>1, <2>18 DEF IV!Abort, IV!TypeOK, IV!Goto, IV!Parts
  <2> QED BY <1>4, <2>4, <2>6, <2>7, <2>8, <2>9, <2>10, <2>11, <2>12, <2>13, <2>14, <2>15, <2>16,
             <2>17, <2>18 DEF IV!Advance
<1>5. CASE UNCHANGED IV!vars
      BY <1>5 DEF IV!vars, IV!TypeOK
<1> QED BY <1>1, <1>2, <1>3, <1>4, <1>5 DEF IV!Next

\* Rows of items and payments are neither absent nor gone.
LEMMA IVRowsDiffer ==
    \A i, s : /\ [of |-> i] # IV!Absent /\ [of |-> i] # IV!Gone
              /\ [of |-> i, status |-> s] # IV!Absent
              /\ IV!Absent # IV!Gone
BY DEF IV!Absent, IV!Gone

\* The row of an invoice is neither absent nor gone.
LEMMA IVInvoiceRowsDiffer == \A row \in IV!InvoiceRow : row # IV!Absent /\ row # IV!Gone
<1> SUFFICES ASSUME NEW row \in IV!InvoiceRow
             PROVE  row # IV!Absent /\ row # IV!Gone
    OBVIOUS
<1>1. DOMAIN row = {"status", "total", "paid", "due"}
      BY DEF IV!InvoiceRow
<1>2. DOMAIN IV!Absent = {"row"} /\ DOMAIN IV!Gone = {"row"}
      BY DEF IV!Absent, IV!Gone
<1> QED BY <1>1, <1>2

\* Beginning leaves the rows and the other requests as they are.
LEMMA IVBeginFrame ==
    ASSUME IV!TypeOK, NEW r \in Callers, NEW i \in InvoiceIds, NEW record \in IV!Running, IV!Begin(r, i, record)
    PROVE  /\ billing[r] = IV!Idle /\ billing'[r] = record
           /\ \A q \in Callers \ {r} : billing'[q] = billing[q]
           /\ \A j \in InvoiceIds \ crossed' : j \notin crossed
           /\ i \notin crossed' => \A q \in Callers : ~IV!Handling(q, i)
           /\ UNCHANGED <<invoice, item, payment, halved>>
BY DEF IV!TypeOK, IV!Begin, IV!Goto

\* What is known of a request about an invoice when it begins.
IVChosen(i, record) ==
    /\ record.i = i /\ IV!Exists(i)
    /\ record.pc \in {"delete", "issue", "insertItem", "deleteItem", "cancel", "insertPayment"}
    /\ record.pc \in IVEditing => invoice[i].status = "DRAFT"
    /\ record.pc = "deleteItem" => record.x \in IV!ItemsOf(i)

\* A request begins on an invoice that was created, and deletes an item of it.
LEMMA IVBeginChosen ==
    ASSUME NEW r \in Callers, NEW i \in InvoiceIds, IV!BeginOn(r, i)
    PROVE  \E record \in IV!Running : IV!Begin(r, i, record) /\ IVChosen(i, record)
<1> USE DEF IVChosen, IV!Running, IV!Editable, IVEditing, IVItemTail
<1>1. ASSUME NEW pc \in {"delete", "issue", "insertItem"}, IV!Editable(i), IV!Begin(r, i, [pc |-> pc, i |-> i])
      PROVE  \E record \in IV!Running : IV!Begin(r, i, record) /\ IVChosen(i, record)
      BY <1>1
<1>2. ASSUME NEW pc \in {"cancel", "insertPayment"}, IV!Exists(i), IV!Begin(r, i, [pc |-> pc, i |-> i])
      PROVE  \E record \in IV!Running : IV!Begin(r, i, record) /\ IVChosen(i, record)
      BY <1>2
<1>3. ASSUME NEW x \in Items, IV!BeginRemoveItem(r, i, x)
      PROVE  \E record \in IV!Running : IV!Begin(r, i, record) /\ IVChosen(i, record)
  <2>1. IVChosen(i, [pc |-> "deleteItem", i |-> i, x |-> x])
        BY <1>3 DEF IV!BeginRemoveItem
  <2> QED BY <1>3, <2>1 DEF IV!BeginRemoveItem
<1> QED BY <1>1, <1>2, <1>3 DEF IV!BeginOn, IV!BeginDelete, IV!BeginIssue, IV!BeginCancel, IV!BeginAddItem, IV!BeginCreatePayment

\* What a step of r's handler may change: its own request and rows of its invoice.
IVFrame(r) == LET i == billing[r].i IN
    /\ \A q \in Callers \ {r} : billing'[q] = billing[q]
    /\ billing'[r] = IV!Idle \/ (billing'[r] # IV!Idle /\ billing'[r].i = i)
    /\ UNCHANGED crossed
    /\ \A j \in InvoiceIds \ {i} : invoice'[j] = invoice[j]
    /\ \A x \in Items : \/ item'[x] = item[x]
                        \/ item[x] = IV!Absent /\ item'[x] = [of |-> i] /\ IV!Exists(i)
                        \/ item[x] \in {[of |-> i], IV!Gone} /\ item'[x] = IV!Gone
    /\ \A p \in Payments : \/ payment'[p] = payment[p]
                           \/ /\ payment[p] = IV!Absent /\ IV!Exists(i)
                              /\ payment'[p] = [of |-> i, status |-> "PENDING"]
                           \/ /\ payment[p] # IV!Absent /\ payment[p].of = i
                              /\ payment'[p] # IV!Absent /\ payment'[p].of = i
    /\ \A j \in InvoiceIds \ {i} : \A part \in IV!Parts : <<j, part>> \in halved' <=> <<j, part>> \in halved

\* A step writes only the rows and the marks of the invoice its request is about.
LEMMA IVStepFrame ==
    ASSUME IVInv, NEW r \in Callers, IV!Advance(r) \/ IV!Abort(r)
    PROVE  IVFrame(r)
<1> USE DEF IVInv, IVFrame
<1> DEFINE q == billing[r]
<1>1. q \in IV!Running /\ q.i \in InvoiceIds
      BY IVFields, IVAdvanceBusy DEF IV!Abort
<1>2. CASE IV!Delete(r)
      BY <1>1, <1>2 DEF IV!Delete, IV!Goto, IV!TypeOK, IV!ItemsOf
<1>3. CASE IV!Issue(r) \/ IV!Cancel(r)
      BY <1>1, <1>3 DEF IV!Issue, IV!Cancel, IV!WriteStatus, IV!Goto, IV!TypeOK
<1>4. CASE \E x \in Items : IV!InsertItem(r, x)
      BY <1>1, <1>4 DEF IV!InsertItem, IV!Goto, IV!TypeOK, IV!Idle
<1>5. CASE IV!DeleteItem(r)
      BY <1>1, <1>5 DEF IV!DeleteItem, IV!Goto, IV!TypeOK, IVTargetInv, IV!At, IV!Running, IV!Idle
<1>6. CASE IV!ReadItems(r) \/ IV!WriteTotals(r)
      BY <1>1, <1>6 DEF IV!ReadItems, IV!WriteTotals, IV!Goto, IV!TypeOK, IV!Idle
<1>7. CASE \E p \in Payments : IV!InsertPayment(r, p)
      BY <1>1, <1>7 DEF IV!InsertPayment, IV!Goto, IV!TypeOK
<1>8. CASE IV!ConfirmPayment(r) \/ IV!CancelPayment(r)
  <2>1. q.p \in Payments /\ payment[q.p] \in IV!PaymentRow /\ payment[q.p].of = q.i
        BY <1>1, <1>8 DEF IV!ConfirmPayment, IV!CancelPayment, IV!At, IV!Running, IV!TypeOK, IVTargetInv
  <2>2. PICK goal : payment' = [payment EXCEPT ![q.p].status = goal]
        BY <1>8 DEF IV!ConfirmPayment, IV!CancelPayment
  <2>3. payment'[q.p] = [of |-> q.i, status |-> goal]
        BY <2>1, <2>2 DEF IV!TypeOK, IV!PaymentRow
  <2>4. \A p \in Payments \ {q.p} : payment'[p] = payment[p]
        BY <2>2 DEF IV!TypeOK
  <2>5. \E record \in {[pc |-> "readInvoice", i |-> q.i], IV!Idle} :
          billing' = [billing EXCEPT ![r] = record]
        BY <1>8 DEF IV!ConfirmPayment, IV!CancelPayment, IV!Goto
  <2>6. /\ \A s \in Callers \ {r} : billing'[s] = billing[s]
        /\ billing'[r] = IV!Idle \/ (billing'[r] # IV!Idle /\ billing'[r].i = q.i)
        BY <1>1, <2>5 DEF IV!TypeOK, IV!Idle
  <2>7. payment[q.p] # IV!Absent /\ payment'[q.p] # IV!Absent /\ payment'[q.p].of = q.i
        BY <2>1, <2>3, IVRowsDiffer DEF IV!PaymentRow
  <2>8. UNCHANGED <<invoice, item, crossed, halved>>
        BY <1>8 DEF IV!ConfirmPayment, IV!CancelPayment
  <2> QED BY <2>1, <2>4, <2>6, <2>7, <2>8
<1>9. CASE IV!ReadInvoice(r) \/ IV!ReadPayments(r)
      BY <1>1, <1>9 DEF IV!ReadInvoice, IV!ReadPayments, IV!Goto, IV!TypeOK, IV!Idle
<1>10. CASE IV!WritePaid(r)
  <2>1. PICK row : invoice' = [invoice EXCEPT ![q.i] = row]
        BY <1>10 DEF IV!WritePaid
  <2> QED BY <1>1, <1>10, <2>1 DEF IV!WritePaid, IV!Goto, IV!TypeOK
<1>11. CASE IV!Abort(r)
      BY <1>1, <1>11 DEF IV!Abort, IV!Goto, IV!TypeOK
<1> QED BY <1>2, <1>3, <1>4, <1>5, <1>6, <1>7, <1>8, <1>9, <1>10, <1>11 DEF IV!Advance

\* Another invoice is as it was, and so are its handlers.
LEMMA IVElsewhere ==
    ASSUME IV!TypeOK, NEW r \in Callers, IVFrame(r), billing[r] # IV!Idle, NEW j \in InvoiceIds, j # billing[r].i
    PROVE  /\ invoice'[j] = invoice[j] /\ (IV!Exists(j)' <=> IV!Exists(j))
           /\ IV!ItemsOf(j)' = IV!ItemsOf(j)
           /\ IV!PaymentsOf(j)' = IV!PaymentsOf(j)
           /\ IV!Confirmed(j)' = IV!Confirmed(j)
           /\ \A q \in Callers : IV!Handling(q, j)' <=> IV!Handling(q, j)
           /\ \A q \in Callers : IV!Handling(q, j) => billing'[q] = billing[q]
           /\ \A p \in IV!PaymentsOf(j) : payment'[p] = payment[p]
           /\ \A part \in IV!Parts : <<j, part>> \in halved' <=> <<j, part>> \in halved
<1> DEFINE i == billing[r].i
<1>1. invoice'[j] = invoice[j] /\ (IV!Exists(j)' <=> IV!Exists(j))
      BY DEF IVFrame, IV!Exists
<1>2. \A x \in Items : item'[x] = [of |-> j] <=> item[x] = [of |-> j]
  <2>1. [of |-> i] # [of |-> j]
    <3>1. [of |-> i].of # [of |-> j].of
          OBVIOUS
    <3> QED BY <3>1
  <2> QED BY <2>1, IVRowsDiffer DEF IVFrame
<1>3. IV!ItemsOf(j)' = IV!ItemsOf(j)
      BY <1>2 DEF IV!ItemsOf
<1>4. \A p \in Payments : (payment'[p] # IV!Absent /\ payment'[p].of = j) <=> (payment[p] # IV!Absent /\ payment[p].of = j)
      BY IVRowsDiffer DEF IVFrame
<1>5. IV!PaymentsOf(j)' = IV!PaymentsOf(j)
      BY <1>4 DEF IV!PaymentsOf
<1>6. \A p \in IV!PaymentsOf(j) : payment'[p] = payment[p]
      BY IVRowsDiffer DEF IVFrame, IV!PaymentsOf
<1>7. IV!Confirmed(j)' = IV!Confirmed(j)
      BY <1>5, <1>6 DEF IV!Confirmed
<1>8. \A q \in Callers : IV!Handling(q, j)' <=> IV!Handling(q, j)
      BY DEF IVFrame, IV!Handling
<1>9. \A q \in Callers : IV!Handling(q, j) => billing'[q] = billing[q]
      BY DEF IVFrame, IV!Handling
<1>10. \A part \in IV!Parts : <<j, part>> \in halved' <=> <<j, part>> \in halved
      BY DEF IVFrame
<1> QED BY <1>1, <1>3, <1>5, <1>6, <1>7, <1>8, <1>9, <1>10

\* The steps after the first, and what a request does at them.
LEMMA IVNextStep ==
    ASSUME IVInv, NEW r \in Callers, IV!Advance(r) \/ IV!Abort(r)
    PROVE  LET q == billing[r] new == billing'[r] IN
           \/ new = IV!Idle
           \/ q.pc \in {"insertItem", "deleteItem"} /\ new.pc = "readItems"
           \/ q.pc = "readItems" /\ new.pc = "writeTotals"
           \/ q.pc \in {"confirmPayment", "cancelPayment"} /\ new.pc = "readInvoice"
           \/ q.pc = "readInvoice" /\ new.pc = "readPayments"
           \/ q.pc = "readPayments" /\ new.pc = "writePaid"
<1> USE DEF IVInv, IV!TypeOK, IV!Goto, IV!At
<1>1. CASE IV!Delete(r) \/ IV!Issue(r) \/ IV!Cancel(r) \/ IV!WriteTotals(r) \/ IV!WritePaid(r) \/ IV!Abort(r)
      BY <1>1 DEF IV!Delete, IV!Issue, IV!Cancel, IV!WriteStatus, IV!WriteTotals, IV!WritePaid, IV!Abort
<1>2. CASE (\E x \in Items : IV!InsertItem(r, x)) \/ IV!DeleteItem(r) \/ IV!ReadItems(r)
      BY <1>2 DEF IV!InsertItem, IV!DeleteItem, IV!ReadItems
<1>3. CASE \E p \in Payments : IV!InsertPayment(r, p)
      BY <1>3 DEF IV!InsertPayment
<1>4. CASE IV!ConfirmPayment(r)
      BY <1>4 DEF IV!ConfirmPayment
<1>5. CASE IV!CancelPayment(r)
  <2>1. \E record \in {[pc |-> "readInvoice", i |-> billing[r].i], IV!Idle} :
          billing' = [billing EXCEPT ![r] = record]
        BY <1>5 DEF IV!CancelPayment
  <2> QED BY <1>5, <2>1 DEF IV!CancelPayment
<1>6. CASE IV!ReadInvoice(r) \/ IV!ReadPayments(r)
      BY <1>6 DEF IV!ReadInvoice, IV!ReadPayments
<1> QED BY <1>1, <1>2, <1>3, <1>4, <1>5, <1>6 DEF IV!Advance

\* A step leaves the row of its invoice there, or deletes it with its items.
LEMMA IVOwnRow ==
    ASSUME IVInv, NEW r \in Callers, IV!Advance(r) \/ IV!Abort(r)
    PROVE  LET i == billing[r].i IN
           \/ invoice' = invoice
           \/ invoice[i] \in IV!InvoiceRow /\ invoice'[i] \in IV!InvoiceRow /\ UNCHANGED <<item, payment>>
           \/ /\ IV!Delete(r) /\ IV!Exists(i) /\ invoice'[i] = IV!Gone
              /\ \A x \in Items : item'[x] # [of |-> i]
              /\ IV!PaymentsOf(i) = {} /\ payment' = payment
<1> USE DEF IVInv
<1> DEFINE i == billing[r].i
<1>1. i \in InvoiceIds /\ billing[r] \in IV!Running
      BY IVFields, IVAdvanceBusy DEF IV!Abort
<1>2. IV!Exists(i) => invoice[i] \in IV!InvoiceRow
      BY <1>1 DEF IV!Exists, IV!TypeOK
<1>3. CASE IV!Delete(r)
      BY <1>1, <1>3, IVRowsDiffer DEF IV!Delete, IV!TypeOK, IV!ItemsOf
<1>4. CASE IV!Issue(r) \/ IV!Cancel(r)
      BY <1>1, <1>2, <1>4 DEF IV!Issue, IV!Cancel, IV!WriteStatus, IV!TypeOK, IV!InvoiceRow, IV!Statuses
<1>5. CASE IV!WriteTotals(r)
      BY <1>1, <1>2, <1>5 DEF IV!WriteTotals, IV!At, IV!TypeOK, IV!Running, IV!InvoiceRow, IV!Balance
<1>6. CASE IV!WritePaid(r)
  <2>1. IV!Exists(i)
        BY <1>1, <1>6 DEF IV!WritePaid, IV!At, IVTargetInv, IVRowsInv, IV!PaymentsOf, IVPaying, IVPaymentTail
  <2>2. billing[r].status \in IV!Statuses /\ billing[r].total \in SUBSET Items /\ billing[r].paid \in SUBSET Payments
        BY <1>1, <1>6 DEF IV!WritePaid, IV!At, IV!Running
  <2>3. PICK hair, goal :
          /\ goal = IV!NewStatus(billing[r].status, billing[r].total, billing[r].paid, hair)
          /\ invoice' = [invoice EXCEPT
                           ![i].paid = billing[r].paid,
                           ![i].due = [total |-> billing[r].total, paid |-> billing[r].paid],
                           ![i].status = goal]
        BY <1>6, Zenon DEF IV!WritePaid
  <2>4. goal \in IV!Statuses
        BY <2>2, <2>3 DEF IV!NewStatus, IV!Statuses
  <2>5. [invoice[i] EXCEPT !.paid = billing[r].paid,
                           !.due = [total |-> billing[r].total, paid |-> billing[r].paid],
                           !.status = goal] \in IV!InvoiceRow
        BY <1>2, <2>1, <2>2, <2>4 DEF IV!InvoiceRow, IV!Balance
  <2> QED BY <1>1, <1>2, <1>6, <2>1, <2>3, <2>5 DEF IV!WritePaid, IV!TypeOK
<1>7. CASE \/ (\E x \in Items : IV!InsertItem(r, x)) \/ IV!DeleteItem(r) \/ IV!ReadItems(r)
           \/ (\E p \in Payments : IV!InsertPayment(r, p)) \/ IV!ConfirmPayment(r) \/ IV!CancelPayment(r)
           \/ IV!ReadInvoice(r) \/ IV!ReadPayments(r) \/ IV!Abort(r)
      BY <1>7 DEF IV!InsertItem, IV!DeleteItem, IV!ReadItems, IV!InsertPayment, IV!ConfirmPayment, IV!CancelPayment,
         IV!ReadInvoice, IV!ReadPayments, IV!Abort
<1> QED BY <1>3, <1>4, <1>5, <1>6, <1>7 DEF IV!Advance

(***************************************************************************)
(* What holds whatever interleaves.                                        *)
(***************************************************************************)

\* Every step keeps the rows of an invoice, its items and its payments consistent.
LEMMA IVRowsStep ==
    ASSUME IVInv, [IV!Next]_IV!vars
    PROVE  IVRowsInv' /\ IVTargetInv'
<1> USE DEF IVInv
<1>1. ASSUME NEW i \in InvoiceIds, IV!CreateInvoice(i)
      PROVE  IVRowsInv' /\ IVTargetInv'
      BY <1>1 DEF IV!CreateInvoice, IV!TypeOK, IVRowsInv, IVTargetInv, IV!Exists, IV!PaymentsOf, IV!Absent, IV!Gone
<1>2. ASSUME NEW r \in Callers, NEW i \in InvoiceIds, IV!BeginOn(r, i)
      PROVE  IVRowsInv' /\ IVTargetInv'
  <2>1. PICK record \in IV!Running : IV!Begin(r, i, record) /\ IVChosen(i, record)
        BY <1>2, IVBeginChosen
  <2> QED BY <2>1, IVBeginFrame DEF IVChosen, IVRowsInv, IVTargetInv, IV!Exists, IV!PaymentsOf, IV!ItemsOf, IVPaying, IVPaymentTail
<1>3. ASSUME NEW r \in Callers, NEW p \in Payments,
             IV!BeginConfirmPayment(r, p) \/ IV!BeginCancelPayment(r, p)
      PROVE  IVRowsInv' /\ IVTargetInv'
  <2>1. payment[p] \in IV!PaymentRow
        BY <1>3 DEF IV!TypeOK, IV!BeginConfirmPayment, IV!BeginCancelPayment
  <2>2. PICK record \in IV!Running :
          /\ IV!Begin(r, payment[p].of, record)
          /\ record.pc \in {"confirmPayment", "cancelPayment"} /\ record.p = p
          /\ record.i = payment[p].of
        BY <1>3, <2>1 DEF IV!BeginConfirmPayment, IV!BeginCancelPayment, IV!Running, IV!PaymentRow
  <2>3. p \in IV!PaymentsOf(payment[p].of)
        BY <1>3 DEF IV!PaymentsOf, IV!BeginConfirmPayment, IV!BeginCancelPayment
  <2> QED BY <2>1, <2>2, <2>3, IVBeginFrame DEF IV!PaymentRow, IVRowsInv, IVTargetInv, IV!Exists, IV!PaymentsOf
<1>4. ASSUME NEW r \in Callers, IV!Advance(r) \/ IV!Abort(r)
      PROVE  IVRowsInv' /\ IVTargetInv'
  <2>1. IVFrame(r) /\ billing[r] # IV!Idle /\ billing[r] \in IV!Running
        BY <1>4, IVStepFrame, IVAdvanceBusy, IVFields DEF IV!Abort
  <2> PICK i \in InvoiceIds : i = billing[r].i
      BY <2>1, IVFields
  <2>2. IV!Exists(i) => \/ IV!Exists(i)'
                        \/ /\ \A x \in Items : item'[x] # [of |-> i]
                           /\ IV!PaymentsOf(i) = {} /\ payment' = payment
        BY <1>4, <2>1, IVOwnRow, IVInvoiceRowsDiffer DEF IV!Exists
  <2>3. ASSUME NEW x \in Items, item'[x] = [of |-> i]
        PROVE  IV!Exists(i)'
    <3>1. IV!Exists(i)
          BY <2>1, <2>3, IVRowsDiffer DEF IVRowsInv, IVFrame
    <3> QED BY <2>2, <2>3, <3>1
  <2>4. ASSUME NEW p \in Payments, payment'[p] # IV!Absent /\ payment'[p].of = i
        PROVE  IV!Exists(i)'
    <3>1. IV!Exists(i)
          BY <2>1, <2>4, IVRowsDiffer DEF IVRowsInv, IVFrame
    <3>2. ~(IV!PaymentsOf(i) = {} /\ payment' = payment)
          BY <2>4 DEF IV!PaymentsOf
    <3> QED BY <2>2, <3>1, <3>2
  <2>5. IVRowsInv'
    <3>1. ASSUME NEW x \in Items, NEW j \in InvoiceIds, item'[x] = [of |-> j]
          PROVE  IV!Exists(j)'
          BY <2>1, <2>3, <3>1, IVElsewhere DEF IVRowsInv, IV!ItemsOf
    <3>2. ASSUME NEW p \in Payments, payment'[p] # IV!Absent
          PROVE  \A j \in InvoiceIds : payment'[p].of = j => IV!Exists(j)'
          BY <2>1, <2>4, <3>2, IVElsewhere DEF IVRowsInv, IV!PaymentsOf
    <3> QED BY <3>1, <3>2, IVTypeStep DEF IVRowsInv, IV!TypeOK, IV!PaymentRow
  <2>6. IVTargetInv'
    <3> DEFINE q(s) == billing'[s]
    <3>1. \A j \in InvoiceIds : IV!PaymentsOf(j) \subseteq IV!PaymentsOf(j)'
          BY <2>1 DEF IVFrame, IV!PaymentsOf
    <3>2. /\ q(r).pc \notin {"deleteItem", "confirmPayment", "cancelPayment"}
          /\ q(r).pc \in IVPaying => q(r).i = i /\ billing[r].pc \in IVPaying
          BY <1>4, <2>1, IVNextStep DEF IVFrame, IV!Idle, IVPaying, IVPaymentTail
    <3>3. ASSUME NEW s \in Callers, q(s).pc = "deleteItem"
          PROVE  item'[q(s).x] \in {[of |-> q(s).i], IV!Gone}
      <4>1. q(s) = billing[s] /\ billing[s] # IV!Idle
            BY <2>1, <3>2, <3>3 DEF IVFrame, IV!Idle
      <4>2. billing[s].x \in Items
            BY <3>3, <4>1, IVFields DEF IV!Running
      <4> QED BY <2>1, <3>3, <4>1, <4>2, IVRowsDiffer DEF IVTargetInv, IVFrame
    <3>4. ASSUME NEW s \in Callers, q(s).pc \in {"confirmPayment", "cancelPayment"}
          PROVE  payment'[q(s).p] # IV!Absent /\ payment'[q(s).p].of = q(s).i
      <4>1. q(s) = billing[s] /\ billing[s] # IV!Idle
            BY <2>1, <3>2, <3>4 DEF IVFrame, IV!Idle
      <4>2. billing[s].p \in Payments
            BY <3>4, <4>1, IVFields DEF IV!Running
      <4>3. payment[billing[s].p] # IV!Absent /\ payment[billing[s].p].of = billing[s].i
            BY <3>4, <4>1 DEF IVTargetInv
      <4>4. \/ payment'[billing[s].p] = payment[billing[s].p]
            \/ /\ payment[billing[s].p].of = i
               /\ payment'[billing[s].p] # IV!Absent /\ payment'[billing[s].p].of = i
            BY <2>1, <4>2, <4>3 DEF IVFrame
      <4> QED BY <4>1, <4>3, <4>4
    <3>5. ASSUME NEW s \in Callers, q(s).pc \in IVPaying
          PROVE  \A j \in InvoiceIds : j = q(s).i => IV!PaymentsOf(j)' # {}
      <4>1. q(s).i = billing[s].i /\ billing[s].pc \in IVPaying /\ billing[s] # IV!Idle
            BY <2>1, <3>2, <3>5 DEF IVFrame, IV!Idle, IVPaying, IVPaymentTail
      <4>2. IV!PaymentsOf(billing[s].i) # {} /\ billing[s].i \in InvoiceIds
            BY <4>1, IVFields DEF IVTargetInv
      <4> QED BY <3>1, <4>1, <4>2
    <3>6. \A s \in Callers : q(s).pc \in IVPaying => q(s).i \in InvoiceIds
          BY <2>1, <3>2, IVFields DEF IVFrame, IV!Idle, IVPaying, IVPaymentTail
    <3> QED BY <3>3, <3>4, <3>5, <3>6 DEF IVTargetInv, IV!PaymentsOf
  <2> QED BY <2>5, <2>6
<1>5. CASE UNCHANGED IV!vars
      BY <1>5 DEF IV!vars, IVRowsInv, IVTargetInv, IV!Exists, IV!PaymentsOf
<1> QED BY <1>1, <1>2, <1>3, <1>4, <1>5 DEF IV!Next

(***************************************************************************)
(* What holds of an invoice that no two requests handled at once.          *)
(***************************************************************************)

\* An invoice that another's handler steps, or another's request begins, for.
LEMMA IVUntouchedInv ==
    ASSUME IVInv, UNCHANGED amount, NEW j \in InvoiceIds \ crossed, IV!TypeOK',
           invoice'[j] = invoice[j], IV!ItemsOf(j)' = IV!ItemsOf(j), IV!Confirmed(j)' = IV!Confirmed(j),
           \A p \in IV!PaymentsOf(j) : payment'[p] = payment[p],
           \A q \in Callers : IV!Handling(q, j)' <=> IV!Handling(q, j),
           \A q \in Callers : IV!Handling(q, j) => billing'[q] = billing[q],
           \A part \in IV!Parts : <<j, part>> \in halved' <=> <<j, part>> \in halved
    PROVE  IVInvoiceInv(j)'
<1> USE DEF IVInv, IVInvoiceInv
<1>1. IVAloneInv(j)'
      BY DEF IVAloneInv, IV!Exists
<1>2. IVReadInv(j)'
  <2> SUFFICES ASSUME NEW q \in Callers, IV!Handling(q, j)
               PROVE  LET s == billing[q] IN
                      /\ s.pc \in IVEditing => invoice'[j].status = "DRAFT"
                      /\ s.pc = "confirmPayment" => payment'[s.p].status = "PENDING"
                      /\ s.pc = "cancelPayment" => payment'[s.p].status = s.seen
                      /\ s.pc = "writeTotals" => s.total = IV!ItemsOf(j)'
                      /\ s.pc \in {"readPayments", "writePaid"} =>
                           s.status = invoice'[j].status /\ s.total = invoice'[j].total
                      /\ s.pc = "writePaid" => s.paid = IV!Confirmed(j)'
      BY DEF IVReadInv
  <2>1. billing[q] \in IV!Running /\ billing[q].i = j
        BY IVFields DEF IV!Handling
  <2>2. billing[q].pc \in {"confirmPayment", "cancelPayment"} => billing[q].p \in IV!PaymentsOf(j)
        BY <2>1 DEF IV!Running, IVTargetInv, IV!PaymentsOf
  <2> QED BY <2>2 DEF IVReadInv
<1>3. IVColumnsInv(j)'
      BY DEF IVColumnsInv, IV!Exists
<1>4. \A pcs : IVWithin(j, pcs)' <=> IVWithin(j, pcs)
      BY DEF IVWithin
<1>5. IVCountedInv(j)'
      BY <1>4 DEF IVCountedInv, IV!Exists, IV!Parts
<1> QED BY <1>1, <1>2, <1>3, <1>5

\* A request begins alone, on an invoice that is there.
LEMMA IVBegunInv ==
    ASSUME IVInv, UNCHANGED amount, IV!TypeOK', NEW r \in Callers, NEW i \in InvoiceIds, NEW record \in IV!Running,
           IV!Begin(r, i, record), record.i = i, IV!Exists(i), i \notin crossed',
           record.pc \in {"delete", "issue", "insertItem", "deleteItem", "cancel", "insertPayment",
                          "confirmPayment", "cancelPayment"},
           record.pc \in IVEditing => invoice[i].status = "DRAFT",
           record.pc = "confirmPayment" => payment[record.p].status = "PENDING",
           record.pc = "cancelPayment" => payment[record.p].status = record.seen
    PROVE  IVInvoiceInv(i)'
<1> USE DEF IVInv, IVInvoiceInv
<1>1. /\ billing'[r] = record /\ UNCHANGED <<invoice, item, payment, halved>>
      /\ \A q \in Callers \ {r} : billing'[q] = billing[q]
      /\ i \notin crossed /\ \A q \in Callers : ~IV!Handling(q, i)
      BY IVBeginFrame
<1>2. \A q \in Callers : IV!Handling(q, i)' => q = r
      BY <1>1 DEF IV!Handling
<1>3. IVAloneInv(i)'
      BY <1>1, <1>2 DEF IVAloneInv, IV!Exists
<1>4. IVReadInv(i)'
      BY <1>1, <1>2 DEF IVReadInv
<1>5. IVColumnsInv(i)'
      BY <1>1 DEF IVColumnsInv, IV!Exists
<1>6. ~IVWithin(i, IVItemTail) /\ ~IVWithin(i, IVPaymentTail)
      BY <1>1 DEF IVWithin
<1>7. IVCountedInv(i)'
      BY <1>1, <1>6 DEF IVCountedInv, IV!Exists, IV!ItemsOf, IV!Confirmed, IV!PaymentsOf
<1> QED BY <1>3, <1>4, <1>5, <1>7

\* A step of the one handler of an invoice.
LEMMA IVSteppedInv ==
    ASSUME IVInv, UNCHANGED amount, IV!TypeOK', NEW r \in Callers, IV!Advance(r) \/ IV!Abort(r),
           NEW i \in InvoiceIds \ crossed, i = billing[r].i
    PROVE  IVInvoiceInv(i)'
<1> USE DEF IVInv
<1> DEFINE q == billing[r]
<1>1. /\ q \in IV!Running /\ q # IV!Idle /\ IV!Handling(r, i)
      /\ IVAloneInv(i) /\ IVReadInv(i) /\ IVColumnsInv(i) /\ IVCountedInv(i)
      BY IVFields, IVAdvanceBusy DEF IV!Abort, IV!Handling, IVInvoiceInv
<1>2. IV!Exists(i) /\ invoice[i] \in IV!InvoiceRow
      BY <1>1 DEF IVAloneInv, IV!Exists, IV!TypeOK
<1>3. \A s \in Callers \ {r} : ~IV!Handling(s, i) /\ ~IV!Handling(s, i)'
      BY <1>1, IVStepFrame DEF IVAloneInv, IVFrame, IV!Handling
<1>4. IVAloneInv(i)'
  <2>1. IV!Delete(r) => billing'[r] = IV!Idle
        BY DEF IV!Delete, IV!Goto, IV!TypeOK
  <2> QED BY <1>2, <1>3, <2>1, IVOwnRow, IVInvoiceRowsDiffer DEF IVAloneInv, IV!Exists, IV!Handling
<1>5. /\ (<<i, "items">> \notin halved /\ q.pc \notin IVItemTail) => invoice[i].total = IV!ItemsOf(i)
      /\ (<<i, "payments">> \notin halved /\ q.pc \notin IVPaymentTail) => invoice[i].paid = IV!Confirmed(i)
      BY <1>1, <1>2, <1>3 DEF IVCountedInv, IVWithin
<1> DEFINE Counts ==
      /\ (<<i, "items">> \notin halved' /\ billing'[r].pc \notin IVItemTail) =>
           invoice'[i].total = IV!ItemsOf(i)'
      /\ (<<i, "payments">> \notin halved' /\ billing'[r].pc \notin IVPaymentTail) =>
           invoice'[i].paid = IV!Confirmed(i)'
<1>6. Counts => IVCountedInv(i)'
  <2>1. billing'[r].pc \in IVItemTail \cup IVPaymentTail => billing'[r] # IV!Idle
        BY DEF IV!Idle, IVItemTail, IVPaymentTail
  <2>2. billing'[r] # IV!Idle => IV!Handling(r, i)'
        BY IVStepFrame DEF IVFrame, IV!Handling
  <2>3. /\ billing'[r].pc \in IVItemTail => IVWithin(i, IVItemTail)'
        /\ billing'[r].pc \in IVPaymentTail => IVWithin(i, IVPaymentTail)'
        BY <2>1, <2>2 DEF IVWithin
  <2> QED BY <2>3 DEF IVCountedInv, Counts
<1>7. UNCHANGED item => IV!ItemsOf(i)' = IV!ItemsOf(i)
      BY DEF IV!ItemsOf
<1>8. UNCHANGED payment => IV!Confirmed(i)' = IV!Confirmed(i)
      BY DEF IV!Confirmed, IV!PaymentsOf
<1>9. invoice'[i] = invoice[i] => IVColumnsInv(i)'
      BY <1>1 DEF IVColumnsInv, IV!Exists
<1>10. billing'[r] = IV!Idle => IVReadInv(i)'
      BY <1>3 DEF IVReadInv, IV!Handling
<1> DEFINE Good == IVReadInv(i)' /\ IVColumnsInv(i)' /\ IVCountedInv(i)'
<1> HIDE DEF Good, Counts
<1>11. ASSUME IV!Delete(r)
       PROVE  Good
  <2>1. billing'[r] = IV!Idle /\ halved' = halved /\ q.pc = "delete"
        BY <1>11 DEF IV!Delete, IV!Goto, IV!At, IV!TypeOK
  <2>2. CASE IV!PaymentsOf(i) # {}
    <3>1. UNCHANGED <<invoice, item, payment>>
          BY <1>11, <2>2 DEF IV!Delete
    <3> QED BY <1>5, <1>6, <1>7, <1>8, <1>9, <1>10, <2>1, <3>1 DEF Good, Counts, IVItemTail, IVPaymentTail
  <2>3. CASE IV!PaymentsOf(i) = {}
    <3>1. ~IV!Exists(i)'
          BY <1>2, <1>11, <2>3 DEF IV!Delete, IV!Exists, IV!TypeOK
    <3> QED BY <1>10, <2>1, <3>1 DEF Good, IVColumnsInv, IVCountedInv
  <2> QED BY <2>2, <2>3
<1>12. ASSUME IV!Issue(r) \/ IV!Cancel(r)
       PROVE  Good
  <2>1. billing'[r] = IV!Idle /\ UNCHANGED <<item, payment, halved>> /\ q.pc \in {"issue", "cancel"}
        BY <1>12 DEF IV!Issue, IV!Cancel, IV!WriteStatus, IV!Goto, IV!At, IV!TypeOK
  <2>2. PICK goal \in {"ISSUED", "CANCELLED"} :
          invoice'[i] = [invoice[i] EXCEPT !.status = goal] /\ (goal = "ISSUED" => q.pc = "issue")
        BY <1>2, <1>12 DEF IV!Issue, IV!Cancel, IV!WriteStatus, IV!At, IV!TypeOK
  <2>3. /\ invoice'[i].total = invoice[i].total /\ invoice'[i].paid = invoice[i].paid
        /\ invoice'[i].due = invoice[i].due /\ invoice'[i].status = goal
        BY <1>2, <2>2 DEF IV!InvoiceRow
  <2>4. IVColumnsInv(i)'
        BY <1>1, <1>2, <2>2, <2>3 DEF IVColumnsInv, IVRowAgrees, IVReadInv, IVEditing
  <2>5. Counts
        BY <1>5, <1>7, <1>8, <2>1, <2>3 DEF Counts, IVItemTail, IVPaymentTail
  <2> QED BY <1>6, <1>10, <2>1, <2>4, <2>5 DEF Good
<1>13. ASSUME NEW x \in Items, IV!InsertItem(r, x)
       PROVE  Good
  <2>1. /\ billing'[r] = [pc |-> "readItems", i |-> i]
        /\ UNCHANGED <<invoice, payment, halved>> /\ q.pc = "insertItem"
        BY <1>2, <1>13 DEF IV!InsertItem, IV!Goto, IV!At, IV!TypeOK
  <2>2. IVReadInv(i)'
        BY <1>1, <1>3, <2>1 DEF IVReadInv, IVEditing, IVItemTail
  <2>3. Counts
        BY <1>5, <1>8, <2>1 DEF Counts, IVItemTail, IVPaymentTail
  <2> QED BY <1>6, <1>9, <2>1, <2>2, <2>3 DEF Good
<1>14. ASSUME IV!DeleteItem(r)
       PROVE  Good
  <2>1. /\ billing'[r] = [pc |-> "readItems", i |-> i]
        /\ UNCHANGED <<invoice, payment, halved>> /\ q.pc = "deleteItem"
        BY <1>2, <1>14 DEF IV!DeleteItem, IV!Goto, IV!At, IV!TypeOK
  <2>2. IVReadInv(i)'
        BY <1>1, <1>3, <2>1 DEF IVReadInv, IVEditing, IVItemTail
  <2>3. Counts
        BY <1>5, <1>8, <2>1 DEF Counts, IVItemTail, IVPaymentTail
  <2> QED BY <1>6, <1>9, <2>1, <2>2, <2>3 DEF Good
<1>15. ASSUME IV!ReadItems(r)
       PROVE  Good
  <2>1. /\ billing'[r] = [pc |-> "writeTotals", i |-> i, total |-> IV!ItemsOf(i)]
        /\ UNCHANGED <<invoice, item, payment, halved>> /\ q.pc = "readItems"
        BY <1>15 DEF IV!ReadItems, IV!Goto, IV!At, IV!TypeOK
  <2>2. IVReadInv(i)'
        BY <1>1, <1>3, <1>7, <2>1 DEF IVReadInv, IVEditing, IVItemTail
  <2>3. Counts
        BY <1>5, <1>8, <2>1 DEF Counts, IVItemTail, IVPaymentTail
  <2> QED BY <1>6, <1>9, <2>1, <2>2, <2>3 DEF Good
<1>16. ASSUME IV!WriteTotals(r)
       PROVE  Good
  <2>1. /\ billing'[r] = IV!Idle /\ UNCHANGED <<item, payment>> /\ halved' = halved \ {<<i, "items">>}
        /\ q.pc = "writeTotals"
        BY <1>16 DEF IV!WriteTotals, IV!Goto, IV!At, IV!TypeOK
  <2>2. invoice'[i] = [invoice[i] EXCEPT !.total = q.total, !.due = [total |-> q.total, paid |-> {}]]
        BY <1>2, <1>16 DEF IV!WriteTotals, IV!TypeOK
  <2>3. /\ invoice'[i].total = q.total /\ invoice'[i].paid = invoice[i].paid
        /\ invoice'[i].due = [total |-> q.total, paid |-> {}] /\ invoice'[i].status = invoice[i].status
        BY <1>2, <2>2 DEF IV!InvoiceRow
  <2>4. invoice[i].status = "DRAFT" /\ q.total = IV!ItemsOf(i)
        BY <1>1, <2>1 DEF IVReadInv, IVEditing, IVItemTail
  <2>5. IVColumnsInv(i)'
        BY <1>1, <1>2, <2>3, <2>4 DEF IVColumnsInv, IVRowAgrees
  <2>6. Counts
        BY <1>5, <1>7, <1>8, <2>1, <2>3, <2>4 DEF Counts, IVItemTail, IVPaymentTail
  <2> QED BY <1>6, <1>10, <2>1, <2>5, <2>6 DEF Good
<1>17. ASSUME NEW p \in Payments, IV!InsertPayment(r, p)
       PROVE  Good
  <2>1. billing'[r] = IV!Idle /\ UNCHANGED <<invoice, item, halved>> /\ q.pc = "insertPayment"
        BY <1>17 DEF IV!InsertPayment, IV!Goto, IV!At, IV!TypeOK
  <2>2. payment' = [payment EXCEPT ![p] = [of |-> i, status |-> "PENDING"]] /\ payment[p] = IV!Absent
        BY <1>2, <1>17 DEF IV!InsertPayment
  <2>3. IV!Confirmed(i)' = IV!Confirmed(i)
        BY <2>2 DEF IV!Confirmed, IV!PaymentsOf, IV!TypeOK
  <2>4. Counts
        BY <1>5, <1>7, <2>1, <2>3 DEF Counts, IVItemTail, IVPaymentTail
  <2> QED BY <1>6, <1>9, <1>10, <2>1, <2>4 DEF Good
<1>18. ASSUME IV!ConfirmPayment(r)
       PROVE  Good
  <2>1. /\ billing'[r] = [pc |-> "readInvoice", i |-> i]
        /\ UNCHANGED <<invoice, item, halved>> /\ q.pc = "confirmPayment"
        BY <1>18 DEF IV!ConfirmPayment, IV!Goto, IV!At, IV!TypeOK
  <2>2. IVReadInv(i)'
        BY <1>3, <2>1 DEF IVReadInv, IVEditing, IVItemTail
  <2>3. Counts
        BY <1>5, <1>7, <2>1 DEF Counts, IVItemTail, IVPaymentTail
  <2> QED BY <1>6, <1>9, <2>1, <2>2, <2>3 DEF Good
<1>19. ASSUME IV!CancelPayment(r)
       PROVE  Good
  <2>1. /\ billing'[r] = IF q.seen = "CONFIRMED" THEN [pc |-> "readInvoice", i |-> i] ELSE IV!Idle
        /\ UNCHANGED <<invoice, item, halved>> /\ q.pc = "cancelPayment"
        BY <1>19 DEF IV!CancelPayment, IV!Goto, IV!At, IV!TypeOK
  <2>2. CASE q.seen = "CONFIRMED"
    <3>1. IVReadInv(i)'
          BY <1>3, <2>1, <2>2 DEF IVReadInv, IVEditing, IVItemTail
    <3>2. Counts
          BY <1>5, <1>7, <2>1, <2>2 DEF Counts, IVItemTail, IVPaymentTail
    <3> QED BY <1>6, <1>9, <2>1, <3>1, <3>2 DEF Good
  <2>3. CASE q.seen # "CONFIRMED"
    <3>1. q.p \in Payments /\ payment[q.p] \in IV!PaymentRow /\ payment[q.p].status # "CONFIRMED"
          BY <1>1, <2>1, <2>3 DEF IV!Running, IV!TypeOK, IVTargetInv, IVReadInv
    <3>2. payment' = [payment EXCEPT ![q.p].status = "CANCELLED"]
          BY <1>19 DEF IV!CancelPayment
    <3>3. payment'[q.p] = [payment[q.p] EXCEPT !.status = "CANCELLED"]
          BY <3>1, <3>2 DEF IV!TypeOK
    <3>4. payment'[q.p].status = "CANCELLED"
          BY <3>1, <3>3 DEF IV!PaymentRow
    <3>5. \A p \in Payments \ {q.p} : payment'[p] = payment[p]
          BY <3>2 DEF IV!TypeOK
    <3>6. IV!Confirmed(i)' = IV!Confirmed(i)
          BY <3>1, <3>4, <3>5 DEF IV!Confirmed, IV!PaymentsOf
    <3>7. Counts
          BY <1>5, <1>7, <2>1, <3>6 DEF Counts, IVItemTail, IVPaymentTail
    <3> QED BY <1>6, <1>9, <1>10, <2>1, <2>3, <3>7 DEF Good
  <2> QED BY <2>2, <2>3
<1>20. ASSUME IV!ReadInvoice(r)
       PROVE  Good
  <2>1. /\ billing'[r] = [pc |-> "readPayments", i |-> i, status |-> invoice[i].status,
                             total |-> invoice[i].total]
        /\ UNCHANGED <<invoice, item, payment, halved>> /\ q.pc = "readInvoice"
        BY <1>20 DEF IV!ReadInvoice, IV!Goto, IV!At, IV!TypeOK
  <2>2. IVReadInv(i)'
        BY <1>3, <2>1 DEF IVReadInv, IVEditing, IVItemTail
  <2>3. Counts
        BY <1>5, <1>7, <2>1 DEF Counts, IVItemTail, IVPaymentTail
  <2> QED BY <1>6, <1>9, <2>1, <2>2, <2>3 DEF Good
<1>21. ASSUME IV!ReadPayments(r)
       PROVE  Good
  <2>1. /\ billing'[r] = [pc |-> "writePaid", i |-> i, status |-> q.status, total |-> q.total,
                             paid |-> IV!Confirmed(i)]
        /\ UNCHANGED <<invoice, item, payment, halved>> /\ q.pc = "readPayments"
        BY <1>21 DEF IV!ReadPayments, IV!Goto, IV!At, IV!TypeOK
  <2>2. IVReadInv(i)'
        BY <1>1, <1>3, <1>8, <2>1 DEF IVReadInv, IVEditing, IVItemTail
  <2>3. Counts
        BY <1>5, <1>7, <2>1 DEF Counts, IVItemTail, IVPaymentTail
  <2> QED BY <1>6, <1>9, <2>1, <2>2, <2>3 DEF Good
<1>22. ASSUME IV!WritePaid(r)
       PROVE  Good
  <2>1. /\ billing'[r] = IV!Idle /\ UNCHANGED <<item, payment>> /\ halved' = halved \ {<<i, "payments">>}
        /\ q.pc = "writePaid"
        BY <1>22 DEF IV!WritePaid, IV!Goto, IV!At, IV!TypeOK
  <2>2. PICK hair \in IV!Hairs(q.paid) :
          invoice'[i] = [invoice[i] EXCEPT !.paid = q.paid,
                                           !.due = [total |-> q.total, paid |-> q.paid],
                                           !.status = IV!NewStatus(q.status, q.total, q.paid, hair)]
        BY <1>22 DEF IV!WritePaid, IV!TypeOK
  <2> DEFINE goal == IV!NewStatus(q.status, q.total, q.paid, hair)
  <2>3. /\ invoice'[i].total = invoice[i].total /\ invoice'[i].paid = q.paid
        /\ invoice'[i].due = [total |-> q.total, paid |-> q.paid] /\ invoice'[i].status = goal
        BY <1>2, <2>2 DEF IV!InvoiceRow
  <2>4. q.status = invoice[i].status /\ q.total = invoice[i].total /\ q.paid = IV!Confirmed(i)
        BY <1>1, <2>1 DEF IVReadInv
  <2>5. q.total \in SUBSET Items /\ q.paid \in SUBSET Payments
        BY <1>2, <2>4 DEF IV!InvoiceRow, IV!Confirmed, IV!PaymentsOf
  <2>6. IVColumnsInv(i)'
        BY <2>2, <2>3, <2>4, <2>5, IVStatusTells DEF IVColumnsInv, IVRowAgrees
  <2>7. Counts
        BY <1>5, <1>7, <1>8, <2>1, <2>3, <2>4 DEF Counts, IVItemTail, IVPaymentTail
  <2> QED BY <1>6, <1>10, <2>1, <2>6, <2>7 DEF Good
<1>23. ASSUME IV!Abort(r)
       PROVE  Good
  <2>1. billing'[r] = IV!Idle /\ UNCHANGED <<invoice, item, payment>>
        BY <1>23 DEF IV!Abort, IV!Goto, IV!TypeOK
  <2>2. /\ halved \subseteq halved'
        /\ q.pc \in IVItemTail => <<i, "items">> \in halved'
        /\ q.pc \in IVPaymentTail => <<i, "payments">> \in halved'
        BY <1>23 DEF IV!Abort, IVItemTail, IVPaymentTail
  <2>3. Counts
        BY <1>5, <1>7, <1>8, <2>1, <2>2 DEF Counts
  <2> QED BY <1>6, <1>9, <1>10, <2>1, <2>3 DEF Good
<1> QED BY <1>4, <1>11, <1>12, <1>13, <1>14, <1>15, <1>16, <1>17, <1>18, <1>19, <1>20, <1>21, <1>22,
           <1>23 DEF IVInvoiceInv, Good, IV!Advance

\* An invoice another's handler leaves as it was.
LEMMA IVOthersInv ==
    ASSUME IVInv, UNCHANGED amount, IV!TypeOK', NEW r \in Callers, NEW i \in InvoiceIds, NEW record \in IV!Running,
           IV!Begin(r, i, record), record.i = i, NEW j \in InvoiceIds \ crossed', j # i
    PROVE  IVInvoiceInv(j)'
<1>1. /\ billing[r] = IV!Idle /\ billing'[r] = record /\ j \notin crossed
      /\ \A q \in Callers \ {r} : billing'[q] = billing[q]
      /\ UNCHANGED <<invoice, item, payment, halved>>
      BY IVBeginFrame DEF IVInv
<1>2. \A q \in Callers : IV!Handling(q, j)' <=> IV!Handling(q, j)
      BY <1>1 DEF IV!Handling
<1>3. \A q \in Callers : IV!Handling(q, j) => billing'[q] = billing[q]
      BY <1>1 DEF IV!Handling
<1>4. IV!ItemsOf(j)' = IV!ItemsOf(j) /\ IV!Confirmed(j)' = IV!Confirmed(j)
      BY <1>1 DEF IV!ItemsOf, IV!Confirmed, IV!PaymentsOf
<1> QED BY <1>1, <1>2, <1>3, <1>4, IVUntouchedInv

\* Every step of Next keeps the invariant.
LEMMA IVInvStep ==
    ASSUME IVInv, [IV!Next]_IV!vars
    PROVE  IVInv'
<1> USE DEF IVInv
<1>0. UNCHANGED amount
      BY DEF IV!Next, IV!vars
<1> USE <1>0
<1>1. IV!TypeOK' /\ IVRowsInv' /\ IVTargetInv'
      BY IVTypeStep, IVRowsStep
<1> SUFFICES ASSUME NEW j \in InvoiceIds, j \notin crossed'
             PROVE  IVInvoiceInv(j)'
    BY <1>1
<1>2. ASSUME NEW i \in InvoiceIds, IV!CreateInvoice(i)
      PROVE  IVInvoiceInv(j)'
  <2>1. /\ UNCHANGED <<item, payment, billing, crossed, halved>> /\ j \notin crossed
        /\ invoice[i] = IV!Absent
        /\ invoice' = [invoice EXCEPT ![i] = [status |-> "DRAFT", total |-> {}, paid |-> {},
                                             due |-> [total |-> {}, paid |-> {}]]]
        BY <1>2 DEF IV!CreateInvoice
  <2>2. IV!ItemsOf(j)' = IV!ItemsOf(j) /\ IV!Confirmed(j)' = IV!Confirmed(j)
        BY <2>1 DEF IV!ItemsOf, IV!Confirmed, IV!PaymentsOf
  <2>3. \A q \in Callers : IV!Handling(q, j)' <=> IV!Handling(q, j)
        BY <2>1 DEF IV!Handling
  <2>4. CASE j # i
        BY <1>1, <2>1, <2>2, <2>3, <2>4, IVUntouchedInv DEF IV!TypeOK
  <2>5. CASE j = i
    <3>1. ~IV!Exists(j)
          BY <2>1, <2>5 DEF IV!Exists
    <3>2. \A q \in Callers : ~IV!Handling(q, j)
          BY <2>1, <3>1 DEF IVInvoiceInv, IVAloneInv
    <3>3. IV!ItemsOf(j) = {} /\ IV!Confirmed(j) = {}
          BY <3>1 DEF IVRowsInv, IV!ItemsOf, IV!Confirmed, IV!PaymentsOf
    <3>4. invoice'[j] = [status |-> "DRAFT", total |-> {}, paid |-> {},
                         due |-> [total |-> {}, paid |-> {}]]
          BY <2>1, <2>5 DEF IV!TypeOK
    <3>5. IVAloneInv(j)' /\ IVReadInv(j)'
          BY <2>3, <3>2 DEF IVAloneInv, IVReadInv
    <3>6. IVColumnsInv(j)'
          BY <3>4, IVWorth DEF IVColumnsInv, IVRowAgrees
    <3>7. IVCountedInv(j)'
          BY <2>2, <3>3, <3>4 DEF IVCountedInv
    <3> QED BY <3>5, <3>6, <3>7 DEF IVInvoiceInv
  <2> QED BY <2>4, <2>5
<1>3. ASSUME NEW r \in Callers, NEW i \in InvoiceIds, IV!BeginOn(r, i)
      PROVE  IVInvoiceInv(j)'
  <2>1. PICK record \in IV!Running : IV!Begin(r, i, record) /\ IVChosen(i, record)
        BY <1>3, IVBeginChosen
  <2>2. CASE j = i
        BY <1>1, <2>1, <2>2, IVBegunInv DEF IVChosen
  <2>3. CASE j # i
        BY <1>1, <2>1, <2>3, IVOthersInv DEF IVChosen
  <2> QED BY <2>2, <2>3
<1>4. ASSUME NEW r \in Callers, NEW p \in Payments,
             IV!BeginConfirmPayment(r, p) \/ IV!BeginCancelPayment(r, p)
      PROVE  IVInvoiceInv(j)'
  <2> DEFINE i == payment[p].of
  <2>1. payment[p] \in IV!PaymentRow /\ i \in InvoiceIds /\ IV!Exists(i)
        BY <1>4 DEF IV!TypeOK, IV!BeginConfirmPayment, IV!BeginCancelPayment, IV!PaymentRow, IVRowsInv
  <2>2. PICK record \in IV!Running :
          /\ IV!Begin(r, i, record) /\ record.i = i /\ record.p = p
          /\ record.pc \in {"confirmPayment", "cancelPayment"}
          /\ record.pc = "confirmPayment" => payment[p].status = "PENDING"
          /\ record.pc = "cancelPayment" => payment[p].status = record.seen
    <3>1. CASE IV!BeginConfirmPayment(r, p)
          BY <2>1, <3>1 DEF IV!BeginConfirmPayment, IV!Running
    <3>2. CASE IV!BeginCancelPayment(r, p)
      <4>1. [pc |-> "cancelPayment", i |-> i, p |-> p, seen |-> payment[p].status] \in IV!Running
            BY <2>1 DEF IV!Running, IV!PaymentRow
      <4> QED BY <3>2, <4>1 DEF IV!BeginCancelPayment
    <3> QED BY <1>4, <3>1, <3>2
  <2>3. record.pc \notin IVEditing
        BY <2>2 DEF IVEditing, IVItemTail
  <2> HIDE DEF i
  <2>4. CASE j = i
        BY <1>1, <2>1, <2>2, <2>3, <2>4, IVBegunInv
  <2>5. CASE j # i
        BY <1>1, <2>1, <2>2, <2>5, IVOthersInv
  <2> QED BY <2>4, <2>5
<1>5. ASSUME NEW r \in Callers, IV!Advance(r) \/ IV!Abort(r)
      PROVE  IVInvoiceInv(j)'
  <2>1. IVFrame(r) /\ billing[r] # IV!Idle /\ j \notin crossed
        BY <1>5, IVStepFrame, IVAdvanceBusy DEF IV!Abort, IVFrame
  <2>2. CASE j = billing[r].i
        BY <1>1, <1>5, <2>1, <2>2, IVSteppedInv
  <2>3. CASE j # billing[r].i
        BY <1>1, <2>1, <2>3, IVElsewhere, IVUntouchedInv
  <2> QED BY <2>2, <2>3
<1>6. CASE UNCHANGED IV!vars
  <2>1. IV!ItemsOf(j)' = IV!ItemsOf(j) /\ IV!Confirmed(j)' = IV!Confirmed(j)
        BY <1>6 DEF IV!vars, IV!ItemsOf, IV!Confirmed, IV!PaymentsOf
  <2>2. \A q \in Callers : IV!Handling(q, j)' <=> IV!Handling(q, j)
        BY <1>6 DEF IV!vars, IV!Handling
  <2> QED BY <1>1, <1>6, <2>1, <2>2, IVUntouchedInv DEF IV!vars
<1> QED BY <1>2, <1>3, <1>4, <1>5, <1>6 DEF IV!Next

\* The invariant holds in every reachable state.
LEMMA IVInvCorrect == IV!Spec => []IVInv
<1>1. IVInv /\ [IV!Next]_IV!vars => IVInv'
      BY IVInvStep
<1> QED BY <1>1, IVInitInv, PTL DEF IV!Spec

(***************************************************************************)
(* The properties.                                                         *)
(***************************************************************************)

\* Every row and every handler in progress keeps the shape the code gives it: the
\* statement that rewrites an invoice after a payment always finds it there.
LEMMA IVTypeCorrect == IV!Spec => []IV!TypeOK
<1>1. IVInv => IV!TypeOK
      BY DEF IVInv
<1> QED BY <1>1, IVInvCorrect, PTL

\* Between requests the derived amounts count the rows (recalculateInvoiceTotals
\* and updateInvoicePaymentStatus), unless two requests handled the invoice at
\* once or a handler died before recalculating, whatever the items and payments
\* are worth; the balance may be the whole total where the confirmed payments are
\* worth nothing together, or less.
LEMMA IVAmountsCorrect == IV!Spec => []IV!AmountsAgree
<1>1. IVInv => IV!AmountsAgree
  <2> SUFFICES ASSUME IVInv, NEW i \in InvoiceIds \ crossed, IV!Quiet(i), IV!Whole(i)
               PROVE  /\ invoice[i].total = IV!ItemsOf(i)
                      /\ invoice[i].paid = IV!Confirmed(i)
                      /\ \/ invoice[i].due = [total |-> IV!ItemsOf(i), paid |-> IV!Confirmed(i)]
                         \/ /\ IV!Value(IV!Confirmed(i)) <= 0
                            /\ invoice[i].due = [total |-> IV!ItemsOf(i), paid |-> {}]
      BY DEF IV!AmountsAgree
  <2>1. IV!Exists(i) /\ ~IVWithin(i, IVItemTail) /\ ~IVWithin(i, IVPaymentTail)
        BY DEF IV!Quiet, IVWithin
  <2> QED BY <2>1 DEF IVInv, IVInvoiceInv, IVColumnsInv, IVRowAgrees, IVCountedInv, IV!Whole, IV!Parts, IV!Value
<1> QED BY <1>1, IVInvCorrect, PTL

\* Under the same conditions the status tells what was paid, for payments of any
\* sign, up to the error of a sum of doubles where it is worth exactly the total
\* or nothing.
LEMMA IVStatusCorrect == IV!Spec => []IV!StatusAgrees
<1>1. IVInv => IV!StatusAgrees
  <2> SUFFICES ASSUME IVInv, NEW i \in InvoiceIds \ crossed, IV!Quiet(i), IV!Whole(i)
               PROVE  LET paid == IV!Value(IV!Confirmed(i))
                          total == IV!Value(IV!ItemsOf(i))
                          exact == IV!Exact(IV!Confirmed(i)) IN
                      CASE invoice[i].status \in {"DRAFT", "ISSUED"} -> paid <= 0
                        [] invoice[i].status = "PARTIALLY_PAID" ->
                             /\ paid > 0 \/ (paid = 0 /\ ~exact)
                             /\ total > 0 => paid < total \/ (paid = total /\ ~exact)
                        [] invoice[i].status = "PAID" -> total > 0 /\ paid >= total
                        [] OTHER -> TRUE
      BY DEF IV!StatusAgrees
  <2>1. IV!Exists(i) /\ ~IVWithin(i, IVItemTail) /\ ~IVWithin(i, IVPaymentTail)
        BY DEF IV!Quiet, IVWithin
  <2>2. IVColumnsInv(i) /\ invoice[i].total = IV!ItemsOf(i) /\ invoice[i].paid = IV!Confirmed(i)
        BY <2>1 DEF IVInv, IVInvoiceInv, IVCountedInv, IV!Whole, IV!Parts
  <2>3. IVExact(amount, IV!Confirmed(i)) <=> IV!Exact(IV!Confirmed(i))
        BY DEF IVExact, IV!Exact, IV!Value
  <2> QED BY <2>1, <2>2, <2>3 DEF IVColumnsInv, IVRowAgrees, IV!Value
<1> QED BY <1>1, IVInvCorrect, PTL

\* What a step about an invoice that is no draft leaves alone.
LEMMA IVClosedStep ==
    ASSUME IVInv, NEW r \in Callers, IV!Advance(r) \/ IV!Abort(r), NEW i \in InvoiceIds \ crossed,
           i = billing[r].i, invoice[i].status # "DRAFT"
    PROVE  /\ item' = item /\ invoice'[i] # IV!Gone
           /\ invoice'[i] = invoice[i] \/ invoice'[i].status = "CANCELLED" \/ IV!WritePaid(r)
<1> USE DEF IVInv
<1>1. billing[r] \in IV!Running /\ billing[r].pc \notin IVEditing /\ invoice[i] \in IV!InvoiceRow
      BY IVFields, IVAdvanceBusy DEF IV!Abort, IV!Handling, IVInvoiceInv, IVReadInv, IVAloneInv, IV!Exists, IV!TypeOK
<1>2. ~(\/ IV!Delete(r) \/ IV!Issue(r) \/ (\E x \in Items : IV!InsertItem(r, x)) \/ IV!DeleteItem(r)
        \/ IV!ReadItems(r) \/ IV!WriteTotals(r))
      BY <1>1 DEF IV!Delete, IV!Issue, IV!WriteStatus, IV!InsertItem, IV!DeleteItem, IV!ReadItems, IV!WriteTotals, IV!At,
         IVEditing, IVItemTail
<1>3. CASE IV!Cancel(r)
  <2>1. IV!Exists(i)
        BY <1>1, IVInvoiceRowsDiffer DEF IV!Exists
  <2>2. item' = item /\ invoice'[i] = [invoice[i] EXCEPT !.status = "CANCELLED"]
        BY <1>3, <2>1 DEF IV!Cancel, IV!WriteStatus, IV!TypeOK
  <2>3. invoice'[i] \in IV!InvoiceRow
        BY <1>1, <2>2 DEF IV!InvoiceRow, IV!Statuses
  <2> QED BY <1>1, <2>2, <2>3, IVInvoiceRowsDiffer DEF IV!InvoiceRow
<1>4. CASE IV!WritePaid(r)
      BY <1>1, <1>4, IVOwnRow, IVInvoiceRowsDiffer DEF IV!WritePaid, IV!Delete, IV!At
<1>5. CASE \/ (\E p \in Payments : IV!InsertPayment(r, p)) \/ IV!ConfirmPayment(r) \/ IV!CancelPayment(r)
           \/ IV!ReadInvoice(r) \/ IV!ReadPayments(r) \/ IV!Abort(r)
      BY <1>1, <1>5, IVInvoiceRowsDiffer DEF IV!InsertPayment, IV!ConfirmPayment, IV!CancelPayment, IV!ReadInvoice,
         IV!ReadPayments, IV!Abort
<1> QED BY <1>2, <1>3, <1>4, <1>5 DEF IV!Advance

\* A step changes an invoice that is there only by its own handler.
LEMMA IVOnlyHandlers ==
    ASSUME IVInv, [IV!Next]_IV!vars, NEW i \in InvoiceIds \ crossed', IV!Exists(i)
    PROVE  \/ UNCHANGED <<invoice[i], item>>
           \/ /\ invoice'[i] = invoice[i]
              /\ IV!ItemsOf(i)' = IV!ItemsOf(i)
           \/ \E r \in Callers : billing[r].i = i /\ i \notin crossed /\ (IV!Advance(r) \/ IV!Abort(r))
<1> USE DEF IVInv
<1>1. ASSUME NEW j \in InvoiceIds, IV!CreateInvoice(j)
      PROVE  UNCHANGED <<invoice[i], item>>
      BY <1>1 DEF IV!CreateInvoice, IV!Exists, IV!TypeOK
<1>2. ASSUME NEW r \in Callers, NEW j \in InvoiceIds, IV!BeginOn(r, j)
      PROVE  UNCHANGED <<invoice[i], item>>
      BY <1>2, IVBeginChosen, IVBeginFrame
<1>3. ASSUME NEW r \in Callers, NEW p \in Payments,
             IV!BeginConfirmPayment(r, p) \/ IV!BeginCancelPayment(r, p)
      PROVE  UNCHANGED <<invoice[i], item>>
      BY <1>3 DEF IV!BeginConfirmPayment, IV!BeginCancelPayment, IV!Begin
<1>4. ASSUME NEW r \in Callers, IV!Advance(r) \/ IV!Abort(r)
      PROVE  \/ invoice'[i] = invoice[i] /\ IV!ItemsOf(i)' = IV!ItemsOf(i)
             \/ billing[r].i = i /\ i \notin crossed
  <2>1. IVFrame(r) /\ billing[r] # IV!Idle /\ i \notin crossed
        BY <1>4, IVStepFrame, IVAdvanceBusy DEF IV!Abort, IVFrame
  <2> QED BY <2>1, IVElsewhere
<1>5. CASE UNCHANGED IV!vars
      BY <1>5 DEF IV!vars
<1> QED BY <1>1, <1>2, <1>3, <1>4, <1>5 DEF IV!Next

\* An invoice that left DRAFT is never deleted and keeps its items
\* (INVOICE_EDITABLE_STATUSES, checked before the statements that rely on it), and a
\* cancelled one with no payment left to confirm stays cancelled, unless two
\* requests handle the invoice at once.
LEMMA IVClosedCorrect == IV!Spec => IV!ClosedStays
<1>1. ASSUME IVInv, [IV!Next]_IV!vars, NEW i \in InvoiceIds \ crossed', IV!Exists(i), invoice[i].status # "DRAFT"
      PROVE  invoice'[i] # IV!Gone /\ \A x \in Items : (item[x] = [of |-> i]) <=> (item'[x] = [of |-> i])
  <2>1. CASE \E r \in Callers : billing[r].i = i /\ i \notin crossed /\ (IV!Advance(r) \/ IV!Abort(r))
        BY <1>1, <2>1, IVClosedStep
  <2> QED BY <1>1, <2>1, IVOnlyHandlers DEF IV!ItemsOf, IV!Exists
<1>2. ASSUME IVInv, [IV!Next]_IV!vars, NEW i \in InvoiceIds \ crossed', IV!Exists(i), invoice[i].status = "CANCELLED",
             \A p \in IV!PaymentsOf(i) : payment[p].status = "CANCELLED"
      PROVE  invoice'[i].status = "CANCELLED"
  <2>1. ASSUME NEW r \in Callers, billing[r].i = i, i \notin crossed, IV!WritePaid(r)
        PROVE  invoice'[i].status = "CANCELLED"
    <3> DEFINE q == billing[r]
    <3>1. q \in IV!Running /\ IV!Handling(r, i) /\ q.pc = "writePaid" /\ invoice[i] \in IV!InvoiceRow
          BY <1>2, <2>1, IVFields DEF IV!WritePaid, IV!At, IV!Handling, IV!Idle, IVInv, IV!TypeOK, IV!Exists
    <3>2. q.status = "CANCELLED" /\ q.total = invoice[i].total /\ q.paid = IV!Confirmed(i)
          BY <1>2, <2>1, <3>1 DEF IVInv, IVInvoiceInv, IVReadInv
    <3>3. q.paid = {}
          BY <1>2, <3>2 DEF IV!Confirmed
    <3>4. PICK hair \in IV!Hairs(q.paid) :
            invoice'[i] = [invoice[i] EXCEPT !.paid = q.paid,
                                             !.due = [total |-> q.total, paid |-> q.paid],
                                             !.status = IV!NewStatus(q.status, q.total, q.paid, hair)]
          BY <1>2, <2>1 DEF IV!WritePaid, IVInv, IV!TypeOK
    <3>5. IV!Value(q.paid) = 0 /\ IV!Value(q.total) \in Int
          BY <1>2, <3>1, <3>2, <3>3, IVWorth DEF IV!Value, IV!InvoiceRow, IVInv
    <3>6. hair = 0
      <4>1. {x \in q.paid : amount[x] # 0} = {}
            BY <3>3
      <4>2. IV!Cardinality({x \in q.paid : amount[x] # 0}) = 0
            BY <4>1, IVCardinality, FS_EmptySet, Zenon
      <4>3. IV!Exact(q.paid)
            BY <4>2 DEF IV!Exact
      <4> QED BY <4>3 DEF IV!Hairs
    <3>7. IV!NewStatus(q.status, q.total, q.paid, hair) = "CANCELLED"
      <4>1. ~IV!Covers(q.paid, hair, q.total) /\ ~IV!Something(q.paid, hair)
            BY <3>5, <3>6 DEF IV!Covers, IV!Something
      <4> QED BY <3>2, <3>4, <4>1 DEF IV!NewStatus
    <3> QED BY <3>1, <3>4, <3>7 DEF IV!InvoiceRow
  <2>2. CASE \E r \in Callers : billing[r].i = i /\ i \notin crossed /\ (IV!Advance(r) \/ IV!Abort(r))
        BY <1>2, <2>1, <2>2, IVClosedStep
  <2> QED BY <1>2, <2>2, IVOnlyHandlers
<1>3. IVInv /\ [IV!Next]_IV!vars =>
        [\A i \in InvoiceIds \ crossed' :
           (IV!Exists(i) /\ invoice[i].status # "DRAFT") =>
               /\ invoice'[i] # IV!Gone
               /\ \A x \in Items : (item[x] = [of |-> i]) <=> (item'[x] = [of |-> i])]_IV!vars
      BY <1>1
<1>4. IVInv /\ [IV!Next]_IV!vars =>
        [\A i \in InvoiceIds \ crossed' :
           (IV!Exists(i) /\ invoice[i].status = "CANCELLED"
              /\ \A p \in IV!PaymentsOf(i) : payment[p].status = "CANCELLED") =>
                  invoice'[i].status = "CANCELLED"]_IV!vars
      BY <1>2
<1>5. IV!Spec => IV!FrozenAfterDraft
      BY <1>3, IVInvCorrect, PTL DEF IV!Spec, IV!FrozenAfterDraft
<1>6. IV!Spec => IV!CancelledIsFinal
      BY <1>4, IVInvCorrect, PTL DEF IV!Spec, IV!CancelledIsFinal
<1> QED BY <1>5, <1>6 DEF IV!ClosedStays

(***************************************************************************)
(* Organizations.                                                          *)
(***************************************************************************)

(***************************************************************************)
(* The inductive invariant.                                                *)
(***************************************************************************)

\* Exactly the creator's row says OWNER, and only organizations have members.
OROwnerInv ==
    \A o \in Orgs, u \in Users :
        /\ org[o] = OR!Absent => member[o][u] = "none"
        /\ org[o] # OR!Absent => (member[o][u] = "OWNER" <=> u = org[o].createdById)

\* A change or removal that is about to be written is not of the creator.
ORTargetInv ==
    \A r \in Callers : (OR!At(r, "write") /\ asking[r].op # "add") =>
        /\ org[asking[r].o] # OR!Absent
        /\ asking[r].target # org[asking[r].o].createdById

\* Managing roles are remembered, and whoever passed the guard had one.
ORManagersInv ==
    /\ \A o \in Orgs, u \in Users : member[o][u] \in OR!Managing => u \in managers[o]
    /\ \A r \in Callers : asking[r].pc \in {"find", "write"} =>
         asking[r].actor \in managers[asking[r].o] \cup SystemAdmins

ORInv == OR!TypeOK /\ OROwnerInv /\ ORTargetInv /\ ORManagersInv

(***************************************************************************)
(* Lemmas.                                                                 *)
(***************************************************************************)

LEMMA ORInitInv == OR!Init => ORInv
BY MaxAskedAssumption
   DEF OR!Init, ORInv, OR!TypeOK, OROwnerInv, ORTargetInv, ORManagersInv, OR!Managing, OR!At, OR!Idle

\* A request on members has all the fields of one.
LEMMA ORChangingFields ==
    ASSUME OR!TypeOK, NEW r \in Callers, asking[r].pc \in {"guard", "find", "write"}
    PROVE  asking[r] \in OR!Changing
BY DEF OR!TypeOK, OR!Idle, OR!Creating, OR!Changing

\* An insert never gives OWNER, and nothing but a change or removal takes it.
LEMMA ORWrittenRole ==
    ASSUME NEW op \in OR!Ops, NEW role \in OR!Assignable, NEW old \in OR!Roles \cup {"none"}
    PROVE  /\ OR!Written(op, role, old) \in OR!Roles \cup {"none"}
           /\ OR!Written(op, role, old) = "OWNER" => old = "OWNER"
           /\ (op = "add" /\ old # "none") => OR!Written(op, role, old) = old
BY DEF OR!Written, OR!Ops, OR!Assignable, OR!Roles

\* Steps that leave the rows alone and put no request before its write.
LEMMA ORQuietStep ==
    ASSUME ORInv, NEW r \in Callers, NEW record \in OR!Creating \cup OR!Changing \cup {OR!Idle},
           record.pc \notin {"find", "write"},
           asking' = [asking EXCEPT ![r] = record],
           UNCHANGED <<org, member, managers>>
    PROVE  OROwnerInv' /\ ORTargetInv' /\ ORManagersInv'
<1>1. \A p \in Callers : p # r => asking'[p] = asking[p]
      BY DEF ORInv, OR!TypeOK
<1>2. asking'[r] = record
      BY DEF ORInv, OR!TypeOK
<1>3. OROwnerInv'
      BY DEF ORInv, OROwnerInv
<1>4. ORTargetInv'
      BY <1>1, <1>2 DEF ORInv, ORTargetInv, OR!At
<1>5. ORManagersInv'
      BY <1>1, <1>2 DEF ORInv, ORManagersInv
<1> QED BY <1>3, <1>4, <1>5

LEMMA ORStep ==
    ASSUME ORInv, [OR!Next]_OR!vars
    PROVE  ORInv'
<1> USE DEF ORInv
<1>1. ASSUME NEW r \in Callers, NEW record \in OR!Creating \cup OR!Changing, OR!Begin(r, record),
             record.pc \notin {"find", "write"}
      PROVE  ORInv'
  <2>1. OR!TypeOK'
        BY <1>1, MaxAskedAssumption DEF OR!Begin, OR!Goto, OR!TypeOK
  <2> QED BY <1>1, <2>1, ORQuietStep DEF OR!Begin, OR!Goto
<1>2. ASSUME NEW r \in Callers, NEW u \in Users, NEW s \in Slugs, OR!FindSlug(r, u, s)
      PROVE  ORInv'
  <2>1. ASSUME NEW pc \in {"insert", "findCandidate"}, NEW t \in Slugs
        PROVE  [pc |-> pc, actor |-> u, slug |-> t] \in OR!Creating
        BY DEF OR!Creating
  <2> QED BY <1>1, <1>2, <2>1 DEF OR!FindSlug
<1>3. ASSUME NEW r \in Callers, OR!FindCandidate(r)
      PROVE  ORInv'
  <2>1. asking[r] \in OR!Creating
        BY <1>3 DEF OR!FindCandidate, OR!At, OR!TypeOK, OR!Idle, OR!Changing
  <2>2. [asking[r] EXCEPT !.pc = "insert"] \in OR!Creating
        BY <2>1 DEF OR!Creating
  <2>3. [asking[r] EXCEPT !.pc = "insert"].pc = "insert"
        BY <2>1 DEF OR!Creating
  <2>4. OR!TypeOK'
        BY <1>3, <2>2 DEF OR!FindCandidate, OR!Goto, OR!TypeOK
  <2> QED BY <1>3, <2>2, <2>3, <2>4, ORQuietStep DEF OR!FindCandidate, OR!Goto, OR!Idle
<1>4. ASSUME NEW r \in Callers, NEW op \in OR!Ops, NEW o \in Orgs, NEW u \in Users,
             NEW t \in Users, NEW role \in OR!Assignable, OR!BeginChange(r, op, o, u, t, role)
      PROVE  ORInv'
  <2> DEFINE record == [pc |-> "guard", op |-> op, o |-> o, actor |-> u, target |-> t,
                        role |-> role]
  <2>1. record \in OR!Changing /\ record.pc = "guard"
        BY DEF OR!Changing
  <2> QED BY <1>1, <1>4, <2>1 DEF OR!BeginChange
<1>5. ASSUME NEW r \in Callers, NEW o \in Orgs, OR!Create(r, o)
      PROVE  ORInv'
  <2> DEFINE q == asking[r]
  <2>1. q \in OR!Creating
        BY <1>5 DEF OR!Create, OR!At, OR!TypeOK, OR!Idle, OR!Changing
  <2>2. q.actor \in Users /\ q.slug \in Slugs
        BY <2>1 DEF OR!Creating
  <2>3. CASE OR!Taken(q.slug)
    <3>1. OR!TypeOK'
          BY <1>5, <2>3 DEF OR!Create, OR!Goto, OR!TypeOK
    <3> QED BY <1>5, <2>3, <3>1, ORQuietStep DEF OR!Create, OR!Goto, OR!Idle
  <2>4. CASE ~OR!Taken(q.slug)
    <3>1. /\ org[o] = OR!Absent
          /\ org' = [org EXCEPT ![o] = [slug |-> q.slug, createdById |-> q.actor]]
          /\ member' = [member EXCEPT ![o] = [member[o] EXCEPT ![q.actor] = "OWNER"]]
          /\ managers' = [managers EXCEPT ![o] = managers[o] \cup {q.actor}]
          /\ asking' = [asking EXCEPT ![r] = OR!Idle]
          /\ UNCHANGED asked
          BY <1>5, <2>4 DEF OR!Create, OR!Goto
    <3>2. [member[o] EXCEPT ![q.actor] = "OWNER"] \in [Users -> OR!Roles \cup {"none"}]
          BY <2>2 DEF OR!TypeOK, OR!Roles
    <3>3. managers[o] \cup {q.actor} \in SUBSET Users
          BY <2>2 DEF OR!TypeOK
    <3>4. OR!TypeOK'
          BY <2>2, <3>1, <3>2, <3>3 DEF OR!TypeOK
    <3>5. org'[o].createdById = q.actor /\ org'[o] # OR!Absent
          BY <3>1 DEF OR!TypeOK, OR!Absent
    <3>6. \A f \in Orgs : f # o => /\ org'[f] = org[f] /\ member'[f] = member[f]
                                   /\ managers'[f] = managers[f]
          BY <3>1 DEF OR!TypeOK
    <3>7. member'[o] = [member[o] EXCEPT ![q.actor] = "OWNER"]
          BY <3>1 DEF OR!TypeOK
    <3>8. OROwnerInv'
      <4> SUFFICES ASSUME NEW f \in Orgs, NEW u \in Users
                   PROVE  /\ org'[f] = OR!Absent => member'[f][u] = "none"
                          /\ org'[f] # OR!Absent =>
                               (member'[f][u] = "OWNER" <=> u = org'[f].createdById)
          BY DEF OROwnerInv
      <4>1. CASE f = o
        <5>1. member[o] \in [Users -> OR!Roles \cup {"none"}]
              BY DEF OR!TypeOK
        <5>2. u # q.actor => member'[o][u] = "none"
              BY <3>1, <3>7, <5>1 DEF OROwnerInv
        <5>3. u = q.actor => member'[o][u] = "OWNER"
              BY <3>7, <5>1
        <5> QED BY <3>5, <4>1, <5>2, <5>3
      <4>2. CASE f # o
            BY <3>6, <4>2 DEF OROwnerInv
      <4> QED BY <4>1, <4>2
    <3>9. ASSUME NEW p \in Callers, asking'[p].pc \in {"find", "write"}
          PROVE  asking'[p] = asking[p] /\ asking[p] \in OR!Changing /\ asking[p].o \in Orgs
      <4>1. asking'[p] = asking[p]
            BY <3>1, <3>9 DEF OR!TypeOK, OR!Idle
      <4>2. asking[p] \in OR!Changing
            BY <3>9, <4>1, ORChangingFields
      <4> QED BY <4>1, <4>2 DEF OR!Changing
    <3>10. ORTargetInv'
      <4> SUFFICES ASSUME NEW p \in Callers, OR!At(p, "write")', asking'[p].op # "add"
                   PROVE  /\ org'[asking'[p].o] # OR!Absent
                          /\ asking'[p].target # org'[asking'[p].o].createdById
          BY DEF ORTargetInv
      <4>1. asking'[p] = asking[p] /\ asking[p].o \in Orgs /\ OR!At(p, "write")
            BY <3>9 DEF OR!At
      <4>2. asking[p].o # o
            BY <3>1, <4>1 DEF ORTargetInv
      <4> QED BY <3>6, <4>1, <4>2 DEF ORTargetInv
    <3>11. ORManagersInv'
      <4>1. ASSUME NEW f \in Orgs, NEW u \in Users, member'[f][u] \in OR!Managing
            PROVE  u \in managers'[f]
        <5>1. managers'[o] = managers[o] \cup {q.actor}
              BY <3>1 DEF OR!TypeOK
        <5>2. CASE f = o /\ u # q.actor
          <6>1. member'[o][u] = member[o][u]
                BY <3>7, <5>2 DEF OR!TypeOK
          <6> QED BY <4>1, <5>1, <5>2, <6>1 DEF ORManagersInv
        <5>3. CASE f = o /\ u = q.actor
              BY <5>1, <5>3
        <5>4. CASE f # o
              BY <3>6, <4>1, <5>4 DEF ORManagersInv
        <5> QED BY <5>2, <5>3, <5>4
      <4>2. ASSUME NEW p \in Callers, asking'[p].pc \in {"find", "write"}
            PROVE  asking'[p].actor \in managers'[asking'[p].o] \cup SystemAdmins
        <5>1. \A f \in Orgs : managers[f] \subseteq managers'[f]
              BY <3>1 DEF OR!TypeOK
        <5> QED BY <3>9, <4>2, <5>1 DEF ORManagersInv
      <4> QED BY <4>1, <4>2 DEF ORManagersInv
    <3> QED BY <3>4, <3>8, <3>10, <3>11
  <2> QED BY <2>3, <2>4
<1>6. ASSUME NEW r \in Callers, NEW pc \in {"find", "write"}, asking[r] \in OR!Changing,
             asking' = [asking EXCEPT ![r] = [asking[r] EXCEPT !.pc = pc]],
             UNCHANGED <<org, member, asked, managers>>,
             asking[r].actor \in managers[asking[r].o] \cup SystemAdmins,
             (pc = "write" /\ asking[r].op # "add") =>
                /\ org[asking[r].o] # OR!Absent
                /\ asking[r].target # org[asking[r].o].createdById
      PROVE  ORInv'
  <2> DEFINE q == [asking[r] EXCEPT !.pc = pc]
  <2>1. q \in OR!Changing
        BY <1>6 DEF OR!Changing
  <2>2. q.pc = pc /\ q.op = asking[r].op /\ q.o = asking[r].o
        BY <1>6 DEF OR!Changing
  <2>3. q.actor = asking[r].actor /\ q.target = asking[r].target
        BY <1>6 DEF OR!Changing
  <2>4. asking'[r] = q /\ \A p \in Callers : p # r => asking'[p] = asking[p]
        BY <1>6 DEF OR!TypeOK
  <2>5. OR!TypeOK'
        BY <1>6, <2>1 DEF OR!TypeOK
  <2>6. OROwnerInv'
        BY <1>6 DEF OROwnerInv
  <2>7. ORTargetInv'
        BY <1>6, <2>2, <2>3, <2>4 DEF ORTargetInv, OR!At
  <2>8. ORManagersInv'
        BY <1>6, <2>2, <2>3, <2>4 DEF ORManagersInv
  <2> QED BY <2>5, <2>6, <2>7, <2>8
<1>7. ASSUME NEW r \in Callers, asking' = [asking EXCEPT ![r] = OR!Idle],
             UNCHANGED <<org, member, asked, managers>>
      PROVE  ORInv'
  <2>1. OR!TypeOK'
        BY <1>7 DEF OR!TypeOK
  <2> QED BY <1>7, <2>1, ORQuietStep DEF OR!Idle
<1>8. ASSUME NEW r \in Callers, OR!Guard(r)
      PROVE  ORInv'
  <2>1. asking[r] \in OR!Changing
        BY <1>8, ORChangingFields DEF OR!Guard, OR!At
  <2>2. asking[r].o \in Orgs /\ asking[r].actor \in Users
        BY <2>1 DEF OR!Changing
  <2> QED BY <1>6, <1>7, <1>8, <2>1, <2>2 DEF OR!Guard, OR!Goto, ORManagersInv
<1>9. ASSUME NEW r \in Callers, OR!Find(r)
      PROVE  ORInv'
  <2> DEFINE q == asking[r]
             role == member[q.o][q.target]
  <2>1. q \in OR!Changing
        BY <1>9, ORChangingFields DEF OR!Find, OR!At
  <2>2. q.o \in Orgs /\ q.target \in Users
        BY <2>1 DEF OR!Changing
  <2>3. q.actor \in managers[q.o] \cup SystemAdmins
        BY <1>9 DEF OR!Find, OR!At, ORManagersInv
  <2>4. role \in OR!Assignable => org[q.o] # OR!Absent /\ q.target # org[q.o].createdById
        BY <2>2 DEF OROwnerInv, OR!Assignable
  <2>5. CASE asking' = [asking EXCEPT ![r] = OR!Idle]
        BY <1>7, <1>9, <2>5 DEF OR!Find
  <2>6. CASE /\ asking' = [asking EXCEPT ![r] = [q EXCEPT !.pc = "write"]]
             /\ q.op # "add" => role \in OR!Assignable
        BY <1>6, <1>9, <2>1, <2>3, <2>4, <2>6 DEF OR!Find
  <2> QED BY <1>9, <2>5, <2>6 DEF OR!Find, OR!Goto
<1>10. ASSUME NEW r \in Callers, OR!Write(r)
      PROVE  ORInv'
  <2> DEFINE q == asking[r]
             old == member[q.o][q.target]
             new == OR!Written(q.op, q.role, old)
  <2>1. q \in OR!Changing
        BY <1>10, ORChangingFields DEF OR!Write, OR!At
  <2>2. q.o \in Orgs /\ q.target \in Users /\ q.op \in OR!Ops /\ q.role \in OR!Assignable
        BY <2>1 DEF OR!Changing
  <2>3. old \in OR!Roles \cup {"none"}
        BY <2>2 DEF OR!TypeOK
  <2>4. CASE org[q.o] = OR!Absent
        BY <1>7, <1>10, <2>4 DEF OR!Write, OR!Goto
  <2>5. CASE org[q.o] # OR!Absent
    <3>1. /\ member' = [member EXCEPT ![q.o] = [member[q.o] EXCEPT ![q.target] = new]]
          /\ managers' = [managers EXCEPT ![q.o] =
                            IF new \in OR!Managing THEN managers[q.o] \cup {q.target}
                            ELSE managers[q.o]]
          /\ asking' = [asking EXCEPT ![r] = OR!Idle]
          /\ UNCHANGED <<org, asked>>
          BY <1>10, <2>5 DEF OR!Write, OR!Goto
    <3>2. new \in OR!Roles \cup {"none"} /\ (new = "OWNER" => old = "OWNER")
          BY <2>2, <2>3, ORWrittenRole
    <3>3. [member[q.o] EXCEPT ![q.target] = new] \in [Users -> OR!Roles \cup {"none"}]
          BY <2>2, <3>2 DEF OR!TypeOK
    <3>4. OR!TypeOK'
          BY <2>2, <3>1, <3>3 DEF OR!TypeOK
    <3>5. ASSUME NEW f \in Orgs, NEW u \in Users
          PROVE  member'[f][u] = IF f = q.o /\ u = q.target THEN new ELSE member[f][u]
          BY <2>2, <3>1 DEF OR!TypeOK
    <3>6. (old = "OWNER") => new = "OWNER"
      <4>1. old = "OWNER" => q.target = org[q.o].createdById
            BY <2>2, <2>5 DEF OROwnerInv
      <4>2. old = "OWNER" => q.op = "add"
            BY <1>10, <4>1 DEF OR!Write, ORTargetInv
      <4> QED BY <2>2, <2>3, <4>2, ORWrittenRole
    <3>7. OROwnerInv'
      <4> SUFFICES ASSUME NEW f \in Orgs, NEW u \in Users
                   PROVE  /\ org[f] = OR!Absent => member'[f][u] = "none"
                          /\ org[f] # OR!Absent =>
                               (member'[f][u] = "OWNER" <=> u = org[f].createdById)
          BY <3>1 DEF OROwnerInv
      <4>1. CASE f = q.o /\ u = q.target
            BY <2>5, <3>2, <3>5, <3>6, <4>1 DEF OROwnerInv
      <4>2. CASE ~(f = q.o /\ u = q.target)
            BY <3>5, <4>2 DEF OROwnerInv
      <4> QED BY <4>1, <4>2
    <3>8. \A p \in Callers : /\ p # r => asking'[p] = asking[p]
                             /\ asking'[r] = OR!Idle
          BY <3>1 DEF OR!TypeOK
    <3>9. ORTargetInv'
          BY <3>1, <3>8 DEF ORTargetInv, OR!At, OR!Idle
    <3>10. \A f \in Orgs : managers[f] \subseteq managers'[f]
          BY <2>2, <3>1 DEF OR!TypeOK
    <3>11. ORManagersInv'
      <4>1. ASSUME NEW f \in Orgs, NEW u \in Users, member'[f][u] \in OR!Managing
            PROVE  u \in managers'[f]
        <5>1. CASE f = q.o /\ u = q.target
              BY <2>2, <3>1, <3>5, <4>1, <5>1 DEF OR!TypeOK
        <5>2. CASE ~(f = q.o /\ u = q.target)
              BY <3>5, <3>10, <4>1, <5>2 DEF ORManagersInv
        <5> QED BY <5>1, <5>2
      <4>2. ASSUME NEW p \in Callers, asking'[p].pc \in {"find", "write"}
            PROVE  asking'[p].actor \in managers'[asking'[p].o] \cup SystemAdmins
        <5>1. asking'[p] = asking[p]
              BY <3>8, <4>2 DEF OR!Idle
        <5>2. asking[p].o \in Orgs
              BY <4>2, <5>1, ORChangingFields DEF OR!Changing
        <5> QED BY <3>10, <4>2, <5>1, <5>2 DEF ORManagersInv
      <4> QED BY <4>1, <4>2 DEF ORManagersInv
    <3> QED BY <3>4, <3>7, <3>9, <3>11
  <2> QED BY <2>4, <2>5
<1>11. ASSUME NEW r \in Callers, OR!Abort(r)
      PROVE  ORInv'
      BY <1>7, <1>11 DEF OR!Abort, OR!Goto
<1>12. CASE UNCHANGED OR!vars
      BY <1>12 DEF OR!vars, OR!TypeOK, OROwnerInv, ORTargetInv, ORManagersInv, OR!At
<1> QED BY <1>2, <1>3, <1>4, <1>5, <1>8, <1>9, <1>10, <1>11, <1>12 DEF OR!Next

LEMMA ORInvariance == OR!Spec => []ORInv
BY ORInitInv, ORStep, PTL DEF OR!Spec

(***************************************************************************)
(* Theorems.                                                               *)
(***************************************************************************)

\* Rows and requests have their types in every behaviour.
LEMMA ORTypeCorrect == OR!Spec => []OR!TypeOK
BY ORInvariance, PTL DEF ORInv

\* An organization has exactly one owner, its creator, whatever requests
\* interleave (create, updateMemberRole, removeMember).
LEMMA OROwnerCorrect == OR!Spec => []OR!OneOwner
<1>1. ORInv => OR!OneOwner
  <2> SUFFICES ASSUME ORInv, NEW o \in Orgs
               PROVE  {u \in Users : member[o][u] = "OWNER"} =
                         IF org[o] = OR!Absent THEN {} ELSE {org[o].createdById}
      BY DEF OR!OneOwner
  <2>1. org[o] # OR!Absent => org[o].createdById \in Users
        BY DEF ORInv, OR!TypeOK
  <2> QED BY <2>1 DEF ORInv, OROwnerInv
<1> QED BY ORInvariance, <1>1, PTL

\* Members of an organization change only at the hand of somebody who was given a
\* managing role in it, or of a system admin (PermissionsGuard).
LEMMA ORManagersCorrect == OR!Spec => OR!ChangedByManagers
<1> DEFINE Acts(r, o) ==
      /\ asking[r] # OR!Idle /\ asking'[r] = OR!Idle
      /\ asking[r].actor \in managers[o] \cup SystemAdmins
<1>1. ASSUME ORInv, [OR!Next]_OR!vars, NEW o \in Orgs, org[o] # OR!Absent, member'[o] # member[o]
      PROVE  \E r \in Callers : Acts(r, o)
  <2> USE <1>1 DEF ORInv
  <2>1. PICK r \in Callers : OR!Write(r) \/ \E f \in Orgs : OR!Create(r, f)
        BY DEF OR!Next, OR!vars, OR!FindSlug, OR!FindCandidate, OR!BeginChange, OR!Begin, OR!Guard, OR!Find, OR!Abort
  <2>2. ~\E f \in Orgs : OR!Create(r, f)
    <3> SUFFICES ASSUME NEW f \in Orgs, OR!Create(r, f) PROVE FALSE
        OBVIOUS
    <3>1. f # o
          BY DEF OR!Create
    <3> QED BY <3>1 DEF OR!Create, OR!TypeOK
  <2>3. OR!Write(r)
        BY <2>1, <2>2
  <2>4. asking[r] \in OR!Changing
        BY <2>3, ORChangingFields DEF OR!Write, OR!At
  <2>5. asking[r].o = o
        BY <2>3, <2>4 DEF OR!Write, OR!Changing, OR!TypeOK
  <2>6. asking[r].actor \in managers[o] \cup SystemAdmins
        BY <2>3, <2>5 DEF OR!Write, OR!At, ORManagersInv
  <2>7. asking[r] # OR!Idle /\ asking'[r] = OR!Idle
        BY <2>3 DEF OR!Write, OR!Goto, OR!At, OR!Idle, OR!TypeOK
  <2> QED BY <2>6, <2>7
<1>2. ORInv /\ [OR!Next]_OR!vars =>
        [\A o \in Orgs : (org[o] # OR!Absent /\ member'[o] # member[o]) =>
             \E r \in Callers : Acts(r, o)]_OR!vars
      BY <1>1
<1> QED BY ORInvariance, <1>2, PTL DEF OR!Spec, OR!ChangedByManagers

(***************************************************************************)
(* The two parts of MCBooks.                                               *)
(***************************************************************************)

\* Each part behaves as its module says: the other one leaves its rows alone.
LEMMA InvoicesBehave == BooksSpec => IV!Spec
<1>1. BooksInit => IV!Init
      BY DEF BooksInit
<1>2. [BooksNext]_books => [IV!Next]_IV!vars
      BY DEF BooksNext, books, invoices, IV!vars
<1> QED BY <1>1, <1>2, PTL DEF BooksSpec, IV!Spec

\* Likewise the organizations.
LEMMA OrganizationsBehave == BooksSpec => OR!Spec
<1>1. BooksInit => OR!Init
      BY DEF BooksInit
<1>2. [BooksNext]_books => [OR!Next]_OR!vars
      BY DEF BooksNext, books, membership, OR!vars
<1> QED BY <1>1, <1>2, PTL DEF BooksSpec, OR!Spec

\* Rows and handlers of both keep their types.
THEOREM TypesCorrect == BooksSpec => []TypesOK
BY InvoicesBehave, OrganizationsBehave, IVTypeCorrect, ORTypeCorrect, PTL DEF TypesOK

\* Between requests the derived amounts count the rows (recalculateInvoiceTotals
\* and updateInvoicePaymentStatus), unless two requests handled the invoice at
\* once or a handler died before recalculating, whatever the items and payments
\* are worth; the balance may be the whole total where the confirmed payments are
\* worth nothing together, or less.
THEOREM AmountsCorrect == BooksSpec => []AmountsAgree
BY InvoicesBehave, IVAmountsCorrect, PTL DEF AmountsAgree

\* Under the same conditions the status tells what was paid, for payments of any
\* sign, up to the error of a sum of doubles where it is worth exactly the total
\* or nothing.
THEOREM StatusCorrect == BooksSpec => []StatusAgrees
BY InvoicesBehave, IVStatusCorrect, PTL DEF StatusAgrees

\* An invoice that left DRAFT is never deleted and keeps its items
\* (INVOICE_EDITABLE_STATUSES, checked before the statements that rely on it), and a
\* cancelled one with no payment left to confirm stays cancelled, unless two
\* requests handle the invoice at once.
THEOREM ClosedCorrect == BooksSpec => ClosedStays
BY InvoicesBehave, IVClosedCorrect, PTL DEF ClosedStays

\* An organization has exactly one owner, its creator, whatever requests
\* interleave (create, updateMemberRole, removeMember).
THEOREM OwnerCorrect == BooksSpec => []OneOwner
BY OrganizationsBehave, OROwnerCorrect, PTL DEF OneOwner

\* Members of an organization change only at the hand of somebody who was given a
\* managing role in it, or of a system admin (PermissionsGuard).
THEOREM ManagersCorrect == BooksSpec => ChangedByManagers
BY OrganizationsBehave, ORManagersCorrect, PTL DEF ChangedByManagers
=============================================================================
