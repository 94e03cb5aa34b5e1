---------------------------- MODULE Examinations ----------------------------
(***************************************************************************)
(* What is done about a customs entry: rectifications with their field     *)
(* changes (modules/customs-rectifications), examinations of the goods     *)
(* before clearance (customs-previos) and inspections by customs           *)
(* (customs-inspections).  None of these rows is ever deleted, and none of *)
(* the services looks at the entry's own status.                           *)
(***************************************************************************)
EXTENDS Handlers, FiniteSets

CONSTANTS
    Entries,    \* ids of customs entries
    Exams       \* ids of rectifications, previos and inspections

VARIABLES
    exam,       \* exam[x]: the row
    changed,    \* rectifications whose field changes were inserted
    filings     \* history: filings[x], how often x was filed

exams == <<exam, changed, filings>>
vars == <<exam, changed, filings, request, started, raced>>

\* rectificationStatusEnum; nothing ever sets CANCELLED
RectificationStatuses == {"DRAFT", "SUBMITTED", "APPROVED", "REJECTED", "CANCELLED"}
\* previoStatusEnum; nothing ever sets IN_PROGRESS
PrevioStatuses == {"PENDING", "IN_PROGRESS", "COMPLETED", "CANCELLED"}
\* semaphoreColorEnum
Colors == {"GREEN", "RED"}

RectificationRow == [kind : {"rectification"}, entry : Entries,
                     sequenceNumber : 1..Cardinality(Exams), status : RectificationStatuses]
PrevioRow == [kind : {"previo"}, status : PrevioStatuses]
\* modulated: modulationDate is not null
InspectionRow == [kind : {"inspection"}, color : Colors \cup {"NONE"}, modulated : BOOLEAN]
Running ==
    [pc : {"insertRectification"}, on : Entries, n : 1..Cardinality(Exams)]
    \cup [pc : {"insertFieldChanges"}, on : Entries, x : Exams]
    \cup [pc : {"write"}, on : Exams, status : RectificationStatuses \cup PrevioStatuses]
    \cup [pc : {"updateInspection"}, on : Exams, color : Colors \cup {"KEEP"}, dated : BOOLEAN]

TypeOK ==
    /\ exam \in [Exams -> RectificationRow \cup PrevioRow \cup InspectionRow \cup {Absent}]
    /\ changed \subseteq Exams
    /\ filings \in [Exams -> Nat]
    /\ HandlersTypeOK(Running, Entries \cup Exams)

Init ==
    /\ exam = [x \in Exams |-> Absent]
    /\ changed = {}
    /\ filings = [x \in Exams |-> 0]
    /\ HandlersInit

Is(x, kind) == Present(exam[x]) /\ exam[x].kind = kind

(***************************************************************************)
(* Rectifications.                                                         *)
(***************************************************************************)

\* findByOriginalEntry
RectificationsOf(e) == {x \in Exams : Is(x, "rectification") /\ exam[x].entry = e}

\* Fault: the numbers start at the number there is.
CountFromZero(e) == IF RectificationsOf(e) = {} THEN 1 ELSE Cardinality(RectificationsOf(e))

\* countByOriginalEntry plus one
NextNumber(e) == Cardinality(RectificationsOf(e)) + 1

\* The entry's status is not asked for.
BeginCreateRectification(r, e) ==
    /\ NextNumber(e) \in 1..Cardinality(Exams)
    /\ Start(r, [pc |-> "insertRectification", on |-> e, n |-> NextNumber(e)])
    /\ UNCHANGED exams

InsertRectification(r, x) ==
    LET q == request[r] IN
    /\ At(r, "insertRectification")
    /\ exam[x] = Absent
    /\ exam' = [exam EXCEPT ![x] = [kind |-> "rectification", entry |-> q.on,
                                    sequenceNumber |-> q.n, status |-> "DRAFT"]]
    /\ \/ Goto(r, [pc |-> "insertFieldChanges", on |-> q.on, x |-> x])
       \/ Finish(r)     \* the request names no field
    /\ UNCHANGED <<changed, filings>>

InsertFieldChanges(r) ==
    /\ At(r, "insertFieldChanges")
    /\ changed' = changed \cup {request[r].x}
    /\ Finish(r)
    /\ UNCHANGED <<exam, filings>>

\* Fault: what is submitted can be submitted again.
BeginSubmitAgain(r, x) ==
    /\ Is(x, "rectification")
    /\ exam[x].status \in {"DRAFT", "SUBMITTED"}
    /\ Start(r, [pc |-> "write", on |-> x, status |-> "SUBMITTED"])
    /\ UNCHANGED exams

BeginSubmit(r, x) ==
    /\ Is(x, "rectification")
    /\ exam[x].status = "DRAFT"
    /\ Start(r, [pc |-> "write", on |-> x, status |-> "SUBMITTED"])
    /\ UNCHANGED exams

\* approveRectification and rejectRectification take any status.
BeginApprove(r, x) ==
    /\ Is(x, "rectification")
    /\ Start(r, [pc |-> "write", on |-> x, status |-> "APPROVED"])
    /\ UNCHANGED exams

BeginReject(r, x) ==
    /\ Is(x, "rectification")
    /\ Start(r, [pc |-> "write", on |-> x, status |-> "REJECTED"])
    /\ UNCHANGED exams

(***************************************************************************)
(* Previos.                                                                *)
(***************************************************************************)

CreatePrevio(r, x) ==
    /\ exam[x] = Absent
    /\ exam' = [exam EXCEPT ![x] = [kind |-> "previo", status |-> "PENDING"]]
    /\ Once(r, x)
    /\ UNCHANGED <<changed, filings>>

\* completePrevio takes any status, CANCELLED included.
BeginComplete(r, x) ==
    /\ Is(x, "previo")
    /\ Start(r, [pc |-> "write", on |-> x, status |-> "COMPLETED"])
    /\ UNCHANGED exams

\* Fault: a completed previo can be cancelled.
BeginCancelAny(r, x) ==
    /\ Is(x, "previo")
    /\ Start(r, [pc |-> "write", on |-> x, status |-> "CANCELLED"])
    /\ UNCHANGED exams

BeginCancel(r, x) ==
    /\ Is(x, "previo")
    /\ exam[x].status # "COMPLETED"
    /\ Start(r, [pc |-> "write", on |-> x, status |-> "CANCELLED"])
    /\ UNCHANGED exams

\* update: the status, with the date of filing when it is SUBMITTED
Write(r) ==
    LET q == request[r] IN
    /\ At(r, "write")
    /\ exam' = [exam EXCEPT ![q.on].status = q.status]
    /\ filings' = IF q.status = "SUBMITTED" THEN [filings EXCEPT ![q.on] = @ + 1] ELSE filings
    /\ Finish(r)
    /\ UNCHANGED changed

(***************************************************************************)
(* Inspections.                                                            *)
(***************************************************************************)

CreateInspection(r, x, color, dated) ==
    /\ exam[x] = Absent
    /\ exam' = [exam EXCEPT ![x] = [kind |-> "inspection", color |-> color, modulated |-> dated]]
    /\ Once(r, x)
    /\ UNCHANGED <<changed, filings>>

\* A field the request leaves out is undefined, which the database layer skips.
BeginUpdateInspection(r, x, color, dated) ==
    /\ Is(x, "inspection")
    /\ Start(r, [pc |-> "updateInspection", on |-> x, color |-> color, dated |-> dated])
    /\ UNCHANGED exams

\* recordModulationResult sets the colour together with the date.
BeginRecordModulation(r, x, color) ==
    /\ Is(x, "inspection")
    /\ Start(r, [pc |-> "updateInspection", on |-> x, color |-> color, dated |-> TRUE])
    /\ UNCHANGED exams

\* Fault: a date that is left out is written as null.
UpdateInspectionWhole(r) ==
    LET q == request[r] IN
    /\ At(r, "updateInspection")
    /\ exam' = [exam EXCEPT ![q.on].color = IF q.color = "KEEP" THEN @ ELSE q.color,
                            ![q.on].modulated = q.dated]
    /\ Finish(r)
    /\ UNCHANGED <<changed, filings>>

UpdateInspection(r) ==
    LET q == request[r] IN
    /\ At(r, "updateInspection")
    /\ exam' = [exam EXCEPT ![q.on].color = IF q.color = "KEEP" THEN @ ELSE q.color,
                            ![q.on].modulated = @ \/ q.dated]
    /\ Finish(r)
    /\ UNCHANGED <<changed, filings>>

Abort(r) == Stop(r) /\ UNCHANGED exams

Next ==
    \E r \in Requests :
        \/ \E e \in Entries : BeginCreateRectification(r, e)
        \/ \E x \in Exams :
            \/ InsertRectification(r, x) \/ CreatePrevio(r, x)
            \/ BeginSubmit(r, x) \/ BeginApprove(r, x) \/ BeginReject(r, x)
            \/ BeginComplete(r, x) \/ BeginCancel(r, x)
            \/ \E dated \in BOOLEAN :
                \/ \E color \in Colors \cup {"NONE"} : CreateInspection(r, x, color, dated)
                \/ \E color \in Colors \cup {"KEEP"} : BeginUpdateInspection(r, x, color, dated)
            \/ \E color \in Colors : BeginRecordModulation(r, x, color)
        \/ InsertFieldChanges(r) \/ Write(r) \/ UpdateInspection(r) \/ Abort(r)

Spec == Init /\ [][Next]_vars

(***************************************************************************)
(* Properties.                                                             *)
(***************************************************************************)

\* The rectifications of an entry are numbered without gap or repetition
\* (createRectification counts before it inserts), unless two were created at once.
NumberedInOrder ==
    \A e \in Entries \ raced :
        {exam[x].sequenceNumber : x \in RectificationsOf(e)}
            = 1..Cardinality(RectificationsOf(e))

\* A rectification is filed at most once (submitRectification), although it can
\* be approved and rejected at any time; unless two requests handled it at once.
FiledOnce == \A x \in Exams \ raced : filings[x] <= 1

\* A completed previo stays completed, and the result of a modulation stays
\* dated, whatever partial updates race with it (cancelPrevio, updateInspection).
ResultsStay ==
    [][\A x \in Exams :
        /\ Is(x, "previo") /\ exam[x].status = "COMPLETED" /\ x \notin raced' =>
               exam'[x].status = "COMPLETED"
        /\ Is(x, "inspection") /\ exam[x].modulated => exam'[x].modulated]_vars
=============================================================================
