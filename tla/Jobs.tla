-------------------------------- MODULE Jobs --------------------------------
(***************************************************************************)
(* Import and export jobs: modules/imports and modules/exports.            *)
(*                                                                         *)
(* A job runs in the handler that creates it.  Its row is inserted as      *)
(* PROCESSING, and one of two updates ends it: COMPLETED at the end of the *)
(* try block, FAILED in the catch block.  The audit-log insert after       *)
(* COMPLETED is inside the try block too, so its failure runs the catch    *)
(* block on a job that was finished.                                       *)
(***************************************************************************)
EXTENDS Handlers

CONSTANTS
    Ids,        \* ids of jobs
    MaxRows     \* bound: rows of a CSV file

VARIABLES
    job,        \* job[j]: the row of import_jobs or export_jobs
    clients,    \* clients[j]: rows of clients inserted by import j
    stored,     \* export jobs whose file is in the object store
    broken,     \* history: jobs whose last step failed after the work was done
    stopped     \* history: jobs whose handler did not reach its last update

jobs == <<job, clients, stored, broken, stopped>>
vars == <<job, clients, stored, broken, stopped, request, started, raced>>

Kinds == {"import", "export"}

\* importJobStatusEnum and exportJobStatusEnum
Statuses == {"PENDING", "PROCESSING", "COMPLETED", "FAILED"}
Summary == [processed : 0..MaxRows, created : 0..MaxRows, failed : 0..MaxRows]
Nothing == [processed |-> 0, created |-> 0, failed |-> 0]
\* file: storageKey is not null; summary stands for resultSummaryJson
JobRow == [kind : Kinds, status : Statuses, summary : Summary, file : BOOLEAN]
Running ==
    [pc : {"auditStarted", "complete", "auditCompleted", "fail", "auditFailed"}, on : Ids,
     summary : Summary]
    \cup [pc : {"importRow"}, on : Ids, summary : Summary, rows : 1..MaxRows]
    \cup [pc : {"readRows", "upload"}, on : Ids, summary : {Nothing}]

TypeOK ==
    /\ job \in [Ids -> JobRow \cup {Absent}]
    /\ clients \in [Ids -> 0..MaxRows]
    /\ stored \subseteq Ids /\ broken \subseteq Ids /\ stopped \subseteq Ids
    /\ HandlersTypeOK(Running, Ids)

Init ==
    /\ job = [j \in Ids |-> Absent]
    /\ clients = [j \in Ids |-> 0]
    /\ stored = {} /\ broken = {} /\ stopped = {}
    /\ HandlersInit

Step(r, pc) == Goto(r, [pc |-> pc, on |-> request[r].on, summary |-> request[r].summary])

\* create, of either service
InsertJob(r, j, kind) ==
    /\ job[j] = Absent
    /\ job' = [job EXCEPT ![j] = [kind |-> kind, status |-> "PROCESSING", summary |-> Nothing,
                                  file |-> FALSE]]
    /\ Start(r, [pc |-> "auditStarted", on |-> j, summary |-> Nothing])
    /\ UNCHANGED <<clients, stored, broken, stopped>>

\* The CSV file has n rows, or none and no header that will do, which is an error.
AuditStarted(r, n) ==
    LET j == request[r].on IN
    /\ At(r, "auditStarted")
    /\ CASE job[j].kind = "export" -> Step(r, "readRows")
         [] job[j].kind = "import" /\ n = 0 -> Step(r, "fail")
         [] OTHER -> Goto(r, [pc |-> "importRow", on |-> j, summary |-> Nothing, rows |-> n])
    /\ UNCHANGED jobs

\* Fault: a row that fails ends the import.
ImportRowStrict(r, created) ==
    LET q == request[r] IN
    /\ At(r, "importRow")
    /\ clients' = [clients EXCEPT ![q.on] = IF created THEN @ + 1 ELSE @]
    /\ IF created /\ q.rows > 1
       THEN Goto(r, [q EXCEPT !.rows = @ - 1, !.summary.processed = @ + 1, !.summary.created = @ + 1])
       ELSE Goto(r, [pc |-> IF created THEN "complete" ELSE "fail", on |-> q.on, summary |-> q.summary])
    /\ UNCHANGED <<job, stored, broken, stopped>>

\* One turn of importClients' loop: a row without a name, or whose insert fails,
\* is counted and passed over.
ImportRow(r, created) ==
    LET q == request[r]
        summary == [processed |-> q.summary.processed + 1,
                    created |-> q.summary.created + IF created THEN 1 ELSE 0,
                    failed |-> q.summary.failed + IF created THEN 0 ELSE 1]
    IN
    /\ At(r, "importRow")
    /\ clients' = [clients EXCEPT ![q.on] = IF created THEN @ + 1 ELSE @]
    /\ IF q.rows > 1
       THEN Goto(r, [q EXCEPT !.rows = @ - 1, !.summary = summary])
       ELSE Goto(r, [pc |-> "complete", on |-> q.on, summary |-> summary])
    /\ UNCHANGED <<job, stored, broken, stopped>>

ReadRows(r) ==
    /\ At(r, "readRows")
    /\ Step(r, "upload")
    /\ UNCHANGED jobs

\* Fault: the file is sent later, if at all.
UploadLater(r) ==
    /\ At(r, "upload")
    /\ Step(r, "complete")
    /\ UNCHANGED jobs

Upload(r) ==
    /\ At(r, "upload")
    /\ stored' = stored \cup {request[r].on}
    /\ Step(r, "complete")
    /\ UNCHANGED <<job, clients, broken, stopped>>

\* The update that ends the try block.
Complete(r) ==
    LET q == request[r] IN
    /\ At(r, "complete")
    /\ job' = [job EXCEPT ![q.on] = [@ EXCEPT !.status = "COMPLETED", !.summary = q.summary,
                                              !.file = job[q.on].kind = "export"]]
    /\ Step(r, "auditCompleted")
    /\ UNCHANGED <<clients, stored, broken, stopped>>

\* The audit-log insert, and the end of the handler.
Audit(r) ==
    /\ request[r].pc \in {"auditCompleted", "auditFailed"}
    /\ Finish(r)
    /\ UNCHANGED jobs

\* Fault: the error is thrown on and the job is left as it is.
ThrowsOn(r) ==
    /\ request[r].pc \in {"readRows", "upload", "complete", "auditCompleted"}
    /\ broken' = IF request[r].pc \in {"complete", "auditCompleted"}
                 THEN broken \cup {request[r].on} ELSE broken
    /\ Finish(r)
    /\ UNCHANGED <<job, clients, stored, stopped>>

\* A statement inside the try block fails.
Throws(r) ==
    /\ request[r].pc \in {"readRows", "upload", "complete", "auditCompleted"}
    /\ broken' = IF request[r].pc \in {"complete", "auditCompleted"}
                 THEN broken \cup {request[r].on} ELSE broken
    /\ Step(r, "fail")
    /\ UNCHANGED <<job, clients, stored, stopped>>

\* The update of the catch block; that of an export leaves the key as it is.
Fail(r) ==
    LET j == request[r].on IN
    /\ At(r, "fail")
    /\ job' = [job EXCEPT ![j].status = "FAILED", ![j].summary = Nothing]
    /\ Step(r, "auditFailed")
    /\ UNCHANGED <<clients, stored, broken, stopped>>

\* A statement outside the try block fails, or the process dies.
Abort(r) ==
    /\ Stop(r)
    /\ stopped' = IF request[r].pc \in {"auditCompleted", "auditFailed"} THEN stopped
                  ELSE stopped \cup {request[r].on}
    /\ UNCHANGED <<job, clients, stored, broken>>

Next ==
    \E r \in Requests :
        \/ \E j \in Ids, kind \in Kinds : InsertJob(r, j, kind)
        \/ \E n \in 0..MaxRows : AuditStarted(r, n)
        \/ \E created \in BOOLEAN : ImportRow(r, created)
        \/ ReadRows(r) \/ Upload(r) \/ Complete(r) \/ Audit(r)
        \/ Throws(r) \/ Fail(r) \/ Abort(r)

Spec == Init /\ [][Next]_vars

(***************************************************************************)
(* Properties.                                                             *)
(***************************************************************************)

Ended(j, status) == Present(job[j]) /\ ~Handled(j) /\ job[j].status = status

\* A COMPLETED import says how many clients it inserted, and a FAILED one, whose
\* summary says none, inserted none, unless its last update or the audit-log
\* insert after it failed (create of ImportsService).
SummaryTells ==
    \A j \in Ids : Present(job[j]) /\ job[j].kind = "import" =>
        /\ Ended(j, "COMPLETED") =>
            /\ job[j].summary.created = clients[j]
            /\ job[j].summary.processed = clients[j] + job[j].summary.failed
        /\ Ended(j, "FAILED") /\ j \notin broken => clients[j] = 0

\* A job that offers a file has it in the store, every COMPLETED export offers
\* one, and a FAILED one offers none unless only its audit-log insert failed
\* (getDownloadUrl looks at the key alone).
FileTells ==
    \A j \in Ids : Present(job[j]) =>
        /\ job[j].file => j \in stored
        /\ Ended(j, "COMPLETED") /\ job[j].kind = "export" => job[j].file
        /\ Ended(j, "FAILED") /\ job[j].file => j \in broken

\* A job is left PROCESSING only by a handler that was stopped: whatever fails
\* inside the try block ends it (create, of either service).
LeftOnlyByStop == \A j \in Ids : Ended(j, "PROCESSING") => j \in stopped
=============================================================================
