----------------------------- MODULE EDocuments -----------------------------
(***************************************************************************)
(* Electronic documents (COVE), their items and their transmissions to     *)
(* the customs office: modules/e-documents.                                *)
(*                                                                         *)
(* Each handler reads the document, decides on its status and writes by id. *)
(* The transmission itself is a placeholder in the code: a row is inserted *)
(* and nothing is sent.                                                    *)
(***************************************************************************)
EXTENDS Handlers

CONSTANTS
    Documents,      \* ids of documents
    Items,          \* ids of items
    Contents        \* values of the columns that are edited

VARIABLES
    document,       \* document[d]: the row of e_documents
    item,           \* item[i]: the row of e_document_items
    transmitted     \* documents with a row in e_document_transmissions

documents == <<document, item, transmitted>>
vars == <<document, item, transmitted, request, started, raced>>

\* eDocumentStatusEnum
Statuses == {"DRAFT", "VALIDATING", "TRANSMITTED", "ACCEPTED", "REJECTED", "CANCELLED"}

\* EDITABLE_STATUSES
EditableStatuses == {"DRAFT", "REJECTED"}

\* Fault: a validated document can be accepted at once.
TransitionsHasty ==
    [DRAFT |-> {"VALIDATING"}, VALIDATING |-> {"TRANSMITTED", "DRAFT", "ACCEPTED"},
     TRANSMITTED |-> {"ACCEPTED", "REJECTED"}, ACCEPTED |-> {"CANCELLED"},
     REJECTED |-> {"DRAFT"}, CANCELLED |-> {}]

\* STATUS_TRANSITIONS
Transitions ==
    [DRAFT |-> {"VALIDATING"}, VALIDATING |-> {"TRANSMITTED", "DRAFT"},
     TRANSMITTED |-> {"ACCEPTED", "REJECTED"}, ACCEPTED |-> {"CANCELLED"},
     REJECTED |-> {"DRAFT"}, CANCELLED |-> {}]

\* The timestamps are the set of those that are not null.
DocumentRow == [status : Statuses, content : Contents,
                stamps : SUBSET {"TRANSMITTED", "ACCEPTED", "REJECTED"}]
ItemRow == [of : Documents, content : Contents]
Running ==
    [pc : {"updateDocument", "insertItem"}, on : Documents, content : Contents]
    \cup [pc : {"deleteDocument"}, on : Documents]
    \cup [pc : {"writeStatus"}, on : Documents, new : Statuses]
    \cup [pc : {"insertTransmission"}, on : Documents, was : Statuses]
    \cup [pc : {"findItemToUpdate", "updateItem"}, on : Documents, i : Items, content : Contents]
    \cup [pc : {"findItemToRemove", "deleteItem"}, on : Documents, i : Items]

TypeOK ==
    /\ document \in [Documents -> DocumentRow \cup {Absent, Gone}]
    /\ item \in [Items -> ItemRow \cup {Absent, Gone}]
    /\ transmitted \subseteq Documents
    /\ HandlersTypeOK(Running, Documents)

Init ==
    /\ document = [d \in Documents |-> Absent]
    /\ item = [i \in Items |-> Absent]
    /\ transmitted = {}
    /\ HandlersInit

\* getDocumentById
Found(d) == Present(document[d])
Editable(d) == Found(d) /\ document[d].status \in EditableStatuses

(***************************************************************************)
(* Documents.                                                              *)
(***************************************************************************)

CreateDocument(r, d, v) ==
    /\ document[d] = Absent
    /\ document' = [document EXCEPT ![d] = [status |-> "DRAFT", content |-> v, stamps |-> {}]]
    /\ Once(r, d)
    /\ UNCHANGED <<item, transmitted>>

BeginUpdateDocument(r, d, v) ==
    /\ Editable(d)
    /\ Start(r, [pc |-> "updateDocument", on |-> d, content |-> v])
    /\ UNCHANGED documents

UpdateDocument(r) ==
    LET q == request[r] IN
    /\ At(r, "updateDocument")
    /\ document' = IF Found(q.on) THEN [document EXCEPT ![q.on].content = q.content] ELSE document
    /\ Finish(r)
    /\ UNCHANGED <<item, transmitted>>

BeginDeleteDocument(r, d) ==
    /\ Editable(d)
    /\ Start(r, [pc |-> "deleteDocument", on |-> d])
    /\ UNCHANGED documents

\* Items and transmissions go with their document.
DeleteDocument(r) ==
    LET d == request[r].on IN
    /\ At(r, "deleteDocument")
    /\ document' = [document EXCEPT ![d] = Gone]
    /\ item' = [i \in Items |-> IF Present(item[i]) /\ item[i].of = d THEN Gone ELSE item[i]]
    /\ transmitted' = transmitted \ {d}
    /\ Finish(r)

BeginChangeStatus(r, d, s) ==
    /\ Found(d)
    /\ s \in Transitions[document[d].status]
    /\ Start(r, [pc |-> "writeStatus", on |-> d, new |-> s])
    /\ UNCHANGED documents

\* The stamp of the new status is set in the same statement.
WriteStatus(r) ==
    LET q == request[r] IN
    /\ At(r, "writeStatus")
    /\ document' = IF Found(q.on)
                   THEN [document EXCEPT ![q.on].status = q.new,
                           ![q.on].stamps = @ \cup ({q.new} \cap {"TRANSMITTED", "ACCEPTED", "REJECTED"})]
                   ELSE document
    /\ Finish(r)
    /\ UNCHANGED <<item, transmitted>>

BeginTransmit(r, d) ==
    /\ Found(d)
    /\ document[d].status \in {"VALIDATING", "DRAFT"}
    /\ Start(r, [pc |-> "insertTransmission", on |-> d, was |-> document[d].status])
    /\ UNCHANGED documents

\* The foreign key refuses the row of a deleted document.  A draft goes on to
\* VALIDATING in a statement of its own.
InsertTransmission(r) ==
    LET q == request[r] IN
    /\ At(r, "insertTransmission")
    /\ transmitted' = IF Found(q.on) THEN transmitted \cup {q.on} ELSE transmitted
    /\ IF Found(q.on) /\ q.was = "DRAFT"
       THEN Goto(r, [pc |-> "writeStatus", on |-> q.on, new |-> "VALIDATING"])
       ELSE Finish(r)
    /\ UNCHANGED <<document, item>>

(***************************************************************************)
(* Items.                                                                  *)
(***************************************************************************)

BeginAddItem(r, d, v) ==
    /\ Editable(d)
    /\ Start(r, [pc |-> "insertItem", on |-> d, content |-> v])
    /\ UNCHANGED documents

\* Fault: the item does not say whose it is.
InsertItemLoose(r, i) ==
    /\ At(r, "insertItem")
    /\ item[i] = Absent
    /\ item' = [item EXCEPT ![i] = [content |-> request[r].content]]
    /\ Finish(r)
    /\ UNCHANGED <<document, transmitted>>

InsertItem(r, i) ==
    LET q == request[r] IN
    /\ At(r, "insertItem")
    /\ item[i] = Absent
    /\ item' = IF Found(q.on) THEN [item EXCEPT ![i] = [of |-> q.on, content |-> q.content]]
               ELSE item
    /\ Finish(r)
    /\ UNCHANGED <<document, transmitted>>

BeginUpdateItem(r, d, i, v) ==
    /\ Editable(d)
    /\ Start(r, [pc |-> "findItemToUpdate", on |-> d, i |-> i, content |-> v])
    /\ UNCHANGED documents

BeginRemoveItem(r, d, i) ==
    /\ Editable(d)
    /\ Start(r, [pc |-> "findItemToRemove", on |-> d, i |-> i])
    /\ UNCHANGED documents

\* Fault: an item of another document is found too.
FindItemAny(r) ==
    LET q == request[r] IN
    /\ request[r].pc \in {"findItemToUpdate", "findItemToRemove"}
    /\ IF Present(item[q.i])
       THEN Goto(r, [q EXCEPT !.pc = IF @ = "findItemToUpdate" THEN "updateItem" ELSE "deleteItem"])
       ELSE Finish(r)
    /\ UNCHANGED documents

FindItem(r) ==
    LET q == request[r] IN
    /\ request[r].pc \in {"findItemToUpdate", "findItemToRemove"}
    /\ IF Present(item[q.i]) /\ item[q.i].of = q.on
       THEN Goto(r, [q EXCEPT !.pc = IF @ = "findItemToUpdate" THEN "updateItem" ELSE "deleteItem"])
       ELSE Finish(r)
    /\ UNCHANGED documents

UpdateItem(r) ==
    LET q == request[r] IN
    /\ At(r, "updateItem")
    /\ item' = IF Present(item[q.i]) THEN [item EXCEPT ![q.i].content = q.content] ELSE item
    /\ Finish(r)
    /\ UNCHANGED <<document, transmitted>>

DeleteItem(r) ==
    /\ At(r, "deleteItem")
    /\ item' = [item EXCEPT ![request[r].i] = Gone]
    /\ Finish(r)
    /\ UNCHANGED <<document, transmitted>>

Abort(r) == Stop(r) /\ UNCHANGED documents

Next ==
    \E r \in Requests :
        \/ \E d \in Documents :
            \/ \E v \in Contents :
                \/ CreateDocument(r, d, v) \/ BeginUpdateDocument(r, d, v) \/ BeginAddItem(r, d, v)
                \/ \E i \in Items : BeginUpdateItem(r, d, i, v)
            \/ \E s \in Statuses : BeginChangeStatus(r, d, s)
            \/ \E i \in Items : BeginRemoveItem(r, d, i)
            \/ BeginDeleteDocument(r, d) \/ BeginTransmit(r, d)
        \/ \E i \in Items : InsertItem(r, i)
        \/ UpdateDocument(r) \/ DeleteDocument(r) \/ WriteStatus(r) \/ InsertTransmission(r)
        \/ FindItem(r) \/ UpdateItem(r) \/ DeleteItem(r) \/ Abort(r)

Spec == Init /\ [][Next]_vars

(***************************************************************************)
(* Properties.                                                             *)
(***************************************************************************)

\* The timestamps tell the way of a document, whatever raced or failed
\* (changeStatus): what was answered had been transmitted, and an accepted or
\* cancelled document carries the date of its acceptance.
StampsTell ==
    \A d \in Documents : Found(d) =>
        LET s == document[d].status IN
        /\ s \in {"TRANSMITTED", "ACCEPTED", "REJECTED", "CANCELLED"} =>
               "TRANSMITTED" \in document[d].stamps
        /\ s \in {"ACCEPTED", "CANCELLED"} => "ACCEPTED" \in document[d].stamps
        /\ s = "REJECTED" => "REJECTED" \in document[d].stamps

\* What was sent stays as it was sent (EDITABLE_STATUSES): outside the editable
\* statuses neither the document nor any of its items changes, unless two
\* requests handled the document at once.
FrozenOnceSent ==
    [][\A d \in Documents \ raced' :
        Found(d) /\ ~Editable(d) =>
            /\ Found(d)' /\ document'[d].content = document[d].content
            /\ \A i \in Items :
                (Present(item[i]) /\ item[i].of = d) \/ (Present(item'[i]) /\ item'[i].of = d)
                    => item'[i] = item[i]]_vars
=============================================================================
