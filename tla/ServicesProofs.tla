-------------------------- MODULE ServicesProofs --------------------------
(***************************************************************************)
(* Proofs about the other parts of MCServices (electronic documents,       *)
(* declarations of value, operations, examinations, shipments), and then   *)
(* the theorems about all of them: any rows, values and amounts, and any   *)
(* number of concurrent requests.                                          *)
(***************************************************************************)
EXTENDS FilesProofs, LedgersProofs


(***************************************************************************)
(* Electronic documents.                                                   *)
(***************************************************************************)

EDEdits == {"updateDocument", "insertItem", "deleteDocument",
            "findItemToUpdate", "updateItem", "findItemToRemove", "deleteItem"}

\* Handlers are about documents that have been there; two of them about one
\* document are remembered; and one that edits goes for its own item.
EDHandlers ==
    /\ \A r \in Requests : request[r] # ED!Idle => document[request[r].on] # ED!Absent
    /\ \A q, r \in Requests :
          request[q] # ED!Idle /\ request[r] # ED!Idle /\ request[q].on = request[r].on
             /\ request[q].on \notin raced => q = r
    /\ \A r \in Requests : request[r].pc \in {"updateItem", "deleteItem"} =>
          item[request[r].i] = ED!Gone \/ (ED!Present(item[request[r].i]) /\ item[request[r].i].of = request[r].on)

\* A document that one handler edits is editable until it is done.
EDEditing ==
    \A r \in Requests : request[r].pc \in EDEdits /\ request[r].on \notin raced
        /\ ED!Found(request[r].on) => ED!Editable(request[r].on)

\* A status that will be written follows from one whose stamps are there.
EDWay ==
    \A r \in Requests : ED!At(r, "writeStatus") /\ ED!Found(request[r].on) =>
        /\ request[r].new \in {"ACCEPTED", "REJECTED", "CANCELLED"} =>
              "TRANSMITTED" \in document[request[r].on].stamps
        /\ request[r].new = "CANCELLED" => "ACCEPTED" \in document[request[r].on].stamps

EDInv == ED!TypeOK /\ EDHandlers /\ EDEditing /\ EDWay /\ ED!StampsTell


\* Outside the editable statuses a document and its items stay, unless raced.
EDFrozen ==
    \A d \in Rows \ raced' :
        ED!Found(d) /\ ~ED!Editable(d) =>
            /\ ED!Found(d)' /\ document'[d].content = document[d].content
            /\ \A i \in Parts :
                (ED!Present(item[i]) /\ item[i].of = d) \/ (ED!Present(item'[i]) /\ item'[i].of = d)
                    => item'[i] = item[i]

\* A row that is there is neither absent nor gone.
LEMMA EDRows == \A x \in ED!DocumentRow : x \notin {ED!Absent, ED!Gone}
BY DEF ED!DocumentRow, ED!Absent, ED!Gone

\* No document is there at first.
LEMMA EDStart == ED!Init => EDInv
<1> SUFFICES ASSUME ED!Init PROVE EDInv
    OBVIOUS
<1>1. ED!TypeOK
      BY MaxStartedAssumption DEF ED!Init, ED!HandlersInit, ED!TypeOK, ED!HandlersTypeOK
<1> QED BY <1>1 DEF ED!Init, ED!HandlersInit, EDInv, EDHandlers, EDEditing, EDWay,
           ED!StampsTell, EDEdits, ED!Found, ED!Present, ED!At, ED!Idle

\* Every step keeps the types.
LEMMA EDTypeStep ==
    ASSUME ED!TypeOK, [ED!Next]_ED!vars
    PROVE  ED!TypeOK'
<1> USE MaxStartedAssumption DEF ED!TypeOK, ED!HandlersTypeOK, ED!Statuses, ED!DocumentRow,
        ED!ItemRow, ED!Running,
            ED!documents, ED!Found, ED!Editable, ED!Present, ED!At, ED!Start, ED!Once, ED!Goto,
            ED!Finish, ED!Absent, ED!Gone, ED!Idle
<1>1. ASSUME NEW r \in Requests, NEW d \in Rows, NEW v \in Contents, ED!CreateDocument(r, d, v)
      PROVE  ED!TypeOK'
      BY <1>1 DEF ED!CreateDocument
<1>2. ASSUME NEW r \in Requests, NEW d \in Rows, NEW v \in Contents, ED!BeginUpdateDocument(r,
             d, v)
      PROVE  ED!TypeOK'
      BY <1>2 DEF ED!BeginUpdateDocument
<1>3. ASSUME NEW r \in Requests, ED!UpdateDocument(r)
      PROVE  ED!TypeOK'
      BY <1>3 DEF ED!UpdateDocument
<1>4. ASSUME NEW r \in Requests, NEW d \in Rows, ED!BeginDeleteDocument(r, d)
      PROVE  ED!TypeOK'
      BY <1>4 DEF ED!BeginDeleteDocument
<1>5. ASSUME NEW r \in Requests, ED!DeleteDocument(r)
      PROVE  ED!TypeOK'
      BY <1>5 DEF ED!DeleteDocument
<1>6. ASSUME NEW r \in Requests, NEW d \in Rows, NEW s \in ED!Statuses, ED!BeginChangeStatus(r, d,
             s)
      PROVE  ED!TypeOK'
      BY <1>6 DEF ED!BeginChangeStatus
<1>7. ASSUME NEW r \in Requests, ED!WriteStatus(r)
      PROVE  ED!TypeOK'
      BY <1>7 DEF ED!WriteStatus
<1>8. ASSUME NEW r \in Requests, NEW d \in Rows, ED!BeginTransmit(r, d)
      PROVE  ED!TypeOK'
      BY <1>8 DEF ED!BeginTransmit
<1>9. ASSUME NEW r \in Requests, ED!InsertTransmission(r)
      PROVE  ED!TypeOK'
      BY <1>9 DEF ED!InsertTransmission
<1>10. ASSUME NEW r \in Requests, NEW d \in Rows, NEW v \in Contents, ED!BeginAddItem(r, d, v)
      PROVE  ED!TypeOK'
      BY <1>10 DEF ED!BeginAddItem
<1>11. ASSUME NEW r \in Requests, NEW i \in Parts, ED!InsertItem(r, i)
      PROVE  ED!TypeOK'
      BY <1>11 DEF ED!InsertItem
<1>12. ASSUME NEW r \in Requests, NEW d \in Rows, NEW v \in Contents, NEW i \in Parts,
              ED!BeginUpdateItem(r, d, i, v)
      PROVE  ED!TypeOK'
      BY <1>12 DEF ED!BeginUpdateItem
<1>13. ASSUME NEW r \in Requests, NEW d \in Rows, NEW i \in Parts, ED!BeginRemoveItem(r, d, i)
      PROVE  ED!TypeOK'
      BY <1>13 DEF ED!BeginRemoveItem
<1>14. ASSUME NEW r \in Requests, ED!FindItem(r)
      PROVE  ED!TypeOK'
      BY <1>14 DEF ED!FindItem
<1>15. ASSUME NEW r \in Requests, ED!UpdateItem(r)
      PROVE  ED!TypeOK'
      BY <1>15 DEF ED!UpdateItem
<1>16. ASSUME NEW r \in Requests, ED!DeleteItem(r)
      PROVE  ED!TypeOK'
      BY <1>16 DEF ED!DeleteItem
<1>17. ASSUME NEW r \in Requests, ED!Abort(r)
      PROVE  ED!TypeOK'
      BY <1>17 DEF ED!Abort, ED!Stop
<1>18. CASE UNCHANGED ED!vars
      BY <1>18 DEF ED!vars
<1> HIDE DEF ED!TypeOK, ED!HandlersTypeOK, ED!Statuses, ED!DocumentRow, ED!ItemRow, ED!Running,
             ED!documents, ED!Found, ED!Editable, ED!Present, ED!At, ED!Start, ED!Once, ED!Goto,
             ED!Finish, ED!Absent, ED!Gone, ED!Idle
<1> QED BY <1>1, <1>2, <1>3, <1>4, <1>5, <1>6, <1>7, <1>8, <1>9, <1>10, <1>11, <1>12, <1>13,
           <1>14, <1>15, <1>16, <1>17, <1>18 DEF ED!Next

\* Every step keeps the rest of the invariant.
LEMMA EDRestStep ==
    ASSUME EDInv, [ED!Next]_ED!vars
    PROVE  EDHandlers' /\ EDEditing' /\ EDWay' /\ ED!StampsTell'
<1> USE DEF ED!TypeOK, ED!HandlersTypeOK, ED!Statuses, ED!DocumentRow, ED!ItemRow, ED!Running,
            ED!documents, ED!Found, ED!Editable, ED!Present, ED!At, ED!Start, ED!Once, ED!Goto,
            ED!Finish, ED!Absent, ED!Gone, ED!Idle,
            EDInv, EDHandlers, EDEditing, EDEdits, EDWay, ED!StampsTell, ED!Transitions,
            ED!Handled
<1>1. ASSUME NEW r \in Requests, NEW d \in Rows, NEW v \in Contents, ED!CreateDocument(r, d, v)
      PROVE  EDHandlers' /\ EDEditing' /\ EDWay' /\ ED!StampsTell'
      BY <1>1 DEF ED!CreateDocument
<1>2. ASSUME NEW r \in Requests, NEW d \in Rows, NEW v \in Contents, ED!BeginUpdateDocument(r,
             d, v)
      PROVE  EDHandlers' /\ EDEditing' /\ EDWay' /\ ED!StampsTell'
      BY <1>2 DEF ED!BeginUpdateDocument
<1>3. ASSUME NEW r \in Requests, ED!UpdateDocument(r)
      PROVE  EDHandlers' /\ EDEditing' /\ EDWay' /\ ED!StampsTell'
      BY <1>3 DEF ED!UpdateDocument
<1>4. ASSUME NEW r \in Requests, NEW d \in Rows, ED!BeginDeleteDocument(r, d)
      PROVE  EDHandlers' /\ EDEditing' /\ EDWay' /\ ED!StampsTell'
      BY <1>4 DEF ED!BeginDeleteDocument
<1>5. ASSUME NEW r \in Requests, ED!DeleteDocument(r)
      PROVE  EDHandlers' /\ EDEditing' /\ EDWay' /\ ED!StampsTell'
  <2>1. EDHandlers'
        BY SMTT(20), <1>5 DEF ED!DeleteDocument
  <2>2. EDEditing'
        BY <1>5 DEF ED!DeleteDocument
  <2>3. EDWay'
        BY <1>5 DEF ED!DeleteDocument
  <2>4. ED!StampsTell'
        BY <1>5 DEF ED!DeleteDocument
  <2> QED BY <2>1, <2>2, <2>3, <2>4
<1>6. ASSUME NEW r \in Requests, NEW d \in Rows, NEW s \in ED!Statuses, ED!BeginChangeStatus(r, d,
             s)
      PROVE  EDHandlers' /\ EDEditing' /\ EDWay' /\ ED!StampsTell'
      BY <1>6 DEF ED!BeginChangeStatus
<1>7. ASSUME NEW r \in Requests, ED!WriteStatus(r)
      PROVE  EDHandlers' /\ EDEditing' /\ EDWay' /\ ED!StampsTell'
  <2> DEFINE d == request[r].on
              s == request[r].new
  <2>1. /\ d \in Rows /\ s \in ED!Statuses /\ ED!At(r, "writeStatus")
        /\ UNCHANGED <<item, transmitted, raced>> /\ request' = [request EXCEPT ![r] = ED!Idle]
        BY <1>7 DEF ED!WriteStatus
  <2>2. \A e \in Rows \ {d} : document'[e] = document[e]
        BY <1>7, <2>1 DEF ED!WriteStatus
  <2>3. CASE ~ED!Found(d)
        BY <1>7, <2>1, <2>3 DEF ED!WriteStatus
  <2>4. CASE ED!Found(d)
    <3>1. /\ document[d] \in ED!DocumentRow
          /\ document' = [document EXCEPT ![d] = [document[d] EXCEPT !.status = s,
                 !.stamps = @ \cup ({s} \cap {"TRANSMITTED", "ACCEPTED", "REJECTED"})]]
          BY <1>7, <2>1, <2>4 DEF ED!WriteStatus
    <3>2. /\ document'[d].status = s
          /\ document'[d].stamps =
                document[d].stamps \cup ({s} \cap {"TRANSMITTED", "ACCEPTED", "REJECTED"})
          /\ document'[d] \in ED!DocumentRow
          BY <2>1, <3>1 DEF ED!DocumentRow
    <3>7. ED!Present(document'[d])
          BY <3>2, EDRows
    <3>3. EDHandlers'
          BY <2>1, <2>2, <2>4, <3>2, <3>7
    <3>4. EDEditing'
          BY <2>1, <2>2, <2>4, <3>2, <3>7
    <3>5. EDWay'
          BY <2>1, <2>2, <2>4, <3>2, <3>7
    <3>6. ED!StampsTell'
          BY <2>1, <2>2, <2>4, <3>2, <3>7
    <3> QED BY <3>3, <3>4, <3>5, <3>6
  <2> QED BY <2>3, <2>4
<1>8. ASSUME NEW r \in Requests, NEW d \in Rows, ED!BeginTransmit(r, d)
      PROVE  EDHandlers' /\ EDEditing' /\ EDWay' /\ ED!StampsTell'
      BY <1>8 DEF ED!BeginTransmit
<1>9. ASSUME NEW r \in Requests, ED!InsertTransmission(r)
      PROVE  EDHandlers' /\ EDEditing' /\ EDWay' /\ ED!StampsTell'
  <2>1. EDHandlers'
        BY <1>9 DEF ED!InsertTransmission
  <2>2. EDEditing'
        BY <1>9 DEF ED!InsertTransmission
  <2>3. EDWay'
        BY <1>9 DEF ED!InsertTransmission
  <2>4. ED!StampsTell'
        BY <1>9 DEF ED!InsertTransmission
  <2> QED BY <2>1, <2>2, <2>3, <2>4
<1>10. ASSUME NEW r \in Requests, NEW d \in Rows, NEW v \in Contents, ED!BeginAddItem(r, d, v)
      PROVE  EDHandlers' /\ EDEditing' /\ EDWay' /\ ED!StampsTell'
      BY <1>10 DEF ED!BeginAddItem
<1>11. ASSUME NEW r \in Requests, NEW i \in Parts, ED!InsertItem(r, i)
      PROVE  EDHandlers' /\ EDEditing' /\ EDWay' /\ ED!StampsTell'
      BY <1>11 DEF ED!InsertItem
<1>12. ASSUME NEW r \in Requests, NEW d \in Rows, NEW v \in Contents, NEW i \in Parts,
              ED!BeginUpdateItem(r, d, i, v)
      PROVE  EDHandlers' /\ EDEditing' /\ EDWay' /\ ED!StampsTell'
      BY <1>12 DEF ED!BeginUpdateItem
<1>13. ASSUME NEW r \in Requests, NEW d \in Rows, NEW i \in Parts, ED!BeginRemoveItem(r, d, i)
      PROVE  EDHandlers' /\ EDEditing' /\ EDWay' /\ ED!StampsTell'
      BY <1>13 DEF ED!BeginRemoveItem
<1>14. ASSUME NEW r \in Requests, ED!FindItem(r)
      PROVE  EDHandlers' /\ EDEditing' /\ EDWay' /\ ED!StampsTell'
  <2>1. EDHandlers'
        BY <1>14 DEF ED!FindItem
  <2>2. EDEditing'
        BY <1>14 DEF ED!FindItem
  <2>3. EDWay'
        BY <1>14 DEF ED!FindItem
  <2>4. ED!StampsTell'
        BY <1>14 DEF ED!FindItem
  <2> QED BY <2>1, <2>2, <2>3, <2>4
<1>15. ASSUME NEW r \in Requests, ED!UpdateItem(r)
      PROVE  EDHandlers' /\ EDEditing' /\ EDWay' /\ ED!StampsTell'
      BY <1>15 DEF ED!UpdateItem
<1>16. ASSUME NEW r \in Requests, ED!DeleteItem(r)
      PROVE  EDHandlers' /\ EDEditing' /\ EDWay' /\ ED!StampsTell'
      BY <1>16 DEF ED!DeleteItem
<1>17. ASSUME NEW r \in Requests, ED!Abort(r)
      PROVE  EDHandlers' /\ EDEditing' /\ EDWay' /\ ED!StampsTell'
      BY <1>17 DEF ED!Abort, ED!Stop
<1>18. CASE UNCHANGED ED!vars
      BY <1>18 DEF ED!vars
<1> HIDE DEF ED!TypeOK, ED!HandlersTypeOK, ED!Statuses, ED!DocumentRow, ED!ItemRow, ED!Running,
             ED!documents, ED!Found, ED!Editable, ED!Present, ED!At, ED!Start, ED!Once, ED!Goto,
             ED!Finish, ED!Absent, ED!Gone, ED!Idle,
             EDInv, EDHandlers, EDEditing, EDEdits, EDWay, ED!StampsTell, ED!Transitions,
             ED!Handled
<1> QED BY <1>1, <1>2, <1>3, <1>4, <1>5, <1>6, <1>7, <1>8, <1>9, <1>10, <1>11, <1>12, <1>13,
           <1>14, <1>15, <1>16, <1>17, <1>18 DEF ED!Next

\* A document that is not editable stays.
LEMMA EDFrozenStep ==
    ASSUME EDInv, [ED!Next]_ED!vars
    PROVE  EDFrozen
<1> USE DEF ED!TypeOK, ED!HandlersTypeOK, ED!Statuses, ED!DocumentRow, ED!ItemRow, ED!Running,
            ED!documents, ED!Found, ED!Editable, ED!Present, ED!At, ED!Start, ED!Once, ED!Goto,
            ED!Finish, ED!Absent, ED!Gone, ED!Idle,
            EDInv, EDHandlers, EDEditing, EDEdits, EDWay, ED!StampsTell, ED!Handled, EDFrozen
<1>1. ASSUME NEW r \in Requests, NEW d \in Rows, NEW v \in Contents, ED!CreateDocument(r, d, v)
      PROVE  EDFrozen
      BY <1>1 DEF ED!CreateDocument
<1>2. ASSUME NEW r \in Requests, NEW d \in Rows, NEW v \in Contents, ED!BeginUpdateDocument(r,
             d, v)
      PROVE  EDFrozen
      BY <1>2 DEF ED!BeginUpdateDocument
<1>3. ASSUME NEW r \in Requests, ED!UpdateDocument(r)
      PROVE  EDFrozen
      BY <1>3 DEF ED!UpdateDocument
<1>4. ASSUME NEW r \in Requests, NEW d \in Rows, ED!BeginDeleteDocument(r, d)
      PROVE  EDFrozen
      BY <1>4 DEF ED!BeginDeleteDocument
<1>5. ASSUME NEW r \in Requests, ED!DeleteDocument(r)
      PROVE  EDFrozen
      BY <1>5 DEF ED!DeleteDocument
<1>6. ASSUME NEW r \in Requests, NEW d \in Rows, NEW s \in ED!Statuses, ED!BeginChangeStatus(r, d,
             s)
      PROVE  EDFrozen
      BY <1>6 DEF ED!BeginChangeStatus
<1>7. ASSUME NEW r \in Requests, ED!WriteStatus(r)
      PROVE  EDFrozen
      BY <1>7 DEF ED!WriteStatus
<1>8. ASSUME NEW r \in Requests, NEW d \in Rows, ED!BeginTransmit(r, d)
      PROVE  EDFrozen
      BY <1>8 DEF ED!BeginTransmit
<1>9. ASSUME NEW r \in Requests, ED!InsertTransmission(r)
      PROVE  EDFrozen
      BY <1>9 DEF ED!InsertTransmission
<1>10. ASSUME NEW r \in Requests, NEW d \in Rows, NEW v \in Contents, ED!BeginAddItem(r, d, v)
      PROVE  EDFrozen
      BY <1>10 DEF ED!BeginAddItem
<1>11. ASSUME NEW r \in Requests, NEW i \in Parts, ED!InsertItem(r, i)
      PROVE  EDFrozen
      BY <1>11 DEF ED!InsertItem
<1>12. ASSUME NEW r \in Requests, NEW d \in Rows, NEW v \in Contents, NEW i \in Parts,
              ED!BeginUpdateItem(r, d, i, v)
      PROVE  EDFrozen
      BY <1>12 DEF ED!BeginUpdateItem
<1>13. ASSUME NEW r \in Requests, NEW d \in Rows, NEW i \in Parts, ED!BeginRemoveItem(r, d, i)
      PROVE  EDFrozen
      BY <1>13 DEF ED!BeginRemoveItem
<1>14. ASSUME NEW r \in Requests, ED!FindItem(r)
      PROVE  EDFrozen
      BY <1>14 DEF ED!FindItem
<1>15. ASSUME NEW r \in Requests, ED!UpdateItem(r)
      PROVE  EDFrozen
      BY <1>15 DEF ED!UpdateItem
<1>16. ASSUME NEW r \in Requests, ED!DeleteItem(r)
      PROVE  EDFrozen
      BY <1>16 DEF ED!DeleteItem
<1>17. ASSUME NEW r \in Requests, ED!Abort(r)
      PROVE  EDFrozen
      BY <1>17 DEF ED!Abort, ED!Stop
<1>18. CASE UNCHANGED ED!vars
      BY <1>18 DEF ED!vars
<1> HIDE DEF ED!TypeOK, ED!HandlersTypeOK, ED!Statuses, ED!DocumentRow, ED!ItemRow, ED!Running,
             ED!documents, ED!Found, ED!Editable, ED!Present, ED!At, ED!Start, ED!Once, ED!Goto,
             ED!Finish, ED!Absent, ED!Gone, ED!Idle,
             EDInv, EDHandlers, EDEditing, EDEdits, EDWay, ED!StampsTell, ED!Handled, EDFrozen
<1> QED BY <1>1, <1>2, <1>3, <1>4, <1>5, <1>6, <1>7, <1>8, <1>9, <1>10, <1>11, <1>12, <1>13,
           <1>14, <1>15, <1>16, <1>17, <1>18 DEF ED!Next

\* Every step keeps the invariant.
LEMMA EDInvStep == ASSUME EDInv, [ED!Next]_ED!vars PROVE EDInv'
BY EDTypeStep, EDRestStep DEF EDInv

(***************************************************************************)
(* Declarations of value.                                                  *)
(***************************************************************************)

VAEdits == {"updateDeclaration", "insertPart", "deleteDeclaration",
            "findToUpdate", "updatePart", "findToRemove", "deletePart"}

\* Handlers are about declarations that have been there; two of them about one
\* declaration are remembered; and one that edits a part goes for its own.
VAHandlers ==
    /\ \A r \in Requests : request[r] # VA!Idle => declaration[request[r].on] # VA!Absent
    /\ \A q, r \in Requests :
          request[q] # VA!Idle /\ request[r] # VA!Idle /\ request[q].on = request[r].on
             /\ request[q].on \notin raced => q = r
    /\ \A r \in Requests : request[r].pc \in {"updatePart", "deletePart"} =>
          part[request[r].p] = VA!Gone \/ VA!PartOf(request[r].p, request[r].on)

\* A declaration that one handler edits is editable until it is done.
VAEditing ==
    \A r \in Requests : request[r].pc \in VAEdits /\ request[r].on \notin raced
        /\ VA!Found(request[r].on) => VA!Editable(request[r].on)

\* A status that will be written comes after those that lead to it.
VAWay ==
    \A r \in Requests : VA!At(r, "writeStatus") /\ VA!Found(request[r].on) =>
        /\ request[r].new = "SUBMITTED" => "COMPLETED" \in been[request[r].on]
        /\ request[r].new \in {"APPROVED", "REJECTED"} => "SUBMITTED" \in been[request[r].on]

VAInv == VA!TypeOK /\ VAHandlers /\ VAEditing /\ VAWay /\ VA!ApprovedWasSubmitted

\* Outside the editable statuses a declaration and its parts stay, unless raced.
VAFrozen ==
    \A d \in Rows \ raced' :
        VA!Found(d) /\ ~VA!Editable(d) =>
            /\ VA!Found(d)' /\ declaration'[d].content = declaration[d].content
            /\ \A p \in Parts : VA!PartOf(p, d) \/ VA!PartOf(p, d)' => part'[p] = part[p]

\* A row that is there is neither absent nor gone.
LEMMA VARows == \A x \in VA!DeclarationRow : x \notin {VA!Absent, VA!Gone}
BY DEF VA!DeclarationRow, VA!Absent, VA!Gone

\* No declaration is there at first.
LEMMA VAStart == VA!Init => VAInv
<1> SUFFICES ASSUME VA!Init PROVE VAInv
    OBVIOUS
<1>1. VA!TypeOK
      BY MaxStartedAssumption DEF VA!Init, VA!HandlersInit, VA!TypeOK, VA!HandlersTypeOK
<1> QED BY <1>1 DEF VA!Init, VA!HandlersInit, VAInv, VAHandlers, VAEditing, VAWay,
           VA!ApprovedWasSubmitted, VAEdits, VA!Found, VA!Present, VA!At, VA!Idle

\* Every step keeps the types.
LEMMA VATypeStep ==
    ASSUME VA!TypeOK, [VA!Next]_VA!vars
    PROVE  VA!TypeOK'
<1> USE MaxStartedAssumption DEF VA!TypeOK, VA!HandlersTypeOK, VA!Statuses, VA!Kinds,
        VA!DeclarationRow, VA!ItemRow, VA!CostRow, VA!Running,
            VA!declarations, VA!Found, VA!Editable, VA!PartOf, VA!Present, VA!At, VA!Start,
            VA!Once, VA!Goto, VA!Finish, VA!Absent, VA!Gone, VA!Idle
<1>1. ASSUME NEW r \in Requests, NEW d \in Rows, NEW v \in Contents, VA!CreateDeclaration(r,
             d, v)
      PROVE  VA!TypeOK'
      BY <1>1 DEF VA!CreateDeclaration
<1>2. ASSUME NEW r \in Requests, NEW d \in Rows, NEW v \in Contents,
             VA!BeginUpdateDeclaration(r, d, v)
      PROVE  VA!TypeOK'
      BY <1>2 DEF VA!BeginUpdateDeclaration, VA!BeginEdit
<1>3. ASSUME NEW r \in Requests, NEW d \in Rows, NEW v \in Contents, VA!BeginAddItem(r, d, v)
      PROVE  VA!TypeOK'
      BY <1>3 DEF VA!BeginAddItem, VA!BeginEdit
<1>4. ASSUME NEW r \in Requests, NEW d \in Rows, NEW v \in Contents, VA!BeginAddCost(r, d, v)
      PROVE  VA!TypeOK'
      BY <1>4 DEF VA!BeginAddCost, VA!BeginEdit
<1>5. ASSUME NEW r \in Requests, NEW d \in Rows, NEW p \in Parts, NEW v \in Contents,
             VA!BeginUpdateItem(r, d, p, v)
      PROVE  VA!TypeOK'
      BY <1>5 DEF VA!BeginUpdateItem, VA!BeginEdit
<1>6. ASSUME NEW r \in Requests, NEW d \in Rows, NEW p \in Parts, NEW v \in Contents,
             VA!BeginUpdateCost(r, d, p, v)
      PROVE  VA!TypeOK'
      BY <1>6 DEF VA!BeginUpdateCost, VA!BeginEdit
<1>7. ASSUME NEW r \in Requests, NEW d \in Rows, NEW p \in Parts, VA!BeginRemoveItem(r, d, p)
      PROVE  VA!TypeOK'
      BY <1>7 DEF VA!BeginRemoveItem, VA!BeginEdit
<1>8. ASSUME NEW r \in Requests, NEW d \in Rows, NEW p \in Parts, VA!BeginRemoveCost(r, d, p)
      PROVE  VA!TypeOK'
      BY <1>8 DEF VA!BeginRemoveCost, VA!BeginEdit
<1>9. ASSUME NEW r \in Requests, NEW d \in Rows, VA!BeginDeleteDeclaration(r, d)
      PROVE  VA!TypeOK'
      BY <1>9 DEF VA!BeginDeleteDeclaration, VA!BeginEdit
<1>10. ASSUME NEW r \in Requests, NEW d \in Rows, NEW s \in VA!Statuses,
              VA!BeginChangeStatus(r, d, s)
      PROVE  VA!TypeOK'
      BY <1>10 DEF VA!BeginChangeStatus
<1>11. ASSUME NEW r \in Requests, NEW p \in Parts, VA!InsertPart(r, p)
      PROVE  VA!TypeOK'
      BY <1>11 DEF VA!InsertPart
<1>12. ASSUME NEW r \in Requests, VA!UpdateDeclaration(r)
      PROVE  VA!TypeOK'
      BY <1>12 DEF VA!UpdateDeclaration
<1>13. ASSUME NEW r \in Requests, VA!DeleteDeclaration(r)
      PROVE  VA!TypeOK'
      BY <1>13 DEF VA!DeleteDeclaration
<1>14. ASSUME NEW r \in Requests, VA!WriteStatus(r)
      PROVE  VA!TypeOK'
      BY <1>14 DEF VA!WriteStatus
<1>15. ASSUME NEW r \in Requests, VA!FindPart(r)
      PROVE  VA!TypeOK'
      BY <1>15 DEF VA!FindPart
<1>16. ASSUME NEW r \in Requests, VA!UpdatePart(r)
      PROVE  VA!TypeOK'
      BY <1>16 DEF VA!UpdatePart
<1>17. ASSUME NEW r \in Requests, VA!DeletePart(r)
      PROVE  VA!TypeOK'
      BY <1>17 DEF VA!DeletePart
<1>18. ASSUME NEW r \in Requests, VA!Abort(r)
      PROVE  VA!TypeOK'
      BY <1>18 DEF VA!Abort, VA!Stop
<1>19. CASE UNCHANGED VA!vars
      BY <1>19 DEF VA!vars
<1> HIDE DEF VA!TypeOK, VA!HandlersTypeOK, VA!Statuses, VA!Kinds, VA!DeclarationRow, VA!ItemRow,
         VA!CostRow, VA!Running,
             VA!declarations, VA!Found, VA!Editable, VA!PartOf, VA!Present, VA!At, VA!Start,
             VA!Once, VA!Goto, VA!Finish, VA!Absent, VA!Gone, VA!Idle
<1> QED BY <1>1, <1>2, <1>3, <1>4, <1>5, <1>6, <1>7, <1>8, <1>9, <1>10, <1>11, <1>12, <1>13,
           <1>14, <1>15, <1>16, <1>17, <1>18, <1>19 DEF VA!Next

\* Every step keeps the rest of the invariant.
LEMMA VARestStep ==
    ASSUME VAInv, [VA!Next]_VA!vars
    PROVE  VAHandlers' /\ VAEditing' /\ VAWay' /\ VA!ApprovedWasSubmitted'
<1> USE DEF VA!TypeOK, VA!HandlersTypeOK, VA!Statuses, VA!Kinds, VA!DeclarationRow, VA!ItemRow,
        VA!CostRow, VA!Running,
            VA!declarations, VA!Found, VA!Editable, VA!PartOf, VA!Present, VA!At, VA!Start,
            VA!Once, VA!Goto, VA!Finish, VA!Absent, VA!Gone, VA!Idle,
            VAInv, VAHandlers, VAEditing, VAEdits, VAWay, VA!ApprovedWasSubmitted,
            VA!Transitions, VA!Handled
<1>1. ASSUME NEW r \in Requests, NEW d \in Rows, NEW v \in Contents, VA!CreateDeclaration(r,
             d, v)
      PROVE  VAHandlers' /\ VAEditing' /\ VAWay' /\ VA!ApprovedWasSubmitted'
      BY <1>1 DEF VA!CreateDeclaration
<1>2. ASSUME NEW r \in Requests, NEW d \in Rows, NEW v \in Contents,
             VA!BeginUpdateDeclaration(r, d, v)
      PROVE  VAHandlers' /\ VAEditing' /\ VAWay' /\ VA!ApprovedWasSubmitted'
      BY <1>2 DEF VA!BeginUpdateDeclaration, VA!BeginEdit
<1>3. ASSUME NEW r \in Requests, NEW d \in Rows, NEW v \in Contents, VA!BeginAddItem(r, d, v)
      PROVE  VAHandlers' /\ VAEditing' /\ VAWay' /\ VA!ApprovedWasSubmitted'
      BY <1>3 DEF VA!BeginAddItem, VA!BeginEdit
<1>4. ASSUME NEW r \in Requests, NEW d \in Rows, NEW v \in Contents, VA!BeginAddCost(r, d, v)
      PROVE  VAHandlers' /\ VAEditing' /\ VAWay' /\ VA!ApprovedWasSubmitted'
      BY <1>4 DEF VA!BeginAddCost, VA!BeginEdit
<1>5. ASSUME NEW r \in Requests, NEW d \in Rows, NEW p \in Parts, NEW v \in Contents,
             VA!BeginUpdateItem(r, d, p, v)
      PROVE  VAHandlers' /\ VAEditing' /\ VAWay' /\ VA!ApprovedWasSubmitted'
      BY <1>5 DEF VA!BeginUpdateItem, VA!BeginEdit
<1>6. ASSUME NEW r \in Requests, NEW d \in Rows, NEW p \in Parts, NEW v \in Contents,
             VA!BeginUpdateCost(r, d, p, v)
      PROVE  VAHandlers' /\ VAEditing' /\ VAWay' /\ VA!ApprovedWasSubmitted'
      BY <1>6 DEF VA!BeginUpdateCost, VA!BeginEdit
<1>7. ASSUME NEW r \in Requests, NEW d \in Rows, NEW p \in Parts, VA!BeginRemoveItem(r, d, p)
      PROVE  VAHandlers' /\ VAEditing' /\ VAWay' /\ VA!ApprovedWasSubmitted'
      BY <1>7 DEF VA!BeginRemoveItem, VA!BeginEdit
<1>8. ASSUME NEW r \in Requests, NEW d \in Rows, NEW p \in Parts, VA!BeginRemoveCost(r, d, p)
      PROVE  VAHandlers' /\ VAEditing' /\ VAWay' /\ VA!ApprovedWasSubmitted'
      BY <1>8 DEF VA!BeginRemoveCost, VA!BeginEdit
<1>9. ASSUME NEW r \in Requests, NEW d \in Rows, VA!BeginDeleteDeclaration(r, d)
      PROVE  VAHandlers' /\ VAEditing' /\ VAWay' /\ VA!ApprovedWasSubmitted'
      BY <1>9 DEF VA!BeginDeleteDeclaration, VA!BeginEdit
<1>10. ASSUME NEW r \in Requests, NEW d \in Rows, NEW s \in VA!Statuses,
              VA!BeginChangeStatus(r, d, s)
      PROVE  VAHandlers' /\ VAEditing' /\ VAWay' /\ VA!ApprovedWasSubmitted'
      BY <1>10 DEF VA!BeginChangeStatus
<1>11. ASSUME NEW r \in Requests, NEW p \in Parts, VA!InsertPart(r, p)
      PROVE  VAHandlers' /\ VAEditing' /\ VAWay' /\ VA!ApprovedWasSubmitted'
      BY <1>11 DEF VA!InsertPart
<1>12. ASSUME NEW r \in Requests, VA!UpdateDeclaration(r)
      PROVE  VAHandlers' /\ VAEditing' /\ VAWay' /\ VA!ApprovedWasSubmitted'
      BY <1>12 DEF VA!UpdateDeclaration
<1>13. ASSUME NEW r \in Requests, VA!DeleteDeclaration(r)
      PROVE  VAHandlers' /\ VAEditing' /\ VAWay' /\ VA!ApprovedWasSubmitted'
      BY <1>13 DEF VA!DeleteDeclaration
<1>14. ASSUME NEW r \in Requests, VA!WriteStatus(r)
      PROVE  VAHandlers' /\ VAEditing' /\ VAWay' /\ VA!ApprovedWasSubmitted'
  <2>1. VAHandlers'
        BY SMTT(20), <1>14 DEF VA!WriteStatus
  <2>2. VAEditing'
        BY <1>14 DEF VA!WriteStatus
  <2>3. VAWay'
        BY <1>14 DEF VA!WriteStatus
  <2>4. VA!ApprovedWasSubmitted'
        BY SMTT(20), <1>14 DEF VA!WriteStatus
  <2> QED BY <2>1, <2>2, <2>3, <2>4
<1>15. ASSUME NEW r \in Requests, VA!FindPart(r)
      PROVE  VAHandlers' /\ VAEditing' /\ VAWay' /\ VA!ApprovedWasSubmitted'
  <2>1. VAHandlers'
        BY <1>15 DEF VA!FindPart
  <2>2. VAEditing'
        BY <1>15 DEF VA!FindPart
  <2>3. VAWay'
        BY <1>15 DEF VA!FindPart
  <2>4. VA!ApprovedWasSubmitted'
        BY <1>15 DEF VA!FindPart
  <2> QED BY <2>1, <2>2, <2>3, <2>4
<1>16. ASSUME NEW r \in Requests, VA!UpdatePart(r)
      PROVE  VAHandlers' /\ VAEditing' /\ VAWay' /\ VA!ApprovedWasSubmitted'
      BY <1>16 DEF VA!UpdatePart
<1>17. ASSUME NEW r \in Requests, VA!DeletePart(r)
      PROVE  VAHandlers' /\ VAEditing' /\ VAWay' /\ VA!ApprovedWasSubmitted'
      BY <1>17 DEF VA!DeletePart
<1>18. ASSUME NEW r \in Requests, VA!Abort(r)
      PROVE  VAHandlers' /\ VAEditing' /\ VAWay' /\ VA!ApprovedWasSubmitted'
      BY <1>18 DEF VA!Abort, VA!Stop
<1>19. CASE UNCHANGED VA!vars
      BY <1>19 DEF VA!vars
<1> HIDE DEF VA!TypeOK, VA!HandlersTypeOK, VA!Statuses, VA!Kinds, VA!DeclarationRow, VA!ItemRow,
         VA!CostRow, VA!Running,
             VA!declarations, VA!Found, VA!Editable, VA!PartOf, VA!Present, VA!At, VA!Start,
             VA!Once, VA!Goto, VA!Finish, VA!Absent, VA!Gone, VA!Idle,
             VAInv, VAHandlers, VAEditing, VAEdits, VAWay, VA!ApprovedWasSubmitted,
             VA!Transitions, VA!Handled
<1> QED BY <1>1, <1>2, <1>3, <1>4, <1>5, <1>6, <1>7, <1>8, <1>9, <1>10, <1>11, <1>12, <1>13,
           <1>14, <1>15, <1>16, <1>17, <1>18, <1>19 DEF VA!Next

\* A declaration that is not editable stays.
LEMMA VAFrozenStep ==
    ASSUME VAInv, [VA!Next]_VA!vars
    PROVE  VAFrozen
<1> USE DEF VA!TypeOK, VA!HandlersTypeOK, VA!Statuses, VA!Kinds, VA!DeclarationRow, VA!ItemRow,
        VA!CostRow, VA!Running,
            VA!declarations, VA!Found, VA!Editable, VA!PartOf, VA!Present, VA!At, VA!Start,
            VA!Once, VA!Goto, VA!Finish, VA!Absent, VA!Gone, VA!Idle,
            VAInv, VAHandlers, VAEditing, VAEdits, VAWay, VA!ApprovedWasSubmitted, VA!Handled,
            VAFrozen
<1>1. ASSUME NEW r \in Requests, NEW d \in Rows, NEW v \in Contents, VA!CreateDeclaration(r,
             d, v)
      PROVE  VAFrozen
      BY <1>1 DEF VA!CreateDeclaration
<1>2. ASSUME NEW r \in Requests, NEW d \in Rows, NEW v \in Contents,
             VA!BeginUpdateDeclaration(r, d, v)
      PROVE  VAFrozen
      BY <1>2 DEF VA!BeginUpdateDeclaration, VA!BeginEdit
<1>3. ASSUME NEW r \in Requests, NEW d \in Rows, NEW v \in Contents, VA!BeginAddItem(r, d, v)
      PROVE  VAFrozen
      BY <1>3 DEF VA!BeginAddItem, VA!BeginEdit
<1>4. ASSUME NEW r \in Requests, NEW d \in Rows, NEW v \in Contents, VA!BeginAddCost(r, d, v)
      PROVE  VAFrozen
      BY <1>4 DEF VA!BeginAddCost, VA!BeginEdit
<1>5. ASSUME NEW r \in Requests, NEW d \in Rows, NEW p \in Parts, NEW v \in Contents,
             VA!BeginUpdateItem(r, d, p, v)
      PROVE  VAFrozen
      BY <1>5 DEF VA!BeginUpdateItem, VA!BeginEdit
<1>6. ASSUME NEW r \in Requests, NEW d \in Rows, NEW p \in Parts, NEW v \in Contents,
             VA!BeginUpdateCost(r, d, p, v)
      PROVE  VAFrozen
      BY <1>6 DEF VA!BeginUpdateCost, VA!BeginEdit
<1>7. ASSUME NEW r \in Requests, NEW d \in Rows, NEW p \in Parts, VA!BeginRemoveItem(r, d, p)
      PROVE  VAFrozen
      BY <1>7 DEF VA!BeginRemoveItem, VA!BeginEdit
<1>8. ASSUME NEW r \in Requests, NEW d \in Rows, NEW p \in Parts, VA!BeginRemoveCost(r, d, p)
      PROVE  VAFrozen
      BY <1>8 DEF VA!BeginRemoveCost, VA!BeginEdit
<1>9. ASSUME NEW r \in Requests, NEW d \in Rows, VA!BeginDeleteDeclaration(r, d)
      PROVE  VAFrozen
      BY <1>9 DEF VA!BeginDeleteDeclaration, VA!BeginEdit
<1>10. ASSUME NEW r \in Requests, NEW d \in Rows, NEW s \in VA!Statuses,
              VA!BeginChangeStatus(r, d, s)
      PROVE  VAFrozen
      BY <1>10 DEF VA!BeginChangeStatus
<1>11. ASSUME NEW r \in Requests, NEW p \in Parts, VA!InsertPart(r, p)
      PROVE  VAFrozen
      BY <1>11 DEF VA!InsertPart
<1>12. ASSUME NEW r \in Requests, VA!UpdateDeclaration(r)
      PROVE  VAFrozen
      BY <1>12 DEF VA!UpdateDeclaration
<1>13. ASSUME NEW r \in Requests, VA!DeleteDeclaration(r)
      PROVE  VAFrozen
      BY <1>13 DEF VA!DeleteDeclaration
<1>14. ASSUME NEW r \in Requests, VA!WriteStatus(r)
      PROVE  VAFrozen
      BY <1>14 DEF VA!WriteStatus
<1>15. ASSUME NEW r \in Requests, VA!FindPart(r)
      PROVE  VAFrozen
      BY <1>15 DEF VA!FindPart
<1>16. ASSUME NEW r \in Requests, VA!UpdatePart(r)
      PROVE  VAFrozen
      BY <1>16 DEF VA!UpdatePart
<1>17. ASSUME NEW r \in Requests, VA!DeletePart(r)
      PROVE  VAFrozen
      BY <1>17 DEF VA!DeletePart
<1>18. ASSUME NEW r \in Requests, VA!Abort(r)
      PROVE  VAFrozen
      BY <1>18 DEF VA!Abort, VA!Stop
<1>19. CASE UNCHANGED VA!vars
      BY <1>19 DEF VA!vars
<1> HIDE DEF VA!TypeOK, VA!HandlersTypeOK, VA!Statuses, VA!Kinds, VA!DeclarationRow, VA!ItemRow,
         VA!CostRow, VA!Running,
             VA!declarations, VA!Found, VA!Editable, VA!PartOf, VA!Present, VA!At, VA!Start,
             VA!Once, VA!Goto, VA!Finish, VA!Absent, VA!Gone, VA!Idle,
             VAInv, VAHandlers, VAEditing, VAEdits, VAWay, VA!ApprovedWasSubmitted, VA!Handled,
             VAFrozen
<1> QED BY <1>1, <1>2, <1>3, <1>4, <1>5, <1>6, <1>7, <1>8, <1>9, <1>10, <1>11, <1>12, <1>13,
           <1>14, <1>15, <1>16, <1>17, <1>18, <1>19 DEF VA!Next

\* Every step keeps the invariant.
LEMMA VAInvStep == ASSUME VAInv, [VA!Next]_VA!vars PROVE VAInv'
BY VATypeStep, VARestStep DEF VAInv

(***************************************************************************)
(* Operations.                                                             *)
(***************************************************************************)

\* A history that leads from the creation to s, or an empty one for "NONE".
OPLeads(h, s) ==
    IF s = "NONE" THEN h = <<>>
    ELSE /\ h # <<>> /\ h[1].from = "NONE" /\ h[Len(h)].to = s
         /\ \A i \in 2..Len(h) : h[i].from = h[i - 1].to

\* Two handlers of one operation are remembered.
OPAlone ==
    \A q, r \in Requests :
        request[q] # OP!Idle /\ request[r] # OP!Idle /\ request[q].on = request[r].on
            /\ request[q].on \notin raced => q = r

\* Who is to be assigned has been a member.
OPAssignees ==
    /\ members \subseteq ever
    /\ \A r \in Requests : request[r].pc \in {"insertOperation", "assign"} =>
          request[r].user \in ever \cup {None}

OPPresent ==
    \A r \in Requests : request[r].pc \in {"writeStatus", "insertHistory", "assign"} =>
        OP!Found(request[r].on)

OPHandlers == OPAlone /\ OPAssignees /\ OPPresent

\* Where the history of an operation leads: from the first row on, and while a
\* handler is under way.
OPNone == \A o \in Parts \ (raced \cup owed) : ~OP!Found(o) => history[o] = <<>>

OPLed ==
    \A o \in Parts \ (raced \cup owed) :
        OP!Found(o) => \/ OPLeads(history[o], operation[o].status)
                       \/ \E r \in Requests : OP!At(r, "insertHistory") /\ request[r].on = o

OPUnderWay ==
    \A r \in Requests : request[r] # OP!Idle /\ request[r].on \notin raced \cup owed =>
        LET o == request[r].on IN
        /\ OP!At(r, "insertHistory") => /\ OPLeads(history[o], request[r].from)
                                       /\ operation[o].status = request[r].to
        /\ OP!At(r, "writeStatus") => request[r].from = operation[o].status
        /\ OP!At(r, "insertOperation") => ~OP!Found(o)

OPHistory == OPNone /\ OPLed /\ OPUnderWay

OPInv == OP!TypeOK /\ OPHandlers /\ OPHistory /\ OP!ClosedTells /\ OP!AssignedToMembers

\* A row that is there is not absent.
LEMMA OPRows == \A x \in OP!OperationRow : x \notin {OP!Absent, OP!Gone} /\ x.status \in OP!Statuses
BY DEF OP!OperationRow, OP!Absent, OP!Gone

\* A row that starts where the history ends leads the history on.
LEMMA OPLeadsOn ==
    ASSUME NEW h \in Seq(OP!HistoryRow), NEW row \in OP!HistoryRow, OPLeads(h, row.from)
    PROVE  OPLeads(Append(h, row), row.to)
<1> DEFINE g == Append(h, row)
<1>1. /\ g # <<>> /\ Len(g) = Len(h) + 1 /\ g[Len(h) + 1] = row
      /\ \A i \in 1..Len(h) : g[i] = h[i]
      /\ row.to # "NONE" /\ Len(h) \in Nat
      BY DEF OP!HistoryRow, OP!Statuses
<1>2. CASE row.from = "NONE"
      BY <1>1, <1>2 DEF OPLeads
<1>3. CASE row.from # "NONE"
  <2>1. Len(h) >= 1 /\ g[1] = h[1] /\ h[1].from = "NONE" /\ h[Len(h)].to = row.from
        BY <1>1, <1>3 DEF OPLeads
  <2>2. ASSUME NEW i \in 2..Len(g)
        PROVE  g[i].from = g[i - 1].to
    <3>1. CASE i \in 2..Len(h)
      <4>1. h[i].from = h[i - 1].to
            BY <1>3, <3>1 DEF OPLeads
      <4> QED BY <1>1, <3>1, <4>1
    <3>2. CASE i = Len(h) + 1
          BY <1>1, <2>1, <3>2
    <3> QED BY <1>1, <3>1, <3>2
  <2> QED BY <1>1, <2>1, <2>2 DEF OPLeads
<1> QED BY <1>2, <1>3

\* No operation is there at first.
LEMMA OPStart == OP!Init => OPInv
<1> SUFFICES ASSUME OP!Init PROVE OPInv
    OBVIOUS
<1>1. OP!TypeOK
      BY StartedAssumption DEF OP!Init, OP!HandlersInit, OP!TypeOK, OP!HandlersTypeOK
<1> QED BY <1>1 DEF OP!Init, OP!HandlersInit, OPInv, OPHandlers, OPAlone, OPAssignees,
           OPPresent, OPHistory, OPNone, OPLed, OPUnderWay,
             OP!ClosedTells, OP!AssignedToMembers, OP!Found, OP!Present, OP!At, OP!Idle

\* The history leads to the status when no handler is about to add to it.
LEMMA OPLeading == OPInv => OP!HistoryLeads
BY DEF OPInv, OPHistory, OPLed, OPLeads, OP!HistoryLeads, OP!Handled, OP!At, OP!Idle, OP!TypeOK,
   OP!OperationRow, OP!Statuses, OP!Found, OP!Present

\* Every step keeps the types.
LEMMA OPTypeStep ==
    ASSUME OPInv, [OP!Next]_OP!vars
    PROVE  OP!TypeOK'
<1> USE StartedAssumption DEF OP!TypeOK, OP!HandlersTypeOK, OP!Statuses, OP!HistoryRow,
        OP!Running,
            OP!operations, OP!Found, OP!Present, OP!At, OP!Start, OP!Goto, OP!Finish, OP!Absent,
            OP!Gone, OP!Idle,
            OPInv
<1>1. ASSUME NEW r \in Requests, NEW o \in Parts, NEW u \in Others \cup {None}, OP!BeginCreate(r, o,
             u)
      PROVE  OP!TypeOK'
      BY <1>1 DEF OP!BeginCreate
<1>2. ASSUME NEW r \in Requests, NEW o \in Parts, NEW u \in Others \cup {None}, OP!BeginAssign(r, o,
             u)
      PROVE  OP!TypeOK'
      BY <1>2 DEF OP!BeginAssign
<1>3. ASSUME NEW r \in Requests, NEW o \in Parts, NEW s \in OP!Statuses, OP!BeginChangeStatus(r, o, s)
      PROVE  OP!TypeOK'
  <2>1. operation[o].status \in OP!Statuses
        BY <1>3, OPRows DEF OP!BeginChangeStatus
  <2> QED BY <1>3, <2>1 DEF OP!BeginChangeStatus
<1>4. ASSUME NEW r \in Requests, NEW o \in Parts, OP!BeginDeactivate(r, o)
      PROVE  OP!TypeOK'
  <2>1. operation[o].status \in OP!Statuses
        BY <1>4, OPRows DEF OP!BeginDeactivate
  <2> QED BY <1>4, <2>1 DEF OP!BeginDeactivate
<1>5. ASSUME NEW r \in Requests, OP!CheckMember(r)
      PROVE  OP!TypeOK'
  <2> HIDE DEF OP!TypeOK, OP!HandlersTypeOK, OP!Statuses, OP!HistoryRow, OP!Running,
               OP!operations, OP!Found, OP!Present, OP!At, OP!Start, OP!Goto, OP!Finish,
               OP!Absent, OP!Gone, OP!Idle
  <2>1. request[r] \in [pc : {"checkMember"}, on : Parts, user : Others \cup {None}]
        BY <1>5 DEF OP!CheckMember, OP!At, OP!TypeOK, OP!HandlersTypeOK, OP!Running, OP!Idle
  <2>2. /\ [request[r] EXCEPT !.pc = "assign"] \in OP!Running
        /\ [request[r] EXCEPT !.pc = "insertOperation"] \in OP!Running
        BY <2>1 DEF OP!Running
  <2>3. request' \in [Requests -> OP!Running \cup {OP!Idle}]
        BY <1>5, <2>2 DEF OP!CheckMember, OP!Goto, OP!Finish, OP!TypeOK, OP!HandlersTypeOK
  <2> QED BY <1>5, <2>3 DEF OP!CheckMember, OP!Goto, OP!Finish, OP!TypeOK, OP!HandlersTypeOK,
             OP!operations
<1>6. ASSUME NEW r \in Requests, OP!InsertOperation(r)
      PROVE  OP!TypeOK'
  <2> HIDE DEF OP!TypeOK, OP!HandlersTypeOK, OP!Statuses, OP!HistoryRow, OP!Running,
               OP!operations, OP!Found, OP!Present, OP!At, OP!Start, OP!Goto, OP!Finish,
               OP!Absent, OP!Gone, OP!Idle
  <2>1. request[r].on \in Parts /\ request[r].user \in Others \cup {None}
        BY <1>6 DEF OP!InsertOperation, OP!At, OP!TypeOK, OP!HandlersTypeOK, OP!Running, OP!Idle
  <2>2. /\ [status |-> "OPEN", closed |-> FALSE, assignee |-> request[r].user] \in OP!OperationRow
        /\ [pc |-> "insertHistory", on |-> request[r].on, from |-> "NONE", to |-> "OPEN"] \in OP!Running
        BY <2>1 DEF OP!OperationRow, OP!Running, OP!Statuses
  <2> QED BY <1>6, <2>1, <2>2 DEF OP!InsertOperation, OP!Goto, OP!TypeOK, OP!HandlersTypeOK
<1>7. ASSUME NEW r \in Requests, OP!Assign(r)
      PROVE  OP!TypeOK'
  <2> HIDE DEF OP!TypeOK, OP!HandlersTypeOK, OP!Statuses, OP!HistoryRow, OP!Running,
               OP!operations, OP!Found, OP!Present, OP!At, OP!Start, OP!Goto, OP!Finish,
               OP!Absent, OP!Gone, OP!Idle
  <2>1. request[r].on \in Parts /\ request[r].user \in Others \cup {None}
        BY <1>7 DEF OP!Assign, OP!At, OP!TypeOK, OP!HandlersTypeOK, OP!Running, OP!Idle
  <2>2. operation[request[r].on] \in OP!OperationRow
        BY <1>7, <2>1 DEF OPInv, OPHandlers, OPPresent, OP!Assign, OP!At, OP!Found, OP!Present,
           OP!TypeOK, OP!Idle
  <2>3. [operation[request[r].on] EXCEPT !.assignee = request[r].user] \in OP!OperationRow
        BY <2>1, <2>2 DEF OP!OperationRow
  <2> QED BY <1>7, <2>1, <2>3 DEF OP!Assign, OP!Goto, OP!Finish, OP!TypeOK, OP!HandlersTypeOK
<1>8. ASSUME NEW r \in Requests, OP!WriteStatus(r)
      PROVE  OP!TypeOK'
  <2> HIDE DEF OP!TypeOK, OP!HandlersTypeOK, OP!Statuses, OP!HistoryRow, OP!Running,
               OP!operations, OP!Found, OP!Present, OP!At, OP!Start, OP!Goto, OP!Finish,
               OP!Absent, OP!Gone, OP!Idle
  <2> DEFINE b == request[r].to \in OP!ClosedStatuses
  <2>1. /\ request[r].on \in Parts /\ request[r].to \in OP!Statuses
        /\ [request[r] EXCEPT !.pc = "insertHistory"] \in OP!Running
    <3>1. request[r] \in OP!Running /\ request[r].pc = "writeStatus"
          BY <1>8 DEF OP!WriteStatus, OP!At, OP!TypeOK, OP!HandlersTypeOK, OP!Idle
    <3> QED BY <3>1 DEF OP!Running
  <2>2. operation[request[r].on] \in OP!OperationRow
        BY <1>8, <2>1 DEF OPInv, OPHandlers, OPPresent, OP!WriteStatus, OP!At, OP!Found,
           OP!Present, OP!TypeOK, OP!Idle
  <2>3. b \in BOOLEAN
        OBVIOUS
  <2>4. operation' = [operation EXCEPT ![request[r].on] =
                        [operation[request[r].on] EXCEPT !.status = request[r].to, !.closed = b]]
        BY <1>8, <2>1, <2>2 DEF OP!WriteStatus, OP!TypeOK
  <2> HIDE DEF b
  <2>5. [operation[request[r].on] EXCEPT !.status = request[r].to, !.closed = b] \in OP!OperationRow
        BY <2>1, <2>2, <2>3 DEF OP!OperationRow
  <2> QED BY <1>8, <2>1, <2>4, <2>5 DEF OP!WriteStatus, OP!Goto, OP!TypeOK, OP!HandlersTypeOK
<1>9. ASSUME NEW r \in Requests, OP!InsertHistory(r)
      PROVE  OP!TypeOK'
  <2> HIDE DEF OP!TypeOK, OP!HandlersTypeOK, OP!HistoryRow, OP!Running, OP!operations, OP!At,
               OP!Goto, OP!Finish, OP!Idle, OPInv
  <2> DEFINE row == [from |-> request[r].from, to |-> request[r].to]
  <2>1. request[r].on \in Parts /\ row \in OP!HistoryRow
    <3>1. request[r] \in OP!Running /\ request[r].pc = "insertHistory"
          BY <1>9 DEF OP!InsertHistory, OP!At, OP!TypeOK, OP!HandlersTypeOK, OP!Idle, OPInv
    <3> QED BY <3>1 DEF OP!Running, OP!HistoryRow
  <2>2. /\ request' = [request EXCEPT ![r] = OP!Idle]
        /\ history' = [history EXCEPT ![request[r].on] = Append(@, row)]
        /\ UNCHANGED <<operation, members, ever, owed, started, raced>>
        BY <1>9 DEF OP!InsertHistory, OP!Finish, OP!Goto
  <2> HIDE DEF row
  <2>3. history' \in [Parts -> Seq(OP!HistoryRow)]
        BY <2>1, <2>2 DEF OP!TypeOK, OPInv
  <2>4. request' \in [Requests -> OP!Running \cup {OP!Idle}]
        BY <2>2 DEF OP!HandlersTypeOK, OP!TypeOK, OPInv
  <2> QED BY <2>2, <2>3, <2>4 DEF OP!HandlersTypeOK, OP!TypeOK, OP!Running, OPInv
<1>10. ASSUME NEW r \in Requests, OP!Abort(r)
      PROVE  OP!TypeOK'
      BY <1>10 DEF OP!Abort, OP!Stop
<1>11. ASSUME NEW w \in Others, OP!Join(w)
      PROVE  OP!TypeOK'
      BY <1>11 DEF OP!Join
<1>12. ASSUME NEW w \in Others, OP!Leave(w)
      PROVE  OP!TypeOK'
      BY <1>12 DEF OP!Leave
<1>13. CASE UNCHANGED OP!vars
      BY <1>13 DEF OP!vars
<1> HIDE DEF OP!TypeOK, OP!HandlersTypeOK, OP!Statuses, OP!HistoryRow, OP!Running,
             OP!operations, OP!Found, OP!Present, OP!At, OP!Start, OP!Goto, OP!Finish,
             OP!Absent, OP!Gone, OP!Idle,
             OPInv
<1> QED BY <1>1, <1>2, <1>3, <1>4, <1>5, <1>6, <1>7, <1>8, <1>9, <1>10, <1>11, <1>12,
           <1>13 DEF OP!Next

\* A handler is about an operation.
LEMMA OPOn == ASSUME OP!TypeOK, NEW r \in Requests, request[r] # OP!Idle PROVE request[r].on \in Parts
<1>1. request[r] \in OP!Running
      BY DEF OP!TypeOK, OP!HandlersTypeOK
<1> QED BY <1>1 DEF OP!Running

\* What checking, assigning and writing a status do, in records.
OPGoes(r, h) == request'[r] = h /\ \A q \in Requests \ {r} : request'[q] = request[q]

OPChecked(r) ==
    LET o == request[r].on
        u == request[r].user IN
    /\ UNCHANGED <<operation, history, members, ever, owed, raced>> /\ o \in Parts /\ OP!At(r, "checkMember")
    /\ \/ OPGoes(r, OP!Idle)
       \/ /\ OPGoes(r, [pc |-> "assign", on |-> o, user |-> u])
          /\ OP!Found(o) /\ u \in members
       \/ /\ OPGoes(r, [pc |-> "insertOperation", on |-> o, user |-> u])
          /\ ~OP!Found(o) /\ u \in members

OPAssigned(r) ==
    LET o == request[r].on
        u == request[r].user IN
    /\ UNCHANGED <<history, members, ever, owed, raced>> /\ OP!At(r, "assign")
    /\ OPGoes(r, OP!Idle) /\ o \in Parts /\ u \in ever \cup {None}
    /\ \A p \in Parts \ {o} : operation'[p] = operation[p]
    /\ OP!Present(operation[o]) /\ OP!Present(operation'[o])
    /\ operation'[o].status = operation[o].status
    /\ operation'[o].closed = operation[o].closed /\ operation'[o].assignee = u

OPWritten(r) ==
    LET o == request[r].on IN
    /\ UNCHANGED <<history, members, ever, owed, raced>> /\ OP!At(r, "writeStatus")
    /\ OPGoes(r, [pc |-> "insertHistory", on |-> o, from |-> request[r].from, to |-> request[r].to])
    /\ \A p \in Parts \ {o} : operation'[p] = operation[p]
    /\ OP!Present(operation[o]) /\ OP!Present(operation'[o]) /\ operation'[o].status = request[r].to
    /\ operation'[o].closed <=> request[r].to \in OP!ClosedStatuses
    /\ operation'[o].assignee = operation[o].assignee /\ o \in Parts

\* What the statements of a handler write.
LEMMA OPEffects ==
    ASSUME OPInv, NEW r \in Requests
    PROVE  /\ OP!CheckMember(r) => OPChecked(r)
           /\ OP!Assign(r) => OPAssigned(r)
           /\ OP!WriteStatus(r) => OPWritten(r)
<1> USE DEF OPInv
<1>1. CASE OP!CheckMember(r)
  <2>1. request[r] \in [pc : {"checkMember"}, on : Parts, user : Others \cup {None}]
        BY <1>1 DEF OP!CheckMember, OP!At, OP!TypeOK, OP!HandlersTypeOK, OP!Running, OP!Idle
  <2>2. /\ [request[r] EXCEPT !.pc = "assign"] = [pc |-> "assign", on |-> request[r].on, user |-> request[r].user]
        /\ [request[r] EXCEPT !.pc = "insertOperation"] = [pc |-> "insertOperation", on |-> request[r].on, user |-> request[r].user]
        BY <2>1
  <2> QED BY <1>1, <2>1, <2>2 DEF OP!CheckMember, OP!Goto, OP!Finish, OP!At, OP!operations,
             OP!Assign, OP!WriteStatus, OPChecked, OPGoes, OP!Idle, OP!TypeOK, OP!HandlersTypeOK
<1>2. CASE OP!Assign(r)
  <2>1. request[r].on \in Parts /\ OP!Found(request[r].on) /\ request[r].user \in ever \cup {None}
        BY <1>2 DEF OP!Assign, OP!At, OP!TypeOK, OP!HandlersTypeOK, OP!Running, OP!Idle,
           OPHandlers, OPAssignees, OPPresent
  <2>2. operation[request[r].on] \in OP!OperationRow
        BY <2>1 DEF OP!Found, OP!Present, OP!TypeOK
  <2>3. [operation[request[r].on] EXCEPT !.assignee = request[r].user] \in OP!OperationRow
        BY <1>2, <2>1, <2>2 DEF OP!Assign, OP!At, OP!TypeOK, OP!HandlersTypeOK, OP!Running,
           OP!Idle, OP!OperationRow
  <2>4. OP!Present([operation[request[r].on] EXCEPT !.assignee = request[r].user])
        BY <2>3, OPRows DEF OP!Present
  <2>5. OPGoes(r, OP!Idle)
        BY <1>2 DEF OP!Assign, OP!Finish, OP!Goto, OPGoes, OP!TypeOK, OP!HandlersTypeOK
  <2>6. /\ operation'[request[r].on] = [operation[request[r].on] EXCEPT !.assignee = request[r].user]
        /\ \A p \in Parts \ {request[r].on} : operation'[p] = operation[p]
        BY <1>2, <2>1 DEF OP!Assign, OP!TypeOK
  <2> QED BY <1>2, <2>1, <2>2, <2>4, <2>5, <2>6 DEF OP!Assign, OP!Goto, OP!Finish, OP!At,
             OP!OperationRow, OP!CheckMember, OP!WriteStatus, OPAssigned, OP!Idle, OP!Found,
             OP!Present
<1>3. CASE OP!WriteStatus(r)
  <2> DEFINE b == request[r].to \in OP!ClosedStatuses
             row == [operation[request[r].on] EXCEPT !.status = request[r].to, !.closed = b]
  <2>1. request[r] \in [pc : {"writeStatus", "insertHistory"}, on : Parts,
                         from : OP!Statuses \cup {"NONE"}, to : OP!Statuses]
    <3>1. request[r] \in OP!Running /\ request[r].pc = "writeStatus"
          BY <1>3 DEF OP!WriteStatus, OP!At, OP!TypeOK, OP!HandlersTypeOK, OP!Idle
    <3> QED BY <3>1 DEF OP!Running
  <2>2. OP!Found(request[r].on) /\ operation[request[r].on] \in OP!OperationRow
        BY <1>3, <2>1 DEF OP!WriteStatus, OP!At, OP!Found, OP!Present, OP!TypeOK, OPHandlers,
           OPPresent
  <2>3. b \in BOOLEAN
        OBVIOUS
  <2>4. operation' = [operation EXCEPT ![request[r].on] = row]
        BY <1>3, <2>1, <2>2 DEF OP!WriteStatus, OP!TypeOK
  <2> HIDE DEF b
  <2>5. /\ row \in OP!OperationRow /\ row.status = request[r].to /\ row.closed = b
        /\ row.assignee = operation[request[r].on].assignee
        BY <2>1, <2>2, <2>3 DEF OP!OperationRow
  <2>6. OP!Present(row)
        BY <2>5, OPRows DEF OP!Present
  <2> HIDE DEF row
  <2>7. operation'[request[r].on] = row /\ \A p \in Parts \ {request[r].on} : operation'[p] = operation[p]
        BY <2>1, <2>4 DEF OP!TypeOK
  <2>8. [request[r] EXCEPT !.pc = "insertHistory"] = [pc |-> "insertHistory", on |-> request[r].on,
           from |-> request[r].from, to |-> request[r].to]
        BY <2>1
  <2> QED BY <1>3, <2>1, <2>2, <2>5, <2>6, <2>7, <2>8 DEF OP!WriteStatus, OP!Goto, OP!At,
             OP!CheckMember, OP!Assign, b, OPWritten, OPGoes, OP!Idle, OP!Found, OP!TypeOK,
             OP!HandlersTypeOK
<1> QED BY <1>1, <1>2, <1>3

\* Every step keeps who handles and is assigned what.
LEMMA OPRestStep ==
    ASSUME OPInv, [OP!Next]_OP!vars
    PROVE  OPAlone' /\ OPAssignees' /\ OPPresent' /\ OP!ClosedTells' /\ OP!AssignedToMembers'
<1> USE DEF OP!TypeOK, OP!HandlersTypeOK, OP!Statuses, OP!HistoryRow, OP!Running,
            OP!operations, OP!Found, OP!Present, OP!At, OP!Start, OP!Goto, OP!Finish, OP!Absent,
            OP!Gone, OP!Idle,
            OPInv, OPHandlers, OPAlone, OPAssignees, OPPresent, OP!ClosedTells,
            OP!ClosedStatuses, OP!AssignedToMembers, OP!Handled
<1>1. ASSUME NEW r \in Requests, NEW o \in Parts, NEW u \in Others \cup {None}, OP!BeginCreate(r, o,
             u)
      PROVE  OPAlone' /\ OPAssignees' /\ OPPresent' /\ OP!ClosedTells' /\ OP!AssignedToMembers'
      BY <1>1 DEF OP!BeginCreate
<1>2. ASSUME NEW r \in Requests, NEW o \in Parts, NEW u \in Others \cup {None}, OP!BeginAssign(r, o,
             u)
      PROVE  OPAlone' /\ OPAssignees' /\ OPPresent' /\ OP!ClosedTells' /\ OP!AssignedToMembers'
      BY <1>2 DEF OP!BeginAssign
<1>3. ASSUME NEW r \in Requests, NEW o \in Parts, NEW s \in OP!Statuses, OP!BeginChangeStatus(r, o, s)
      PROVE  OPAlone' /\ OPAssignees' /\ OPPresent' /\ OP!ClosedTells' /\ OP!AssignedToMembers'
      BY <1>3 DEF OP!BeginChangeStatus
<1>4. ASSUME NEW r \in Requests, NEW o \in Parts, OP!BeginDeactivate(r, o)
      PROVE  OPAlone' /\ OPAssignees' /\ OPPresent' /\ OP!ClosedTells' /\ OP!AssignedToMembers'
      BY <1>4 DEF OP!BeginDeactivate
<1>5. ASSUME NEW r \in Requests, OP!CheckMember(r)
      PROVE  OPAlone' /\ OPAssignees' /\ OPPresent' /\ OP!ClosedTells' /\ OP!AssignedToMembers'
  <2> HIDE DEF OP!TypeOK, OP!HandlersTypeOK, OP!Statuses, OP!HistoryRow, OP!Running,
               OP!operations, OP!Found, OP!Present, OP!At, OP!Start, OP!Goto, OP!Finish,
               OP!Absent, OP!Gone, OP!Idle,
               OPHandlers, OPAlone, OPAssignees, OPPresent, OP!ClosedTells, OP!ClosedStatuses,
               OP!AssignedToMembers, OP!Handled
  <2>0. \A q \in Requests : request[q] # OP!Idle => request[q].on \in Parts
        BY OPOn DEF OPInv
  <2>1. OPChecked(r)
        BY <1>5, OPEffects
  <2>2. OPAlone'
        BY <2>1 DEF OPChecked, OPGoes, OPInv, OPHandlers, OPAlone, OP!Idle, OP!At
  <2>3. OPAssignees'
        BY <2>1 DEF OPChecked, OPGoes, OPInv, OPHandlers, OPAssignees, OP!Idle, OP!At
  <2>4. OPPresent'
        BY <2>1, <2>0 DEF OPChecked, OPGoes, OPInv, OPHandlers, OPPresent, OP!Idle, OP!Found,
           OP!At
  <2>5. OP!ClosedTells' /\ OP!AssignedToMembers'
        BY <2>1 DEF OPChecked, OPInv, OP!ClosedTells, OPHandlers, OPAssignees,
           OP!AssignedToMembers, OP!Found
  <2> QED BY <2>2, <2>3, <2>4, <2>5
<1>6. ASSUME NEW r \in Requests, OP!InsertOperation(r)
      PROVE  OPAlone' /\ OPAssignees' /\ OPPresent' /\ OP!ClosedTells' /\ OP!AssignedToMembers'
      BY <1>6 DEF OP!InsertOperation
<1>7. ASSUME NEW r \in Requests, OP!Assign(r)
      PROVE  OPAlone' /\ OPAssignees' /\ OPPresent' /\ OP!ClosedTells' /\ OP!AssignedToMembers'
  <2> HIDE DEF OP!TypeOK, OP!HandlersTypeOK, OP!Statuses, OP!HistoryRow, OP!Running,
               OP!operations, OP!Found, OP!Present, OP!At, OP!Start, OP!Goto, OP!Finish,
               OP!Absent, OP!Gone, OP!Idle,
               OPHandlers, OPAlone, OPAssignees, OPPresent, OP!ClosedTells, OP!ClosedStatuses,
               OP!AssignedToMembers, OP!Handled
  <2>0. \A q \in Requests : request[q] # OP!Idle => request[q].on \in Parts
        BY OPOn DEF OPInv
  <2>1. OPAssigned(r)
        BY <1>7, OPEffects
  <2>2. OPAlone'
        BY <2>1 DEF OPAssigned, OPGoes, OPInv, OPHandlers, OPAlone, OP!Idle, OP!At
  <2>3. OPAssignees'
        BY <2>1 DEF OPAssigned, OPGoes, OPInv, OPHandlers, OPAssignees, OP!Idle, OP!At
  <2>4. OPPresent'
        BY <2>1, <2>0 DEF OPAssigned, OPGoes, OPInv, OPHandlers, OPPresent, OP!Idle, OP!Found,
           OP!At
  <2>5. OP!ClosedTells' /\ OP!AssignedToMembers'
        BY <2>1 DEF OPAssigned, OPInv, OP!ClosedTells, OPHandlers, OPAssignees,
           OP!AssignedToMembers, OP!Found
  <2> QED BY <2>2, <2>3, <2>4, <2>5
<1>8. ASSUME NEW r \in Requests, OP!WriteStatus(r)
      PROVE  OPAlone' /\ OPAssignees' /\ OPPresent' /\ OP!ClosedTells' /\ OP!AssignedToMembers'
  <2> HIDE DEF OP!TypeOK, OP!HandlersTypeOK, OP!Statuses, OP!HistoryRow, OP!Running,
               OP!operations, OP!Found, OP!Present, OP!At, OP!Start, OP!Goto, OP!Finish,
               OP!Absent, OP!Gone, OP!Idle,
               OPHandlers, OPAlone, OPAssignees, OPPresent, OP!ClosedTells, OP!ClosedStatuses,
               OP!AssignedToMembers, OP!Handled
  <2>0. \A q \in Requests : request[q] # OP!Idle => request[q].on \in Parts
        BY OPOn DEF OPInv
  <2>1. OPWritten(r)
        BY <1>8, OPEffects
  <2>2. OPAlone'
        BY <2>1 DEF OPWritten, OPGoes, OPInv, OPHandlers, OPAlone, OP!Idle, OP!At
  <2>3. OPAssignees'
        BY <2>1 DEF OPWritten, OPGoes, OPInv, OPHandlers, OPAssignees, OP!Idle, OP!At
  <2>4. OPPresent'
        BY <2>1, <2>0 DEF OPWritten, OPGoes, OPInv, OPHandlers, OPPresent, OP!Idle, OP!Found,
           OP!At
  <2>5. OP!ClosedTells' /\ OP!AssignedToMembers'
        BY <2>1 DEF OPWritten, OPInv, OP!ClosedTells, OPHandlers, OPAssignees,
           OP!AssignedToMembers, OP!Found
  <2> QED BY <2>2, <2>3, <2>4, <2>5
<1>9. ASSUME NEW r \in Requests, OP!InsertHistory(r)
      PROVE  OPAlone' /\ OPAssignees' /\ OPPresent' /\ OP!ClosedTells' /\ OP!AssignedToMembers'
      BY <1>9 DEF OP!InsertHistory
<1>10. ASSUME NEW r \in Requests, OP!Abort(r)
      PROVE  OPAlone' /\ OPAssignees' /\ OPPresent' /\ OP!ClosedTells' /\ OP!AssignedToMembers'
      BY <1>10 DEF OP!Abort, OP!Stop
<1>11. ASSUME NEW w \in Others, OP!Join(w)
      PROVE  OPAlone' /\ OPAssignees' /\ OPPresent' /\ OP!ClosedTells' /\ OP!AssignedToMembers'
      BY <1>11 DEF OP!Join
<1>12. ASSUME NEW w \in Others, OP!Leave(w)
      PROVE  OPAlone' /\ OPAssignees' /\ OPPresent' /\ OP!ClosedTells' /\ OP!AssignedToMembers'
      BY <1>12 DEF OP!Leave
<1>13. CASE UNCHANGED OP!vars
      BY <1>13 DEF OP!vars
<1> HIDE DEF OP!TypeOK, OP!HandlersTypeOK, OP!Statuses, OP!HistoryRow, OP!Running,
             OP!operations, OP!Found, OP!Present, OP!At, OP!Start, OP!Goto, OP!Finish,
             OP!Absent, OP!Gone, OP!Idle,
             OPInv, OPHandlers, OPAlone, OPAssignees, OPPresent, OP!ClosedTells,
             OP!ClosedStatuses, OP!AssignedToMembers, OP!Handled
<1> QED BY <1>1, <1>2, <1>3, <1>4, <1>5, <1>6, <1>7, <1>8, <1>9, <1>10, <1>11, <1>12,
           <1>13 DEF OP!Next

\* Every step keeps where the history leads.
LEMMA OPHistoryStep ==
    ASSUME OPInv, [OP!Next]_OP!vars
    PROVE  OPNone' /\ OPLed' /\ OPUnderWay'
<1> USE DEF OP!TypeOK, OP!HandlersTypeOK, OP!Statuses, OP!HistoryRow, OP!Running,
            OP!operations, OP!Found, OP!Present, OP!At, OP!Start, OP!Goto, OP!Finish, OP!Absent,
            OP!Gone, OP!Idle,
            OPInv, OPHandlers, OPAlone, OPPresent, OPHistory, OPNone, OPLed, OPUnderWay,
            OP!Handled
<1>1. ASSUME NEW r \in Requests, NEW o \in Parts, NEW u \in Others \cup {None}, OP!BeginCreate(r, o,
             u)
      PROVE  OPNone' /\ OPLed' /\ OPUnderWay'
      BY <1>1 DEF OP!BeginCreate
<1>2. ASSUME NEW r \in Requests, NEW o \in Parts, NEW u \in Others \cup {None}, OP!BeginAssign(r, o,
             u)
      PROVE  OPNone' /\ OPLed' /\ OPUnderWay'
      BY <1>2 DEF OP!BeginAssign
<1>3. ASSUME NEW r \in Requests, NEW o \in Parts, NEW s \in OP!Statuses, OP!BeginChangeStatus(r, o, s)
      PROVE  OPNone' /\ OPLed' /\ OPUnderWay'
      BY <1>3 DEF OP!BeginChangeStatus
<1>4. ASSUME NEW r \in Requests, NEW o \in Parts, OP!BeginDeactivate(r, o)
      PROVE  OPNone' /\ OPLed' /\ OPUnderWay'
      BY <1>4 DEF OP!BeginDeactivate
<1>5. ASSUME NEW r \in Requests, OP!CheckMember(r)
      PROVE  OPNone' /\ OPLed' /\ OPUnderWay'
  <2> HIDE DEF OP!TypeOK, OP!HandlersTypeOK, OP!Statuses, OP!HistoryRow, OP!Running,
               OP!operations, OP!Found, OP!Present, OP!At, OP!Start, OP!Goto, OP!Finish,
               OP!Absent, OP!Gone, OP!Idle,
               OPHandlers, OPAlone, OPPresent, OPHistory, OPNone, OPLed, OPUnderWay, OP!Handled
  <2>0. \A q \in Requests : request[q] # OP!Idle => request[q].on \in Parts
        BY OPOn DEF OPInv
  <2>1. OPChecked(r)
        BY <1>5, OPEffects
  <2>2. OPNone'
        BY <2>1 DEF OPChecked, OPInv, OPHistory, OPNone, OP!Found
  <2>3. OPLed'
        BY <2>1, <2>0 DEF OPChecked, OPGoes, OPInv, OPHistory, OPLed, OPUnderWay, OP!Found,
           OP!At, OP!Idle
  <2>4. OPUnderWay'
        BY <2>1, <2>0 DEF OPChecked, OPGoes, OPInv, OPHandlers, OPAlone, OPHistory, OPLed,
           OPUnderWay, OP!Found, OP!At, OP!Idle
  <2> QED BY <2>2, <2>3, <2>4
<1>6. ASSUME NEW r \in Requests, OP!InsertOperation(r)
      PROVE  OPNone' /\ OPLed' /\ OPUnderWay'
  <2>1. OPNone'
        BY <1>6 DEF OP!InsertOperation
  <2>2. OPLed'
        BY <1>6 DEF OP!InsertOperation
  <2>3. OPUnderWay'
        BY <1>6 DEF OP!InsertOperation, OPLeads
  <2> QED BY <2>1, <2>2, <2>3
<1>7. ASSUME NEW r \in Requests, OP!Assign(r)
      PROVE  OPNone' /\ OPLed' /\ OPUnderWay'
  <2> HIDE DEF OP!TypeOK, OP!HandlersTypeOK, OP!Statuses, OP!HistoryRow, OP!Running,
               OP!operations, OP!Found, OP!Present, OP!At, OP!Start, OP!Goto, OP!Finish,
               OP!Absent, OP!Gone, OP!Idle,
               OPHandlers, OPAlone, OPPresent, OPHistory, OPNone, OPLed, OPUnderWay, OP!Handled
  <2>0. \A q \in Requests : request[q] # OP!Idle => request[q].on \in Parts
        BY OPOn DEF OPInv
  <2>1. OPAssigned(r)
        BY <1>7, OPEffects
  <2>2. OPNone'
        BY <2>1 DEF OPAssigned, OPInv, OPHistory, OPNone, OP!Found
  <2>3. OPLed'
        BY <2>1, <2>0 DEF OPAssigned, OPGoes, OPInv, OPHistory, OPLed, OPUnderWay, OP!Found,
           OP!At, OP!Idle
  <2>4. OPUnderWay'
        BY <2>1, <2>0 DEF OPAssigned, OPGoes, OPInv, OPHandlers, OPAlone, OPHistory, OPLed,
           OPUnderWay, OP!Found, OP!At, OP!Idle
  <2> QED BY <2>2, <2>3, <2>4
<1>8. ASSUME NEW r \in Requests, OP!WriteStatus(r)
      PROVE  OPNone' /\ OPLed' /\ OPUnderWay'
  <2> HIDE DEF OP!TypeOK, OP!HandlersTypeOK, OP!Statuses, OP!HistoryRow, OP!Running,
               OP!operations, OP!Found, OP!Present, OP!At, OP!Start, OP!Goto, OP!Finish,
               OP!Absent, OP!Gone, OP!Idle,
               OPHandlers, OPAlone, OPPresent, OPHistory, OPNone, OPLed, OPUnderWay, OP!Handled
  <2>0. \A q \in Requests : request[q] # OP!Idle => request[q].on \in Parts
        BY OPOn DEF OPInv
  <2>1. OPWritten(r)
        BY <1>8, OPEffects
  <2>2. OPNone'
        BY <2>1 DEF OPWritten, OPInv, OPHistory, OPNone, OP!Found
  <2>3. OPLed'
        BY <2>1, <2>0 DEF OPWritten, OPGoes, OPInv, OPHistory, OPLed, OPUnderWay, OP!Found,
           OP!At, OP!Idle
  <2>4. OPUnderWay'
        BY <2>1, <2>0 DEF OPWritten, OPGoes, OPInv, OPHandlers, OPAlone, OPHistory, OPLed,
           OPUnderWay, OP!Found, OP!At, OP!Idle
  <2> QED BY <2>2, <2>3, <2>4
<1>9. ASSUME NEW r \in Requests, OP!InsertHistory(r)
      PROVE  OPNone' /\ OPLed' /\ OPUnderWay'
  <2> HIDE DEF OP!TypeOK, OP!HandlersTypeOK, OP!Statuses, OP!HistoryRow, OP!Running,
               OP!operations, OP!Found, OP!Present, OP!At, OP!Start, OP!Goto, OP!Finish,
               OP!Absent, OP!Gone, OP!Idle,
               OPHandlers, OPAlone, OPPresent, OPHistory, OPNone, OPLed, OPUnderWay, OP!Handled
  <2> DEFINE o == request[r].on
             row == [from |-> request[r].from, to |-> request[r].to]
  <2>0. \A q \in Requests : request[q] # OP!Idle => request[q].on \in Parts
        BY OPOn DEF OPInv
  <2>1. o \in Parts /\ row \in OP!HistoryRow /\ row.from = request[r].from /\ row.to = request[r].to
    <3>1. request[r] \in OP!Running /\ request[r].pc = "insertHistory"
          BY <1>9 DEF OP!InsertHistory, OP!At, OP!TypeOK, OP!HandlersTypeOK, OP!Idle, OPInv
    <3> QED BY <3>1 DEF OP!Running, OP!HistoryRow
  <2>2. /\ OP!At(r, "insertHistory") /\ request[r] # OP!Idle /\ OPGoes(r, OP!Idle)
        /\ UNCHANGED <<operation, raced, owed>>
        BY <1>9 DEF OP!InsertHistory, OP!At, OP!Finish, OP!Goto, OPGoes, OP!TypeOK,
           OP!HandlersTypeOK, OPInv, OP!Idle
  <2>3. history'[o] = Append(history[o], row) /\ \A p \in Parts \ {o} : history'[p] = history[p]
        BY <1>9, <2>1 DEF OP!InsertHistory, OP!TypeOK, OPInv
  <2>4. OP!Found(o) /\ history[o] \in Seq(OP!HistoryRow)
        BY <2>1, <2>2 DEF OPInv, OPHandlers, OPPresent, OP!TypeOK, OP!At
  <2>5. o \notin raced \cup owed => OPLeads(history[o], row.from) /\ operation[o].status = row.to
        BY <2>1, <2>2 DEF OPInv, OPHistory, OPUnderWay
  <2>6. o \notin raced \cup owed => OPLeads(history'[o], operation[o].status)
        BY <2>1, <2>3, <2>4, <2>5, OPLeadsOn
  <2> HIDE DEF row
  <2>7. OPNone'
        BY <2>1, <2>2, <2>3, <2>4 DEF OPInv, OPHistory, OPNone, OP!Found
  <2>8. ASSUME NEW p \in Parts \ (raced \cup owed), OP!Found(p)
        PROVE  \/ OPLeads(history'[p], operation[p].status)
               \/ \E q \in Requests : request'[q].pc = "insertHistory" /\ request'[q].on = p
    <3>1. CASE p = o
          BY <2>6, <3>1, <2>8
    <3>2. CASE p # o
          BY <2>2, <2>3, <2>8, <3>2 DEF OPGoes, OPInv, OPHistory, OPLed, OP!At
    <3> QED BY <3>1, <3>2
  <2>9. OPLed'
        BY <2>2, <2>8 DEF OPLed, OP!Found, OP!At
  <2>10. ASSUME NEW q \in Requests \ {r}, request[q] # OP!Idle, request[q].on \notin raced \cup owed
         PROVE  request[q].on \in Parts \ {o}
         BY <2>0, <2>2, <2>10 DEF OPInv, OPHandlers, OPAlone
  <2>11. OPUnderWay'
         BY <2>2, <2>3, <2>10 DEF OPGoes, OPInv, OPHistory, OPUnderWay, OP!Found, OP!At
  <2> QED BY <2>7, <2>9, <2>11
<1>10. ASSUME NEW r \in Requests, OP!Abort(r)
      PROVE  OPNone' /\ OPLed' /\ OPUnderWay'
      BY <1>10 DEF OP!Abort, OP!Stop
<1>11. ASSUME NEW w \in Others, OP!Join(w)
      PROVE  OPNone' /\ OPLed' /\ OPUnderWay'
      BY <1>11 DEF OP!Join
<1>12. ASSUME NEW w \in Others, OP!Leave(w)
      PROVE  OPNone' /\ OPLed' /\ OPUnderWay'
      BY <1>12 DEF OP!Leave
<1>13. CASE UNCHANGED OP!vars
      BY <1>13 DEF OP!vars
<1> HIDE DEF OP!TypeOK, OP!HandlersTypeOK, OP!Statuses, OP!HistoryRow, OP!Running,
             OP!operations, OP!Found, OP!Present, OP!At, OP!Start, OP!Goto, OP!Finish,
             OP!Absent, OP!Gone, OP!Idle,
             OPInv, OPHandlers, OPAlone, OPPresent, OPHistory, OPNone, OPLed, OPUnderWay,
             OP!Handled
<1> QED BY <1>1, <1>2, <1>3, <1>4, <1>5, <1>6, <1>7, <1>8, <1>9, <1>10, <1>11, <1>12,
           <1>13 DEF OP!Next

\* Every step keeps the invariant.
LEMMA OPInvStep == ASSUME OPInv, [OP!Next]_OP!vars PROVE OPInv'
BY OPTypeStep, OPRestStep, OPHistoryStep DEF OPInv, OPHandlers, OPHistory

\* The number of elements is that of the library.
LEMMA EXCardinality == \A S : EX!Cardinality(S) = Cardinality(S)
BY Zenon DEF Cardinality, EX!Cardinality

(***************************************************************************)
(* Examinations.                                                           *)
(***************************************************************************)

\* Two handlers of one entry, or of one examination, are remembered.
EXAlone ==
    \A q, r \in Requests :
        request[q] # EX!Idle /\ request[r] # EX!Idle /\ request[q].on = request[r].on
            /\ request[q].on \notin raced => q = r

\* What is written fits the kind of the row.
EXKinds ==
    \A r \in Requests :
        /\ EX!At(r, "write") =>
                 \/ request[r].status \in {"SUBMITTED", "APPROVED", "REJECTED"} /\ EX!Is(request[r].on, "rectification")
                 \/ request[r].status \in {"COMPLETED", "CANCELLED"} /\ EX!Is(request[r].on, "previo")
        /\ EX!At(r, "updateInspection") => EX!Is(request[r].on, "inspection")

\* A rectification that was filed is no draft, and one that will be still is.
EXFilings ==
    /\ \A x \in Rows \ raced :
          filings[x] = 0 \/ (filings[x] = 1 /\ EX!Is(x, "rectification") /\ exam[x].status # "DRAFT")
    /\ \A r \in Requests : EX!At(r, "write") /\ request[r].status = "SUBMITTED" /\ request[r].on \notin raced =>
          exam[request[r].on].status = "DRAFT"

\* A previo that will be cancelled is not completed.
EXCancels ==
    \A r \in Requests : EX!At(r, "write") /\ request[r].status = "CANCELLED" /\ request[r].on \notin raced =>
        exam[request[r].on].status # "COMPLETED"

\* The number a rectification will have follows those there are.
EXNumbers ==
    \A e \in Parts \ raced, r \in Requests :
        EX!At(r, "insertRectification") /\ request[r].on = e => request[r].n = EX!NextNumber(e)

\* The rectifications stay with their entries and numbers.
EXSame ==
    \A x \in Rows : /\ EX!Is(x, "rectification")' <=> EX!Is(x, "rectification")
                    /\ EX!Is(x, "rectification") => /\ exam'[x].entry = exam[x].entry
                                                    /\ exam'[x].sequenceNumber = exam[x].sequenceNumber

\* And what is about to be inserted has the number it had, or the next.
EXNumbering ==
    /\ EXSame /\ raced \subseteq raced'
    /\ \A q \in Requests, e \in Parts \ raced' :
           request'[q].pc = "insertRectification" /\ request'[q].on = e =>
              \/ EX!At(q, "insertRectification") /\ request[q] = request'[q]
              \/ request'[q].n = EX!NextNumber(e)

EXInv == EX!TypeOK /\ EXAlone /\ EXKinds /\ EXFilings /\ EXCancels /\ EXNumbers /\ EX!NumberedInOrder

\* What was found and is not being handled twice stays.
EXStays ==
    \A x \in Rows :
        /\ EX!Is(x, "previo") /\ exam[x].status = "COMPLETED" /\ x \notin raced' =>
                  exam'[x].status = "COMPLETED"
        /\ EX!Is(x, "inspection") /\ exam[x].modulated => exam'[x].modulated

\* What writing a status and updating an inspection do, in records.
EXGoes(r, h) == request'[r] = h /\ \A q \in Requests \ {r} : request'[q] = request[q]

EXWritten(r) ==
    LET x == request[r].on
        s == request[r].status IN
    /\ EX!At(r, "write") /\ x \in Rows /\ EXGoes(r, EX!Idle) /\ UNCHANGED <<raced, changed>>
    /\ \A y \in Rows \ {x} : exam'[y] = exam[y] /\ filings'[y] = filings[y]
    /\ filings'[x] = IF s = "SUBMITTED" THEN filings[x] + 1 ELSE filings[x]
    /\ exam'[x].status = s
    /\ \/ /\ EX!Is(x, "rectification") /\ exam'[x] \in EX!RectificationRow
          /\ exam'[x].entry = exam[x].entry /\ exam'[x].sequenceNumber = exam[x].sequenceNumber
       \/ EX!Is(x, "previo") /\ exam'[x] \in EX!PrevioRow

EXUpdated(r) ==
    LET x == request[r].on IN
    /\ EX!At(r, "updateInspection") /\ x \in Rows /\ EXGoes(r, EX!Idle) /\ UNCHANGED <<raced, changed, filings>>
    /\ \A y \in Rows \ {x} : exam'[y] = exam[y]
    /\ EX!Is(x, "inspection") /\ exam'[x] \in EX!InspectionRow
    /\ exam[x].modulated => exam'[x].modulated

\* The kind of a row that is there tells its columns.
LEMMA EXRows ==
    ASSUME EX!TypeOK, NEW x \in Rows
    PROVE  /\ EX!Is(x, "rectification") => exam[x] \in EX!RectificationRow
           /\ EX!Is(x, "previo") => exam[x] \in EX!PrevioRow
           /\ EX!Is(x, "inspection") => exam[x] \in EX!InspectionRow
<1>1. exam[x] \in EX!RectificationRow \cup EX!PrevioRow \cup EX!InspectionRow \cup {EX!Absent}
      BY DEF EX!TypeOK
<1> QED BY <1>1 DEF EX!Is, EX!Present, EX!RectificationRow, EX!PrevioRow, EX!InspectionRow

\* Rows of these kinds are there.
LEMMA EXPresent ==
    \A row \in EX!RectificationRow \cup EX!PrevioRow \cup EX!InspectionRow : EX!Present(row)
BY DEF EX!RectificationRow, EX!PrevioRow, EX!InspectionRow, EX!Present, EX!Absent, EX!Gone

\* A handler is about an entry or an examination.
LEMMA EXOn ==
    ASSUME EX!TypeOK, NEW r \in Requests
    PROVE  /\ request[r].pc \in {"insertRectification", "insertFieldChanges"} => request[r].on \in Parts
           /\ request[r].pc \in {"write", "updateInspection"} => request[r].on \in Rows
<1>1. request[r] \in EX!Running \cup {EX!Idle}
      BY DEF EX!TypeOK, EX!HandlersTypeOK
<1> QED BY <1>1 DEF EX!Running, EX!Idle

\* Writing a status keeps the rest of the row.
LEMMA EXWrite ==
    ASSUME EXInv, NEW r \in Requests, EX!Write(r)
    PROVE  EXWritten(r)
<1> DEFINE x == request[r].on
           s == request[r].status
<1>1. EX!At(r, "write") /\ x \in Rows
      BY EXOn DEF EXInv, EX!Write, EX!At
<1>2. EXGoes(r, EX!Idle) /\ UNCHANGED <<raced, changed>>
      BY DEF EX!Write, EX!Finish, EX!Goto, EXGoes, EXInv, EX!TypeOK, EX!HandlersTypeOK
<1>3. /\ \A y \in Rows \ {x} : exam'[y] = exam[y] /\ filings'[y] = filings[y]
      /\ filings'[x] = IF s = "SUBMITTED" THEN filings[x] + 1 ELSE filings[x]
      /\ exam'[x] = [exam[x] EXCEPT !.status = s]
      BY <1>1 DEF EX!Write, EXInv, EX!TypeOK
<1>4. CASE s \in {"SUBMITTED", "APPROVED", "REJECTED"} /\ EX!Is(x, "rectification")
  <2>1. exam[x] \in EX!RectificationRow
        BY <1>1, <1>4, EXRows DEF EXInv
  <2>2. /\ exam'[x].status = s /\ exam'[x] \in EX!RectificationRow
        /\ exam'[x].entry = exam[x].entry /\ exam'[x].sequenceNumber = exam[x].sequenceNumber
        BY <1>3, <1>4, <2>1 DEF EX!RectificationRow, EX!RectificationStatuses
  <2> QED BY <1>1, <1>2, <1>3, <1>4, <2>2 DEF EXWritten
<1>5. CASE s \in {"COMPLETED", "CANCELLED"} /\ EX!Is(x, "previo")
  <2>1. exam[x] \in EX!PrevioRow
        BY <1>1, <1>5, EXRows DEF EXInv
  <2>2. exam'[x].status = s /\ exam'[x] \in EX!PrevioRow
        BY <1>3, <1>5, <2>1 DEF EX!PrevioRow, EX!PrevioStatuses
  <2> QED BY <1>1, <1>2, <1>3, <1>5, <2>2 DEF EXWritten
<1> QED BY <1>1, <1>4, <1>5 DEF EXInv, EXKinds

\* Updating an inspection keeps a date that is there.
LEMMA EXUpdate ==
    ASSUME EXInv, NEW r \in Requests, EX!UpdateInspection(r)
    PROVE  EXUpdated(r)
<1> DEFINE x == request[r].on
           c == IF request[r].color = "KEEP" THEN exam[x].color ELSE request[r].color
           b == exam[x].modulated \/ request[r].dated
<1>1. EX!At(r, "updateInspection") /\ x \in Rows /\ EX!Is(x, "inspection")
      BY EXOn DEF EXInv, EXKinds, EX!UpdateInspection, EX!At
<1>2. EXGoes(r, EX!Idle) /\ UNCHANGED <<raced, changed, filings>>
      BY DEF EX!UpdateInspection, EX!Finish, EX!Goto, EXGoes, EXInv, EX!TypeOK,
         EX!HandlersTypeOK
<1>3. exam[x] \in EX!InspectionRow
      BY <1>1, EXRows DEF EXInv
<1>4. request[r].color \in EX!Colors \cup {"KEEP"}
  <2>1. request[r] \in EX!Running
        BY <1>1 DEF EXInv, EX!TypeOK, EX!HandlersTypeOK, EX!At, EX!Idle
  <2> QED BY <1>1, <2>1 DEF EX!Running, EX!At
<1>5. b \in BOOLEAN /\ c \in EX!Colors \cup {"NONE"}
      BY <1>3, <1>4 DEF EX!InspectionRow
<1>6. /\ \A y \in Rows \ {x} : exam'[y] = exam[y]
      /\ exam'[x] = [exam[x] EXCEPT !.color = c, !.modulated = b]
      BY <1>1, <1>3 DEF EX!UpdateInspection, EXInv, EX!TypeOK, EX!InspectionRow
<1> HIDE DEF b, c
<1>7. exam'[x] \in EX!InspectionRow /\ exam'[x].modulated = b
      BY <1>3, <1>5, <1>6 DEF EX!InspectionRow
<1>8. exam[x].modulated => b
      BY DEF b
<1> QED BY <1>1, <1>2, <1>6, <1>7, <1>8 DEF EXUpdated

\* Every step keeps the types.
LEMMA EXTypeStep ==
    ASSUME EXInv, [EX!Next]_EX!vars
    PROVE  EX!TypeOK'
<1> USE MaxStartedAssumption DEF EX!TypeOK, EX!HandlersTypeOK, EX!RectificationStatuses,
        EX!PrevioStatuses, EX!Colors, EX!RectificationRow, EX!PrevioRow, EX!InspectionRow,
        EX!Running,
            EX!exams, EX!Is, EX!Present, EX!At, EX!Start, EX!Once, EX!Goto, EX!Finish,
            EX!Absent, EX!Idle,
            EXInv, EX!Handled, EXKinds
<1>1. ASSUME NEW r \in Requests, NEW e \in Parts, EX!BeginCreateRectification(r, e)
      PROVE  EX!TypeOK'
      BY <1>1 DEF EX!BeginCreateRectification
<1>2. ASSUME NEW r \in Requests, NEW x \in Rows, EX!InsertRectification(r, x)
      PROVE  EX!TypeOK'
      BY <1>2 DEF EX!InsertRectification
<1>3. ASSUME NEW r \in Requests, NEW x \in Rows, EX!CreatePrevio(r, x)
      PROVE  EX!TypeOK'
      BY <1>3 DEF EX!CreatePrevio
<1>4. ASSUME NEW r \in Requests, NEW x \in Rows, EX!BeginSubmit(r, x)
      PROVE  EX!TypeOK'
      BY <1>4 DEF EX!BeginSubmit
<1>5. ASSUME NEW r \in Requests, NEW x \in Rows, EX!BeginApprove(r, x)
      PROVE  EX!TypeOK'
      BY <1>5 DEF EX!BeginApprove
<1>6. ASSUME NEW r \in Requests, NEW x \in Rows, EX!BeginReject(r, x)
      PROVE  EX!TypeOK'
      BY <1>6 DEF EX!BeginReject
<1>7. ASSUME NEW r \in Requests, NEW x \in Rows, EX!BeginComplete(r, x)
      PROVE  EX!TypeOK'
      BY <1>7 DEF EX!BeginComplete
<1>8. ASSUME NEW r \in Requests, NEW x \in Rows, EX!BeginCancel(r, x)
      PROVE  EX!TypeOK'
      BY <1>8 DEF EX!BeginCancel
<1>9. ASSUME NEW r \in Requests, NEW x \in Rows, NEW b \in BOOLEAN,
             NEW k \in EX!Colors \cup {"NONE"}, EX!CreateInspection(r, x, k, b)
      PROVE  EX!TypeOK'
      BY <1>9 DEF EX!CreateInspection
<1>10. ASSUME NEW r \in Requests, NEW x \in Rows, NEW b \in BOOLEAN,
              NEW m \in EX!Colors \cup {"KEEP"}, EX!BeginUpdateInspection(r, x, m, b)
      PROVE  EX!TypeOK'
      BY <1>10 DEF EX!BeginUpdateInspection
<1>11. ASSUME NEW r \in Requests, NEW x \in Rows, NEW c \in EX!Colors, EX!BeginRecordModulation(r, x,
              c)
      PROVE  EX!TypeOK'
      BY <1>11 DEF EX!BeginRecordModulation
<1>12. ASSUME NEW r \in Requests, EX!InsertFieldChanges(r)
      PROVE  EX!TypeOK'
      BY <1>12 DEF EX!InsertFieldChanges
<1>13. ASSUME NEW r \in Requests, EX!Write(r)
      PROVE  EX!TypeOK'
      BY <1>13 DEF EX!Write
<1>14. ASSUME NEW r \in Requests, EX!UpdateInspection(r)
      PROVE  EX!TypeOK'
      BY <1>14 DEF EX!UpdateInspection
<1>15. ASSUME NEW r \in Requests, EX!Abort(r)
      PROVE  EX!TypeOK'
      BY <1>15 DEF EX!Abort, EX!Stop
<1>16. CASE UNCHANGED EX!vars
      BY <1>16 DEF EX!vars
<1> HIDE DEF EX!TypeOK, EX!HandlersTypeOK, EX!RectificationStatuses, EX!PrevioStatuses,
         EX!Colors, EX!RectificationRow, EX!PrevioRow, EX!InspectionRow, EX!Running,
             EX!exams, EX!Is, EX!Present, EX!At, EX!Start, EX!Once, EX!Goto, EX!Finish,
             EX!Absent, EX!Idle,
             EXInv, EX!Handled, EXKinds
<1> QED BY <1>1, <1>2, <1>3, <1>4, <1>5, <1>6, <1>7, <1>8, <1>9, <1>10, <1>11, <1>12, <1>13,
           <1>14, <1>15, <1>16 DEF EX!Next

\* Every step keeps who handles what.
LEMMA EXAloneStep ==
    ASSUME EXInv, [EX!Next]_EX!vars
    PROVE  EXAlone' /\ EXKinds'
<1> USE DEF EX!TypeOK, EX!HandlersTypeOK, EX!RectificationStatuses, EX!PrevioStatuses,
        EX!Colors, EX!RectificationRow, EX!PrevioRow, EX!InspectionRow, EX!Running,
            EX!exams, EX!Is, EX!Present, EX!At, EX!Start, EX!Once, EX!Goto, EX!Finish,
            EX!Absent, EX!Idle,
            EXInv, EX!Handled, EXAlone, EXKinds
<1>1. ASSUME NEW r \in Requests, NEW e \in Parts, EX!BeginCreateRectification(r, e)
      PROVE  EXAlone' /\ EXKinds'
      BY <1>1 DEF EX!BeginCreateRectification
<1>2. ASSUME NEW r \in Requests, NEW x \in Rows, EX!InsertRectification(r, x)
      PROVE  EXAlone' /\ EXKinds'
  <2>1. EXAlone'
        BY <1>2 DEF EX!InsertRectification
  <2>2. EXKinds'
        BY <1>2 DEF EX!InsertRectification
  <2> QED BY <2>1, <2>2
<1>3. ASSUME NEW r \in Requests, NEW x \in Rows, EX!CreatePrevio(r, x)
      PROVE  EXAlone' /\ EXKinds'
      BY <1>3 DEF EX!CreatePrevio
<1>4. ASSUME NEW r \in Requests, NEW x \in Rows, EX!BeginSubmit(r, x)
      PROVE  EXAlone' /\ EXKinds'
      BY <1>4 DEF EX!BeginSubmit
<1>5. ASSUME NEW r \in Requests, NEW x \in Rows, EX!BeginApprove(r, x)
      PROVE  EXAlone' /\ EXKinds'
      BY <1>5 DEF EX!BeginApprove
<1>6. ASSUME NEW r \in Requests, NEW x \in Rows, EX!BeginReject(r, x)
      PROVE  EXAlone' /\ EXKinds'
      BY <1>6 DEF EX!BeginReject
<1>7. ASSUME NEW r \in Requests, NEW x \in Rows, EX!BeginComplete(r, x)
      PROVE  EXAlone' /\ EXKinds'
      BY <1>7 DEF EX!BeginComplete
<1>8. ASSUME NEW r \in Requests, NEW x \in Rows, EX!BeginCancel(r, x)
      PROVE  EXAlone' /\ EXKinds'
      BY <1>8 DEF EX!BeginCancel
<1>9. ASSUME NEW r \in Requests, NEW x \in Rows, NEW b \in BOOLEAN,
             NEW k \in EX!Colors \cup {"NONE"}, EX!CreateInspection(r, x, k, b)
      PROVE  EXAlone' /\ EXKinds'
      BY <1>9 DEF EX!CreateInspection
<1>10. ASSUME NEW r \in Requests, NEW x \in Rows, NEW b \in BOOLEAN,
              NEW m \in EX!Colors \cup {"KEEP"}, EX!BeginUpdateInspection(r, x, m, b)
      PROVE  EXAlone' /\ EXKinds'
      BY <1>10 DEF EX!BeginUpdateInspection
<1>11. ASSUME NEW r \in Requests, NEW x \in Rows, NEW c \in EX!Colors, EX!BeginRecordModulation(r, x,
              c)
      PROVE  EXAlone' /\ EXKinds'
      BY <1>11 DEF EX!BeginRecordModulation
<1>12. ASSUME NEW r \in Requests, EX!InsertFieldChanges(r)
      PROVE  EXAlone' /\ EXKinds'
      BY <1>12 DEF EX!InsertFieldChanges
<1>13. ASSUME NEW r \in Requests, EX!Write(r)
      PROVE  EXAlone' /\ EXKinds'
  <2> HIDE DEF EX!TypeOK, EX!HandlersTypeOK, EX!RectificationStatuses, EX!PrevioStatuses,
           EX!Colors, EX!RectificationRow, EX!PrevioRow, EX!InspectionRow, EX!Running,
               EX!exams, EX!Is, EX!Present, EX!At, EX!Start, EX!Once, EX!Goto, EX!Finish,
               EX!Absent, EX!Idle,
               EX!Handled, EXAlone, EXKinds
  <2>0. \A q \in Requests : EX!At(q, "write") \/ EX!At(q, "updateInspection") => request[q].on \in Rows
        BY EXOn DEF EXInv, EX!At
  <2>1. EXWritten(r)
        BY <1>13, EXWrite
  <2>2. EXAlone'
        BY <2>0, <2>1, EXPresent DEF EXWritten, EXGoes, EXInv, EXAlone, EX!At, EX!Idle, EX!Is,
           EX!RectificationRow, EX!PrevioRow, EX!InspectionRow
  <2>3. EXKinds'
        BY <2>0, <2>1, EXPresent DEF EXWritten, EXGoes, EXInv, EXKinds, EX!At, EX!Idle, EX!Is,
           EX!RectificationRow, EX!PrevioRow, EX!InspectionRow
  <2> QED BY <2>2, <2>3
<1>14. ASSUME NEW r \in Requests, EX!UpdateInspection(r)
      PROVE  EXAlone' /\ EXKinds'
  <2> HIDE DEF EX!TypeOK, EX!HandlersTypeOK, EX!RectificationStatuses, EX!PrevioStatuses,
           EX!Colors, EX!RectificationRow, EX!PrevioRow, EX!InspectionRow, EX!Running,
               EX!exams, EX!Is, EX!Present, EX!At, EX!Start, EX!Once, EX!Goto, EX!Finish,
               EX!Absent, EX!Idle,
               EX!Handled, EXAlone, EXKinds
  <2>0. \A q \in Requests : EX!At(q, "write") \/ EX!At(q, "updateInspection") => request[q].on \in Rows
        BY EXOn DEF EXInv, EX!At
  <2>1. EXUpdated(r)
        BY <1>14, EXUpdate
  <2>2. EXAlone'
        BY <2>0, <2>1, EXPresent DEF EXUpdated, EXGoes, EXInv, EXAlone, EX!At, EX!Idle, EX!Is,
           EX!RectificationRow, EX!PrevioRow, EX!InspectionRow
  <2>3. EXKinds'
        BY <2>0, <2>1, EXPresent DEF EXUpdated, EXGoes, EXInv, EXKinds, EX!At, EX!Idle, EX!Is,
           EX!RectificationRow, EX!PrevioRow, EX!InspectionRow
  <2> QED BY <2>2, <2>3
<1>15. ASSUME NEW r \in Requests, EX!Abort(r)
      PROVE  EXAlone' /\ EXKinds'
      BY <1>15 DEF EX!Abort, EX!Stop
<1>16. CASE UNCHANGED EX!vars
      BY <1>16 DEF EX!vars
<1> HIDE DEF EX!TypeOK, EX!HandlersTypeOK, EX!RectificationStatuses, EX!PrevioStatuses,
         EX!Colors, EX!RectificationRow, EX!PrevioRow, EX!InspectionRow, EX!Running,
             EX!exams, EX!Is, EX!Present, EX!At, EX!Start, EX!Once, EX!Goto, EX!Finish,
             EX!Absent, EX!Idle,
             EXInv, EX!Handled, EXAlone, EXKinds
<1> QED BY <1>1, <1>2, <1>3, <1>4, <1>5, <1>6, <1>7, <1>8, <1>9, <1>10, <1>11, <1>12, <1>13,
           <1>14, <1>15, <1>16 DEF EX!Next

\* Every step keeps what is filed and cancelled.
LEMMA EXFilingsStep ==
    ASSUME EXInv, [EX!Next]_EX!vars
    PROVE  EXFilings' /\ EXCancels'
<1> USE DEF EX!TypeOK, EX!HandlersTypeOK, EX!RectificationStatuses, EX!PrevioStatuses,
        EX!Colors, EX!RectificationRow, EX!PrevioRow, EX!InspectionRow, EX!Running,
            EX!exams, EX!Is, EX!Present, EX!At, EX!Start, EX!Once, EX!Goto, EX!Finish,
            EX!Absent, EX!Idle,
            EXInv, EX!Handled, EXAlone, EXKinds, EXFilings, EXCancels
<1>1. ASSUME NEW r \in Requests, NEW e \in Parts, EX!BeginCreateRectification(r, e)
      PROVE  EXFilings' /\ EXCancels'
      BY <1>1 DEF EX!BeginCreateRectification
<1>2. ASSUME NEW r \in Requests, NEW x \in Rows, EX!InsertRectification(r, x)
      PROVE  EXFilings' /\ EXCancels'
  <2>1. EXFilings'
        BY <1>2 DEF EX!InsertRectification
  <2>2. EXCancels'
        BY <1>2 DEF EX!InsertRectification
  <2> QED BY <2>1, <2>2
<1>3. ASSUME NEW r \in Requests, NEW x \in Rows, EX!CreatePrevio(r, x)
      PROVE  EXFilings' /\ EXCancels'
      BY <1>3 DEF EX!CreatePrevio
<1>4. ASSUME NEW r \in Requests, NEW x \in Rows, EX!BeginSubmit(r, x)
      PROVE  EXFilings' /\ EXCancels'
      BY <1>4 DEF EX!BeginSubmit
<1>5. ASSUME NEW r \in Requests, NEW x \in Rows, EX!BeginApprove(r, x)
      PROVE  EXFilings' /\ EXCancels'
      BY <1>5 DEF EX!BeginApprove
<1>6. ASSUME NEW r \in Requests, NEW x \in Rows, EX!BeginReject(r, x)
      PROVE  EXFilings' /\ EXCancels'
      BY <1>6 DEF EX!BeginReject
<1>7. ASSUME NEW r \in Requests, NEW x \in Rows, EX!BeginComplete(r, x)
      PROVE  EXFilings' /\ EXCancels'
      BY <1>7 DEF EX!BeginComplete
<1>8. ASSUME NEW r \in Requests, NEW x \in Rows, EX!BeginCancel(r, x)
      PROVE  EXFilings' /\ EXCancels'
      BY <1>8 DEF EX!BeginCancel
<1>9. ASSUME NEW r \in Requests, NEW x \in Rows, NEW b \in BOOLEAN,
             NEW k \in EX!Colors \cup {"NONE"}, EX!CreateInspection(r, x, k, b)
      PROVE  EXFilings' /\ EXCancels'
      BY <1>9 DEF EX!CreateInspection
<1>10. ASSUME NEW r \in Requests, NEW x \in Rows, NEW b \in BOOLEAN,
              NEW m \in EX!Colors \cup {"KEEP"}, EX!BeginUpdateInspection(r, x, m, b)
      PROVE  EXFilings' /\ EXCancels'
      BY <1>10 DEF EX!BeginUpdateInspection
<1>11. ASSUME NEW r \in Requests, NEW x \in Rows, NEW c \in EX!Colors, EX!BeginRecordModulation(r, x,
              c)
      PROVE  EXFilings' /\ EXCancels'
      BY <1>11 DEF EX!BeginRecordModulation
<1>12. ASSUME NEW r \in Requests, EX!InsertFieldChanges(r)
      PROVE  EXFilings' /\ EXCancels'
      BY <1>12 DEF EX!InsertFieldChanges
<1>13. ASSUME NEW r \in Requests, EX!Write(r)
      PROVE  EXFilings' /\ EXCancels'
  <2> HIDE DEF EX!TypeOK, EX!HandlersTypeOK, EX!RectificationStatuses, EX!PrevioStatuses,
           EX!Colors, EX!RectificationRow, EX!PrevioRow, EX!InspectionRow, EX!Running,
               EX!exams, EX!Is, EX!Present, EX!At, EX!Start, EX!Once, EX!Goto, EX!Finish,
               EX!Absent, EX!Idle,
               EX!Handled, EXAlone, EXKinds, EXFilings, EXCancels
  <2>0. \A q \in Requests : EX!At(q, "write") \/ EX!At(q, "updateInspection") => request[q].on \in Rows
        BY EXOn DEF EXInv, EX!At
  <2>1. EXWritten(r)
        BY <1>13, EXWrite
  <2>2. EXFilings'
        BY <2>0, <2>1, EXPresent DEF EXWritten, EXGoes, EXInv, EXAlone, EXKinds, EXFilings,
           EX!At, EX!Idle, EX!Is, EX!RectificationRow, EX!PrevioRow, EX!InspectionRow
  <2>3. EXCancels'
        BY <2>0, <2>1, EXPresent DEF EXWritten, EXGoes, EXInv, EXAlone, EXCancels, EX!At,
           EX!Idle, EX!Is, EX!RectificationRow, EX!PrevioRow, EX!InspectionRow
  <2> QED BY <2>2, <2>3
<1>14. ASSUME NEW r \in Requests, EX!UpdateInspection(r)
      PROVE  EXFilings' /\ EXCancels'
  <2> HIDE DEF EX!TypeOK, EX!HandlersTypeOK, EX!RectificationStatuses, EX!PrevioStatuses,
           EX!Colors, EX!RectificationRow, EX!PrevioRow, EX!InspectionRow, EX!Running,
               EX!exams, EX!Is, EX!Present, EX!At, EX!Start, EX!Once, EX!Goto, EX!Finish,
               EX!Absent, EX!Idle,
               EX!Handled, EXAlone, EXKinds, EXFilings, EXCancels
  <2>0. \A q \in Requests : EX!At(q, "write") \/ EX!At(q, "updateInspection") => request[q].on \in Rows
        BY EXOn DEF EXInv, EX!At
  <2>1. EXUpdated(r)
        BY <1>14, EXUpdate
  <2>2. EXFilings'
        BY <2>0, <2>1, EXPresent DEF EXUpdated, EXGoes, EXInv, EXAlone, EXKinds, EXFilings,
           EX!At, EX!Idle, EX!Is, EX!RectificationRow, EX!PrevioRow, EX!InspectionRow
  <2>3. EXCancels'
        BY <2>0, <2>1, EXPresent DEF EXUpdated, EXGoes, EXInv, EXAlone, EXCancels, EX!At,
           EX!Idle, EX!Is, EX!RectificationRow, EX!PrevioRow, EX!InspectionRow
  <2> QED BY <2>2, <2>3
<1>15. ASSUME NEW r \in Requests, EX!Abort(r)
      PROVE  EXFilings' /\ EXCancels'
      BY <1>15 DEF EX!Abort, EX!Stop
<1>16. CASE UNCHANGED EX!vars
      BY <1>16 DEF EX!vars
<1> HIDE DEF EX!TypeOK, EX!HandlersTypeOK, EX!RectificationStatuses, EX!PrevioStatuses,
         EX!Colors, EX!RectificationRow, EX!PrevioRow, EX!InspectionRow, EX!Running,
             EX!exams, EX!Is, EX!Present, EX!At, EX!Start, EX!Once, EX!Goto, EX!Finish,
             EX!Absent, EX!Idle,
             EXInv, EX!Handled, EXAlone, EXKinds, EXFilings, EXCancels
<1> QED BY <1>1, <1>2, <1>3, <1>4, <1>5, <1>6, <1>7, <1>8, <1>9, <1>10, <1>11, <1>12, <1>13,
           <1>14, <1>15, <1>16 DEF EX!Next


\* Rectifications that stay are numbered as they were.
LEMMA EXNumbersFrame ==
    ASSUME EXInv, EXNumbering
    PROVE  EXNumbers' /\ EX!NumberedInOrder'
<1>1. ASSUME NEW e \in Parts
      PROVE  /\ EX!RectificationsOf(e)' = EX!RectificationsOf(e) /\ EX!NextNumber(e)' = EX!NextNumber(e)
             /\ {exam'[x].sequenceNumber : x \in EX!RectificationsOf(e)'}
                   = {exam[x].sequenceNumber : x \in EX!RectificationsOf(e)}
  <2>1. EX!RectificationsOf(e)' = EX!RectificationsOf(e)
        BY DEF EXNumbering, EXSame, EX!RectificationsOf
  <2>2. \A x \in EX!RectificationsOf(e) : exam'[x].sequenceNumber = exam[x].sequenceNumber
        BY DEF EXNumbering, EXSame, EX!RectificationsOf
  <2> QED BY <2>1, <2>2 DEF EX!NextNumber
<1>2. EX!NumberedInOrder'
      BY <1>1 DEF EXInv, EXNumbering, EX!NumberedInOrder
<1>3. EXNumbers'
      BY <1>1 DEF EXInv, EXNumbering, EXNumbers, EX!At
<1> QED BY <1>2, <1>3

\* A rectification with the next number is numbered in order.
LEMMA EXNumbersInsert ==
    ASSUME EXInv, NEW r \in Requests, NEW x \in Rows, EX!InsertRectification(r, x)
    PROVE  EXNumbers' /\ EX!NumberedInOrder'
<1>0. request[r] \in EX!Running /\ EX!At(r, "insertRectification")
      BY DEF EX!InsertRectification, EX!At, EXInv, EX!TypeOK, EX!HandlersTypeOK, EX!Idle
<1>a. PICK o \in Parts, n \in 1..EX!Cardinality(Rows) : request[r].on = o /\ request[r].n = n
      BY <1>0 DEF EX!Running, EX!At
<1>1. /\ EX!At(r, "insertRectification") /\ o = request[r].on /\ n = request[r].n
      /\ UNCHANGED raced
      BY <1>0, <1>a DEF EX!InsertRectification, EX!Goto, EX!Finish
<1>2. /\ request'[r].pc # "insertRectification"
      /\ \A q \in Requests \ {r} : request'[q] = request[q]
      BY DEF EX!InsertRectification, EX!Goto, EX!Finish, EXInv, EX!TypeOK, EX!HandlersTypeOK,
         EX!Idle
<1>3. /\ ~EX!Is(x, "rectification") /\ EX!Is(x, "rectification")'
      /\ exam'[x].entry = o /\ exam'[x].sequenceNumber = n
      /\ \A y \in Rows \ {x} : exam'[y] = exam[y]
      BY <1>a DEF EX!InsertRectification, EXInv, EX!TypeOK, EX!Is, EX!Present, EX!Absent,
         EX!Gone
<1>4. ASSUME NEW e \in Parts \ {o}
      PROVE  /\ EX!RectificationsOf(e)' = EX!RectificationsOf(e)
             /\ {exam'[y].sequenceNumber : y \in EX!RectificationsOf(e)'}
                   = {exam[y].sequenceNumber : y \in EX!RectificationsOf(e)}
  <2>1. EX!RectificationsOf(e)' = EX!RectificationsOf(e)
        BY <1>3 DEF EX!RectificationsOf, EX!Is
  <2>2. \A y \in EX!RectificationsOf(e) : exam'[y] = exam[y]
        BY <1>3 DEF EX!RectificationsOf
  <2> QED BY <2>1, <2>2
<1>5. /\ EX!RectificationsOf(o)' = EX!RectificationsOf(o) \cup {x} /\ x \notin EX!RectificationsOf(o)
      /\ IsFiniteSet(EX!RectificationsOf(o))
  <2>1. EX!RectificationsOf(o)' = EX!RectificationsOf(o) \cup {x}
        BY <1>3 DEF EX!RectificationsOf, EX!Is
  <2>2. x \notin EX!RectificationsOf(o)
        BY <1>3 DEF EX!RectificationsOf
  <2> QED BY <2>1, <2>2, FiniteAssumption, EXCardinality, FS_Subset DEF EX!RectificationsOf
<1>6. EX!Cardinality(EX!RectificationsOf(o)') = EX!Cardinality(EX!RectificationsOf(o)) + 1
      BY <1>5, EXCardinality, FS_AddElement
<1>7. EX!NumberedInOrder'
  <2> SUFFICES ASSUME NEW e \in Parts \ raced
               PROVE  {exam'[y].sequenceNumber : y \in EX!RectificationsOf(e)'}
                         = 1..EX!Cardinality(EX!RectificationsOf(e)')
      BY <1>1 DEF EX!NumberedInOrder
  <2>1. CASE e # o
        BY <1>4, <2>1 DEF EXInv, EX!NumberedInOrder
  <2>2. CASE e = o
    <3>1. n = EX!Cardinality(EX!RectificationsOf(o)) + 1
          BY <1>1, <2>2 DEF EXInv, EXNumbers, EX!NextNumber
    <3>2. {exam[y].sequenceNumber : y \in EX!RectificationsOf(o)} = 1..EX!Cardinality(EX!RectificationsOf(o))
          BY <1>1, <2>2 DEF EXInv, EX!NumberedInOrder
    <3>3. {exam'[y].sequenceNumber : y \in EX!RectificationsOf(o)'}
             = {exam[y].sequenceNumber : y \in EX!RectificationsOf(o)} \cup {n}
      <4>1. \A y \in EX!RectificationsOf(o) : exam'[y] = exam[y]
            BY <1>3, <1>5 DEF EX!RectificationsOf
      <4> QED BY <1>3, <1>5, <4>1
    <3>4. EX!Cardinality(EX!RectificationsOf(o)) \in Nat
          BY <1>5, EXCardinality, FS_CardinalityType
    <3>5. \A k \in Nat : (1..k) \cup {k + 1} = 1..(k + 1)
          OBVIOUS
    <3> DEFINE k == EX!Cardinality(EX!RectificationsOf(o))
    <3> HIDE DEF k
    <3>6. /\ k \in Nat /\ n = k + 1 /\ EX!Cardinality(EX!RectificationsOf(o)') = k + 1
          /\ {exam[y].sequenceNumber : y \in EX!RectificationsOf(o)} = 1..k
          BY <1>6, <3>1, <3>2, <3>4 DEF k
    <3>7. {exam'[y].sequenceNumber : y \in EX!RectificationsOf(o)'} = 1..(k + 1)
          BY <3>3, <3>5, <3>6
    <3> QED BY <2>2, <3>6, <3>7
  <2> QED BY <2>1, <2>2
<1>8. ASSUME NEW e \in Parts \ raced, NEW q \in Requests,
             request'[q].pc = "insertRectification", request'[q].on = e
      PROVE  request'[q].n = EX!NextNumber(e)'
  <2>1. q # r /\ EX!At(q, "insertRectification") /\ request[q] = request'[q]
        BY <1>2, <1>8 DEF EX!At
  <2>2. e # o
        BY <1>1, <1>8, <2>1 DEF EXInv, EXAlone, EX!At, EX!Idle
  <2>3. EX!NextNumber(e)' = EX!NextNumber(e)
        BY <1>4, <2>2 DEF EX!NextNumber
  <2> QED BY <1>8, <2>1, <2>3 DEF EXInv, EXNumbers
<1>9. EXNumbers'
      BY <1>1, <1>8 DEF EXNumbers, EX!At
<1> QED BY <1>7, <1>9

\* Every step keeps the numbers of the rectifications.
LEMMA EXNumbersStep ==
    ASSUME EXInv, [EX!Next]_EX!vars
    PROVE  EXNumbers' /\ EX!NumberedInOrder'
<1> USE DEF EX!TypeOK, EX!HandlersTypeOK, EX!RectificationStatuses, EX!PrevioStatuses,
        EX!Colors, EX!RectificationRow, EX!PrevioRow, EX!InspectionRow, EX!Running,
            EX!exams, EX!Is, EX!Present, EX!At, EX!Start, EX!Once, EX!Goto, EX!Finish,
            EX!Absent, EX!Idle,
            EXInv
<1>1. ASSUME NEW r \in Requests, NEW e \in Parts, EX!BeginCreateRectification(r, e)
      PROVE  EXNumbers' /\ EX!NumberedInOrder'
  <2>1. EXNumbering
        BY <1>1 DEF EX!BeginCreateRectification, EXNumbering, EXSame, EX!Handled, EX!Stop
  <2> QED BY <2>1, EXNumbersFrame
<1>2. ASSUME NEW r \in Requests, NEW x \in Rows, EX!InsertRectification(r, x)
      PROVE  EXNumbers' /\ EX!NumberedInOrder'
      BY <1>2, EXNumbersInsert
<1>3. ASSUME NEW r \in Requests, NEW x \in Rows, EX!CreatePrevio(r, x)
      PROVE  EXNumbers' /\ EX!NumberedInOrder'
  <2>1. EXNumbering
        BY <1>3 DEF EX!CreatePrevio, EXNumbering, EXSame, EX!Handled, EX!Stop
  <2> QED BY <2>1, EXNumbersFrame
<1>4. ASSUME NEW r \in Requests, NEW x \in Rows, EX!BeginSubmit(r, x)
      PROVE  EXNumbers' /\ EX!NumberedInOrder'
  <2>1. EXNumbering
        BY <1>4 DEF EX!BeginSubmit, EXNumbering, EXSame, EX!Handled, EX!Stop
  <2> QED BY <2>1, EXNumbersFrame
<1>5. ASSUME NEW r \in Requests, NEW x \in Rows, EX!BeginApprove(r, x)
      PROVE  EXNumbers' /\ EX!NumberedInOrder'
  <2>1. EXNumbering
        BY <1>5 DEF EX!BeginApprove, EXNumbering, EXSame, EX!Handled, EX!Stop
  <2> QED BY <2>1, EXNumbersFrame
<1>6. ASSUME NEW r \in Requests, NEW x \in Rows, EX!BeginReject(r, x)
      PROVE  EXNumbers' /\ EX!NumberedInOrder'
  <2>1. EXNumbering
        BY <1>6 DEF EX!BeginReject, EXNumbering, EXSame, EX!Handled, EX!Stop
  <2> QED BY <2>1, EXNumbersFrame
<1>7. ASSUME NEW r \in Requests, NEW x \in Rows, EX!BeginComplete(r, x)
      PROVE  EXNumbers' /\ EX!NumberedInOrder'
  <2>1. EXNumbering
        BY <1>7 DEF EX!BeginComplete, EXNumbering, EXSame, EX!Handled, EX!Stop
  <2> QED BY <2>1, EXNumbersFrame
<1>8. ASSUME NEW r \in Requests, NEW x \in Rows, EX!BeginCancel(r, x)
      PROVE  EXNumbers' /\ EX!NumberedInOrder'
  <2>1. EXNumbering
        BY <1>8 DEF EX!BeginCancel, EXNumbering, EXSame, EX!Handled, EX!Stop
  <2> QED BY <2>1, EXNumbersFrame
<1>9. ASSUME NEW r \in Requests, NEW x \in Rows, NEW b \in BOOLEAN,
             NEW k \in EX!Colors \cup {"NONE"}, EX!CreateInspection(r, x, k, b)
      PROVE  EXNumbers' /\ EX!NumberedInOrder'
  <2>1. EXNumbering
        BY <1>9 DEF EX!CreateInspection, EXNumbering, EXSame, EX!Handled, EX!Stop
  <2> QED BY <2>1, EXNumbersFrame
<1>10. ASSUME NEW r \in Requests, NEW x \in Rows, NEW b \in BOOLEAN,
              NEW m \in EX!Colors \cup {"KEEP"}, EX!BeginUpdateInspection(r, x, m, b)
      PROVE  EXNumbers' /\ EX!NumberedInOrder'
  <2>1. EXNumbering
        BY <1>10 DEF EX!BeginUpdateInspection, EXNumbering, EXSame, EX!Handled, EX!Stop
  <2> QED BY <2>1, EXNumbersFrame
<1>11. ASSUME NEW r \in Requests, NEW x \in Rows, NEW c \in EX!Colors, EX!BeginRecordModulation(r, x,
              c)
      PROVE  EXNumbers' /\ EX!NumberedInOrder'
  <2>1. EXNumbering
        BY <1>11 DEF EX!BeginRecordModulation, EXNumbering, EXSame, EX!Handled, EX!Stop
  <2> QED BY <2>1, EXNumbersFrame
<1>12. ASSUME NEW r \in Requests, EX!InsertFieldChanges(r)
      PROVE  EXNumbers' /\ EX!NumberedInOrder'
  <2>1. EXNumbering
        BY <1>12 DEF EX!InsertFieldChanges, EXNumbering, EXSame, EX!Handled, EX!Stop
  <2> QED BY <2>1, EXNumbersFrame
<1>13. ASSUME NEW r \in Requests, EX!Write(r)
      PROVE  EXNumbers' /\ EX!NumberedInOrder'
  <2> HIDE DEF EX!TypeOK, EX!HandlersTypeOK, EX!RectificationStatuses, EX!PrevioStatuses,
           EX!Colors, EX!RectificationRow, EX!PrevioRow, EX!InspectionRow, EX!Running,
               EX!exams, EX!Is, EX!Present, EX!At, EX!Start, EX!Once, EX!Goto, EX!Finish,
               EX!Absent, EX!Idle
  <2>1. EXWritten(r)
        BY <1>13, EXWrite
  <2>2. EXSame /\ UNCHANGED raced
        BY <2>1, EXPresent DEF EXWritten, EXSame, EX!Is, EX!RectificationRow, EX!PrevioRow,
           EX!InspectionRow
  <2>3. \A q \in Requests : request'[q] = request[q] \/ request'[q].pc # "insertRectification"
        BY <2>1 DEF EXWritten, EXGoes, EX!Idle
  <2>4. EXNumbering
        BY <2>2, <2>3 DEF EXNumbering, EX!At
  <2> QED BY <2>4, EXNumbersFrame
<1>14. ASSUME NEW r \in Requests, EX!UpdateInspection(r)
      PROVE  EXNumbers' /\ EX!NumberedInOrder'
  <2> HIDE DEF EX!TypeOK, EX!HandlersTypeOK, EX!RectificationStatuses, EX!PrevioStatuses,
           EX!Colors, EX!RectificationRow, EX!PrevioRow, EX!InspectionRow, EX!Running,
               EX!exams, EX!Is, EX!Present, EX!At, EX!Start, EX!Once, EX!Goto, EX!Finish,
               EX!Absent, EX!Idle
  <2>1. EXUpdated(r)
        BY <1>14, EXUpdate
  <2>2. EXSame /\ UNCHANGED raced
        BY <2>1, EXPresent DEF EXUpdated, EXSame, EX!Is, EX!RectificationRow, EX!PrevioRow,
           EX!InspectionRow
  <2>3. \A q \in Requests : request'[q] = request[q] \/ request'[q].pc # "insertRectification"
        BY <2>1 DEF EXUpdated, EXGoes, EX!Idle
  <2>4. EXNumbering
        BY <2>2, <2>3 DEF EXNumbering, EX!At
  <2> QED BY <2>4, EXNumbersFrame
<1>15. ASSUME NEW r \in Requests, EX!Abort(r)
      PROVE  EXNumbers' /\ EX!NumberedInOrder'
  <2>1. EXNumbering
        BY <1>15 DEF EX!Abort, EXNumbering, EXSame, EX!Handled, EX!Stop
  <2> QED BY <2>1, EXNumbersFrame
<1>16. CASE UNCHANGED EX!vars
  <2>1. EXNumbering
        BY <1>16 DEF EX!vars, EXNumbering, EXSame
  <2> QED BY <2>1, EXNumbersFrame
<1> HIDE DEF EX!TypeOK, EX!HandlersTypeOK, EX!RectificationStatuses, EX!PrevioStatuses,
         EX!Colors, EX!RectificationRow, EX!PrevioRow, EX!InspectionRow, EX!Running,
             EX!exams, EX!Is, EX!Present, EX!At, EX!Start, EX!Once, EX!Goto, EX!Finish,
             EX!Absent, EX!Idle,
             EXInv
<1> QED BY <1>1, <1>2, <1>3, <1>4, <1>5, <1>6, <1>7, <1>8, <1>9, <1>10, <1>11, <1>12, <1>13,
           <1>14, <1>15, <1>16 DEF EX!Next

\* Results stay.
LEMMA EXStaysStep ==
    ASSUME EXInv, [EX!Next]_EX!vars
    PROVE  EXStays
<1> USE DEF EX!TypeOK, EX!HandlersTypeOK, EX!RectificationStatuses, EX!PrevioStatuses,
        EX!Colors, EX!RectificationRow, EX!PrevioRow, EX!InspectionRow, EX!Running,
            EX!exams, EX!Is, EX!Present, EX!At, EX!Start, EX!Once, EX!Goto, EX!Finish,
            EX!Absent, EX!Idle,
            EXInv, EX!Handled, EXAlone, EXKinds, EXCancels, EXStays
<1>1. ASSUME NEW r \in Requests, NEW e \in Parts, EX!BeginCreateRectification(r, e)
      PROVE  EXStays
      BY <1>1 DEF EX!BeginCreateRectification
<1>2. ASSUME NEW r \in Requests, NEW x \in Rows, EX!InsertRectification(r, x)
      PROVE  EXStays
      BY <1>2 DEF EX!InsertRectification
<1>3. ASSUME NEW r \in Requests, NEW x \in Rows, EX!CreatePrevio(r, x)
      PROVE  EXStays
      BY <1>3 DEF EX!CreatePrevio
<1>4. ASSUME NEW r \in Requests, NEW x \in Rows, EX!BeginSubmit(r, x)
      PROVE  EXStays
      BY <1>4 DEF EX!BeginSubmit
<1>5. ASSUME NEW r \in Requests, NEW x \in Rows, EX!BeginApprove(r, x)
      PROVE  EXStays
      BY <1>5 DEF EX!BeginApprove
<1>6. ASSUME NEW r \in Requests, NEW x \in Rows, EX!BeginReject(r, x)
      PROVE  EXStays
      BY <1>6 DEF EX!BeginReject
<1>7. ASSUME NEW r \in Requests, NEW x \in Rows, EX!BeginComplete(r, x)
      PROVE  EXStays
      BY <1>7 DEF EX!BeginComplete
<1>8. ASSUME NEW r \in Requests, NEW x \in Rows, EX!BeginCancel(r, x)
      PROVE  EXStays
      BY <1>8 DEF EX!BeginCancel
<1>9. ASSUME NEW r \in Requests, NEW x \in Rows, NEW b \in BOOLEAN,
             NEW k \in EX!Colors \cup {"NONE"}, EX!CreateInspection(r, x, k, b)
      PROVE  EXStays
      BY <1>9 DEF EX!CreateInspection
<1>10. ASSUME NEW r \in Requests, NEW x \in Rows, NEW b \in BOOLEAN,
              NEW m \in EX!Colors \cup {"KEEP"}, EX!BeginUpdateInspection(r, x, m, b)
      PROVE  EXStays
      BY <1>10 DEF EX!BeginUpdateInspection
<1>11. ASSUME NEW r \in Requests, NEW x \in Rows, NEW c \in EX!Colors, EX!BeginRecordModulation(r, x,
              c)
      PROVE  EXStays
      BY <1>11 DEF EX!BeginRecordModulation
<1>12. ASSUME NEW r \in Requests, EX!InsertFieldChanges(r)
      PROVE  EXStays
      BY <1>12 DEF EX!InsertFieldChanges
<1>13. ASSUME NEW r \in Requests, EX!Write(r)
      PROVE  EXStays
  <2> HIDE DEF EX!TypeOK, EX!HandlersTypeOK, EX!RectificationStatuses, EX!PrevioStatuses,
           EX!Colors, EX!RectificationRow, EX!PrevioRow, EX!InspectionRow, EX!Running,
               EX!exams, EX!Is, EX!Present, EX!At, EX!Start, EX!Once, EX!Goto, EX!Finish,
               EX!Absent, EX!Idle,
               EX!Handled, EXAlone, EXKinds, EXCancels, EXStays
  <2>1. EXWritten(r)
        BY <1>13, EXWrite
  <2> QED BY <2>1 DEF EXWritten, EXInv, EXKinds, EXCancels, EXStays, EX!At, EX!Is, EX!PrevioRow
<1>14. ASSUME NEW r \in Requests, EX!UpdateInspection(r)
      PROVE  EXStays
  <2> HIDE DEF EX!TypeOK, EX!HandlersTypeOK, EX!RectificationStatuses, EX!PrevioStatuses,
           EX!Colors, EX!RectificationRow, EX!PrevioRow, EX!InspectionRow, EX!Running,
               EX!exams, EX!Is, EX!Present, EX!At, EX!Start, EX!Once, EX!Goto, EX!Finish,
               EX!Absent, EX!Idle,
               EX!Handled, EXAlone, EXKinds, EXCancels, EXStays
  <2>1. EXUpdated(r)
        BY <1>14, EXUpdate
  <2> QED BY <2>1 DEF EXUpdated, EXStays, EX!Is
<1>15. ASSUME NEW r \in Requests, EX!Abort(r)
      PROVE  EXStays
      BY <1>15 DEF EX!Abort, EX!Stop
<1>16. CASE UNCHANGED EX!vars
      BY <1>16 DEF EX!vars
<1> HIDE DEF EX!TypeOK, EX!HandlersTypeOK, EX!RectificationStatuses, EX!PrevioStatuses,
         EX!Colors, EX!RectificationRow, EX!PrevioRow, EX!InspectionRow, EX!Running,
             EX!exams, EX!Is, EX!Present, EX!At, EX!Start, EX!Once, EX!Goto, EX!Finish,
             EX!Absent, EX!Idle,
             EXInv, EX!Handled, EXAlone, EXKinds, EXCancels, EXStays
<1> QED BY <1>1, <1>2, <1>3, <1>4, <1>5, <1>6, <1>7, <1>8, <1>9, <1>10, <1>11, <1>12, <1>13,
           <1>14, <1>15, <1>16 DEF EX!Next

\* Nothing is examined at first.
LEMMA EXStart == EX!Init => EXInv
<1> SUFFICES ASSUME EX!Init PROVE EXInv
    OBVIOUS
<1>1. EX!TypeOK
      BY MaxStartedAssumption DEF EX!Init, EX!HandlersInit, EX!TypeOK, EX!HandlersTypeOK
<1>2. EX!NumberedInOrder
  <2>1. \A e : EX!RectificationsOf(e) = {}
        BY DEF EX!Init, EX!RectificationsOf, EX!Is, EX!Present
  <2>2. EX!Cardinality({}) = 0
        BY EXCardinality, FS_EmptySet
  <2> QED BY <2>1, <2>2 DEF EX!NumberedInOrder
<1> QED BY <1>1, <1>2 DEF EX!Init, EX!HandlersInit, EXInv, EXAlone, EXKinds, EXFilings,
           EXCancels, EXNumbers,
             EX!Is, EX!Present, EX!At, EX!Idle

\* What is filed is filed once.
LEMMA EXFiledOnce == EXInv => EX!FiledOnce
BY DEF EXInv, EXFilings, EX!FiledOnce

\* Every step keeps the invariant.
LEMMA EXInvStep == ASSUME EXInv, [EX!Next]_EX!vars PROVE EXInv'
BY EXTypeStep, EXAloneStep, EXFilingsStep, EXNumbersStep DEF EXInv

(***************************************************************************)
(* Shipments.                                                              *)
(***************************************************************************)

\* Two handlers of one shipment are remembered.
SHAlone ==
    \A q, r \in Requests :
        request[q] # SH!Idle /\ request[r] # SH!Idle /\ request[q].on = request[r].on
            /\ request[q].on \notin raced => q = r

\* What is about to be deleted may be.
SHDeletes ==
    \A r \in Requests :
        SH!At(r, "deleteShipment") /\ request[r].on \notin raced /\ SH!Found(request[r].on) =>
               shipment[request[r].on].status \in SH!DeletableStatuses

\* A stage is completed by completing it, and what is about to be completed is not.
SHCounted ==
    \A t \in Parts :
        /\ stage[t] = SH!Absent => completions[t] = 0
        /\ SH!Present(stage[t]) /\ stage[t].of \notin raced =>
               completions[t] = IF stage[t].completed THEN 1 ELSE 0

SHOpen ==
    \A r \in Requests : SH!At(r, "completeStage") =>
        LET row == stage[request[r].stage] IN
        /\ request[r].stage \in Parts /\ row # SH!Absent
        /\ SH!Present(row) => row.of = request[r].on
        /\ SH!Present(row) /\ row.of \notin raced => ~row.completed

SHLinks == \A k \in Contents : SH!Present(link[k]) => SH!Found(link[k].of) /\ link[k].entry \in entries
SHPairs == \A k, j \in Contents : SH!Present(link[k]) /\ link[k] = link[j] => k = j

SHInv == SH!TypeOK /\ SHAlone /\ SHDeletes /\ SHCounted /\ SHOpen /\ SHLinks /\ SHPairs

\* What is under way and is not being handled twice stays.
SHStays ==
    \A s \in Rows \ raced' :
        SH!Found(s) /\ shipment[s].status \notin SH!DeletableStatuses => SH!Found(s)'

SHGoes(r, h) == request'[r] = h /\ \A q \in Requests \ {r} : request'[q] = request[q]

\* There are no shipments at first.
LEMMA SHStart == SH!Init => SHInv
<1> SUFFICES ASSUME SH!Init PROVE SHInv
    OBVIOUS
<1>1. SH!TypeOK
      BY MaxStartedAssumption DEF SH!Init, SH!HandlersInit, SH!TypeOK, SH!HandlersTypeOK
<1> QED BY <1>1 DEF SH!Init, SH!HandlersInit, SHInv, SHAlone, SHDeletes, SHCounted, SHOpen,
           SHLinks, SHPairs,
             SH!Found, SH!Present, SH!At, SH!Idle

\* Rows that are there are neither absent nor gone.
LEMMA SHRows ==
    /\ \A x \in SH!ShipmentRow : x \notin {SH!Absent, SH!Gone}
    /\ \A x \in SH!StageRow : x \notin {SH!Absent, SH!Gone}
BY DEF SH!ShipmentRow, SH!StageRow, SH!Absent, SH!Gone

\* A handler is about a shipment.
LEMMA SHOn == SHInv => \A r \in Requests : request[r] # SH!Idle => request[r].on \in Rows
<1> SUFFICES ASSUME SHInv, NEW r \in Requests, request[r] # SH!Idle PROVE request[r].on \in Rows
    OBVIOUS
<1>1. request[r] \in SH!Running
      BY DEF SHInv, SH!TypeOK, SH!HandlersTypeOK
<1> QED BY <1>1 DEF SH!Running

\* Every step keeps the types.
LEMMA SHTypeStep ==
    ASSUME SHInv, [SH!Next]_SH!vars
    PROVE  SH!TypeOK'
<1> USE MaxStartedAssumption DEF SH!TypeOK, SH!HandlersTypeOK, SH!Statuses,
        SH!DeletableStatuses, SH!ShipmentRow, SH!StageRow, SH!LinkRow, SH!Running,
            SH!shipments, SH!Found, SH!Present, SH!At, SH!Start, SH!Once, SH!Goto, SH!Finish,
            SH!Absent, SH!Gone, SH!Idle,
            SHInv
<1>1. ASSUME NEW r \in Requests, NEW s \in Rows, SH!CreateShipment(r, s)
      PROVE  SH!TypeOK'
      BY <1>1 DEF SH!CreateShipment
<1>2. ASSUME NEW r \in Requests, NEW s \in Rows, SH!BeginUpdate(r, s)
      PROVE  SH!TypeOK'
      BY <1>2 DEF SH!BeginUpdate
<1>3. ASSUME NEW r \in Requests, NEW s \in Rows, SH!BeginDelete(r, s)
      PROVE  SH!TypeOK'
      BY <1>3 DEF SH!BeginDelete
<1>4. ASSUME NEW r \in Requests, NEW s \in Rows, SH!BeginAdd(r, s)
      PROVE  SH!TypeOK'
      BY <1>4 DEF SH!BeginAdd
<1>5. ASSUME NEW r \in Requests, NEW s \in Rows, NEW u \in SH!Statuses, SH!BeginChangeStatus(r, s, u)
      PROVE  SH!TypeOK'
      BY <1>5 DEF SH!BeginChangeStatus
<1>6. ASSUME NEW r \in Requests, NEW s \in Rows, NEW t \in Parts, SH!BeginCompleteStage(r, s, t)
      PROVE  SH!TypeOK'
      BY <1>6 DEF SH!BeginCompleteStage
<1>7. ASSUME NEW r \in Requests, NEW s \in Rows, NEW e \in Others, SH!BeginLink(r, s, e)
      PROVE  SH!TypeOK'
      BY <1>7 DEF SH!BeginLink
<1>8. ASSUME NEW r \in Requests, NEW s \in Rows, NEW k \in Contents, SH!BeginUnlink(r, s, k)
      PROVE  SH!TypeOK'
      BY <1>8 DEF SH!BeginUnlink
<1>9. ASSUME NEW r \in Requests, NEW t \in Parts, SH!InsertStage(r, t)
      PROVE  SH!TypeOK'
      BY <1>9 DEF SH!InsertStage
<1>10. ASSUME NEW r \in Requests, NEW k \in Contents, SH!InsertLink(r, k)
      PROVE  SH!TypeOK'
      BY <1>10 DEF SH!InsertLink
<1>11. ASSUME NEW r \in Requests, SH!UpdateShipment(r)
      PROVE  SH!TypeOK'
      BY <1>11 DEF SH!UpdateShipment
<1>12. ASSUME NEW r \in Requests, SH!DeleteShipment(r)
      PROVE  SH!TypeOK'
      BY <1>12 DEF SH!DeleteShipment
<1>13. ASSUME NEW r \in Requests, SH!WriteStatus(r)
      PROVE  SH!TypeOK'
  <2> HIDE DEF SH!TypeOK, SH!HandlersTypeOK, SH!Statuses, SH!DeletableStatuses, SH!ShipmentRow,
           SH!StageRow, SH!LinkRow, SH!Running,
               SH!shipments, SH!Found, SH!Present, SH!At, SH!Start, SH!Once, SH!Goto, SH!Finish,
               SH!Absent, SH!Gone, SH!Idle
  <2>1. request[r].on \in Rows /\ request[r].status \in SH!Statuses
    <3>1. request[r] \in SH!Running /\ request[r].pc = "writeStatus"
          BY <1>13 DEF SH!WriteStatus, SH!At, SH!TypeOK, SH!HandlersTypeOK, SH!Idle, SHInv
    <3> QED BY <3>1 DEF SH!Running
  <2>2. SH!Found(request[r].on) => [shipment[request[r].on] EXCEPT !.status = request[r].status] \in SH!ShipmentRow
        BY <2>1 DEF SHInv, SH!Found, SH!Present, SH!TypeOK, SH!ShipmentRow
  <2> QED BY <1>13, <2>1, <2>2 DEF SH!WriteStatus, SH!Goto, SH!Finish, SH!TypeOK,
             SH!HandlersTypeOK, SHInv
<1>14. ASSUME NEW r \in Requests, SH!InsertComment(r)
      PROVE  SH!TypeOK'
      BY <1>14 DEF SH!InsertComment
<1>15. ASSUME NEW r \in Requests, SH!FindStage(r)
      PROVE  SH!TypeOK'
  <2> HIDE DEF SH!TypeOK, SH!HandlersTypeOK, SH!Statuses, SH!DeletableStatuses, SH!ShipmentRow,
           SH!StageRow, SH!LinkRow, SH!Running,
               SH!shipments, SH!Found, SH!Present, SH!At, SH!Start, SH!Once, SH!Goto, SH!Finish,
               SH!Absent, SH!Gone, SH!Idle
  <2> DEFINE h == [request[r] EXCEPT !.pc = "completeStage"]
  <2>1. request[r] \in [pc : {"findStage"}, on : Rows, stage : Parts]
        BY <1>15 DEF SH!FindStage, SH!At, SH!TypeOK, SH!HandlersTypeOK, SH!Running, SH!Idle,
           SHInv
  <2>2. h \in [pc : {"completeStage"}, on : Rows, stage : Parts]
        BY <2>1
  <2>3. request' = [request EXCEPT ![r] = h] \/ request' = [request EXCEPT ![r] = SH!Idle]
        BY <1>15 DEF SH!FindStage, SH!Goto, SH!Finish
  <2> HIDE DEF h
  <2>4. request' \in [Requests -> SH!Running \cup {SH!Idle}]
        BY <2>2, <2>3 DEF SH!TypeOK, SH!HandlersTypeOK, SH!Running, SHInv
  <2> QED BY <1>15, <2>4 DEF SH!FindStage, SH!Goto, SH!Finish, SH!TypeOK, SH!HandlersTypeOK,
             SH!shipments, SHInv
<1>16. ASSUME NEW r \in Requests, SH!CompleteStage(r)
      PROVE  SH!TypeOK'
  <2> HIDE DEF SH!TypeOK, SH!HandlersTypeOK, SH!Statuses, SH!DeletableStatuses, SH!ShipmentRow,
           SH!StageRow, SH!LinkRow, SH!Running,
               SH!shipments, SH!Found, SH!Present, SH!At, SH!Start, SH!Once, SH!Goto, SH!Finish,
               SH!Absent, SH!Gone, SH!Idle
  <2>1. request[r].stage \in Parts
        BY <1>16 DEF SH!CompleteStage, SHInv, SHOpen
  <2>2. SH!Present(stage[request[r].stage]) => [stage[request[r].stage] EXCEPT !.completed = TRUE] \in SH!StageRow
        BY <2>1 DEF SHInv, SH!Present, SH!TypeOK, SH!StageRow
  <2> QED BY <1>16, <2>1, <2>2 DEF SH!CompleteStage, SH!Goto, SH!Finish, SH!TypeOK,
             SH!HandlersTypeOK, SHInv
<1>17. ASSUME NEW r \in Requests, SH!DeleteLink(r)
      PROVE  SH!TypeOK'
      BY <1>17 DEF SH!DeleteLink
<1>18. ASSUME NEW r \in Requests, SH!Abort(r)
      PROVE  SH!TypeOK'
      BY <1>18 DEF SH!Abort, SH!Stop
<1>19. ASSUME NEW e \in Others, SH!DeleteEntry(e)
      PROVE  SH!TypeOK'
      BY <1>19 DEF SH!DeleteEntry
<1>20. CASE UNCHANGED SH!vars
      BY <1>20 DEF SH!vars
<1> HIDE DEF SH!TypeOK, SH!HandlersTypeOK, SH!Statuses, SH!DeletableStatuses, SH!ShipmentRow,
         SH!StageRow, SH!LinkRow, SH!Running,
             SH!shipments, SH!Found, SH!Present, SH!At, SH!Start, SH!Once, SH!Goto, SH!Finish,
             SH!Absent, SH!Gone, SH!Idle,
             SHInv
<1> QED BY <1>1, <1>2, <1>3, <1>4, <1>5, <1>6, <1>7, <1>8, <1>9, <1>10, <1>11, <1>12, <1>13,
           <1>14, <1>15, <1>16, <1>17, <1>18, <1>19, <1>20 DEF SH!Next

\* What finding a stage, completing it and writing a status do, in records.
SHLooked(r) ==
    LET t == request[r].stage IN
    /\ UNCHANGED <<shipment, stage, link, entries, completions, raced>> /\ SH!At(r, "findStage")
    /\ \/ SHGoes(r, SH!Idle)
       \/ /\ SHGoes(r, [pc |-> "completeStage", on |-> request[r].on, stage |-> t])
          /\ t \in Parts /\ SH!Present(stage[t]) /\ stage[t] # SH!Absent /\ stage[t].of = request[r].on /\ ~stage[t].completed

SHCompleted(r) ==
    LET t == request[r].stage IN
    /\ UNCHANGED <<shipment, link, entries, raced>> /\ SHGoes(r, SH!Idle)
    /\ SH!At(r, "completeStage") /\ t \in Parts
    /\ \A u \in Parts \ {t} : stage'[u] = stage[u] /\ completions'[u] = completions[u]
    /\ \/ UNCHANGED <<stage, completions>>
       \/ /\ SH!Present(stage[t]) /\ SH!Present(stage'[t]) /\ stage[t] # SH!Absent /\ stage'[t] # SH!Absent
          /\ stage'[t].of = stage[t].of /\ stage'[t].completed /\ completions'[t] = completions[t] + 1

SHWritten(r) ==
    LET s == request[r].on IN
    /\ UNCHANGED <<stage, link, entries, completions, raced>> /\ SHGoes(r, SH!Idle)
    /\ SH!At(r, "writeStatus") /\ s \in Rows
    /\ \A u \in Rows \ {s} : shipment'[u] = shipment[u]
    /\ SH!Present(shipment'[s]) <=> SH!Present(shipment[s])

\* Looking for a stage finds one of the shipment that is not completed, or ends.
LEMMA SHLook == ASSUME SHInv, NEW r \in Requests, SH!FindStage(r) PROVE SHLooked(r)
<1>1. request[r] \in [pc : {"findStage"}, on : Rows, stage : Parts]
      BY DEF SH!FindStage, SH!At, SH!TypeOK, SH!HandlersTypeOK, SH!Running, SH!Idle, SHInv
<1>2. [request[r] EXCEPT !.pc = "completeStage"]
         = [pc |-> "completeStage", on |-> request[r].on, stage |-> request[r].stage]
      BY <1>1
<1>3. SH!Present(stage[request[r].stage]) => stage[request[r].stage] # SH!Absent
      BY <1>1 DEF SH!Present
<1> QED BY <1>1, <1>2, <1>3 DEF SH!FindStage, SH!Goto, SH!Finish, SH!shipments, SHLooked,
           SHGoes, SHInv, SH!TypeOK, SH!HandlersTypeOK

\* Completing a stage is one completion of it, or finds it gone.
LEMMA SHComplete == ASSUME SHInv, NEW r \in Requests, SH!CompleteStage(r) PROVE SHCompleted(r)
<1>1. request[r].stage \in Parts /\ SH!At(r, "completeStage")
      BY DEF SH!CompleteStage, SHInv, SHOpen
<1>2. /\ UNCHANGED <<shipment, link, entries, raced>> /\ SHGoes(r, SH!Idle)
      BY DEF SH!CompleteStage, SH!Finish, SH!Goto, SHGoes, SHInv, SH!TypeOK, SH!HandlersTypeOK
<1>3. CASE ~SH!Present(stage[request[r].stage])
      BY <1>1, <1>2, <1>3 DEF SH!CompleteStage, SHCompleted
<1>4. CASE SH!Present(stage[request[r].stage])
  <2> DEFINE row == [stage[request[r].stage] EXCEPT !.completed = TRUE]
  <2>1. stage[request[r].stage] \in SH!StageRow
        BY <1>1, <1>4 DEF SHInv, SH!Present, SH!TypeOK
  <2>2. row \in SH!StageRow /\ row.completed /\ row.of = stage[request[r].stage].of
        BY <2>1 DEF SH!StageRow
  <2> HIDE DEF row
  <2>3. stage' = [stage EXCEPT ![request[r].stage] = row]
        BY <1>1, <1>4 DEF SH!CompleteStage, row
  <2>4. completions' = [completions EXCEPT ![request[r].stage] = @ + 1]
        BY <1>4 DEF SH!CompleteStage
  <2>5. SH!Present(row) /\ row # SH!Absent /\ stage[request[r].stage] # SH!Absent
        BY <2>1, <2>2, SHRows DEF SH!Present
  <2> QED BY <1>1, <1>2, <1>4, <2>2, <2>3, <2>4, <2>5 DEF SHCompleted, SHInv, SH!TypeOK
<1> QED BY <1>3, <1>4

\* Writing a status leaves every other shipment.
LEMMA SHWrite == ASSUME SHInv, NEW r \in Requests, SH!WriteStatus(r) PROVE SHWritten(r)
<1>1. request[r].on \in Rows /\ request[r].status \in SH!Statuses
  <2>1. request[r] \in SH!Running /\ request[r].pc = "writeStatus"
        BY DEF SH!WriteStatus, SH!At, SH!TypeOK, SH!HandlersTypeOK, SH!Idle, SHInv
  <2> QED BY <2>1 DEF SH!Running
<1> DEFINE row == [shipment[request[r].on] EXCEPT !.status = request[r].status]
<1>2. SH!Found(request[r].on) => row \in SH!ShipmentRow
      BY <1>1 DEF SHInv, SH!Found, SH!Present, SH!TypeOK, SH!ShipmentRow
<1>3. shipment' = IF SH!Found(request[r].on) THEN [shipment EXCEPT ![request[r].on] = row] ELSE shipment
      BY <1>1 DEF SH!WriteStatus
<1> HIDE DEF row
<1>4. SH!Found(request[r].on) => SH!Present(row)
      BY <1>2, SHRows DEF SH!Present
<1> QED BY <1>1, <1>3, <1>4 DEF SH!WriteStatus, SH!Finish, SH!Goto, SH!At, SH!Found, SHGoes,
           SHWritten, SHInv, SH!TypeOK, SH!HandlersTypeOK

\* Every step keeps what the handlers found.
LEMMA SHRestStep ==
    ASSUME SHInv, [SH!Next]_SH!vars
    PROVE  SHAlone' /\ SHDeletes' /\ SHCounted' /\ SHOpen'
<1> USE DEF SH!TypeOK, SH!HandlersTypeOK, SH!Statuses, SH!DeletableStatuses, SH!ShipmentRow,
        SH!StageRow, SH!LinkRow, SH!Running,
            SH!shipments, SH!Found, SH!Present, SH!At, SH!Start, SH!Once, SH!Goto, SH!Finish,
            SH!Absent, SH!Gone, SH!Idle,
            SHInv, SHAlone, SH!Handled, SHDeletes, SHCounted, SHOpen
<1>1. ASSUME NEW r \in Requests, NEW s \in Rows, SH!CreateShipment(r, s)
      PROVE  SHAlone' /\ SHDeletes' /\ SHCounted' /\ SHOpen'
      BY <1>1 DEF SH!CreateShipment
<1>2. ASSUME NEW r \in Requests, NEW s \in Rows, SH!BeginUpdate(r, s)
      PROVE  SHAlone' /\ SHDeletes' /\ SHCounted' /\ SHOpen'
      BY <1>2 DEF SH!BeginUpdate
<1>3. ASSUME NEW r \in Requests, NEW s \in Rows, SH!BeginDelete(r, s)
      PROVE  SHAlone' /\ SHDeletes' /\ SHCounted' /\ SHOpen'
      BY <1>3 DEF SH!BeginDelete
<1>4. ASSUME NEW r \in Requests, NEW s \in Rows, SH!BeginAdd(r, s)
      PROVE  SHAlone' /\ SHDeletes' /\ SHCounted' /\ SHOpen'
      BY <1>4 DEF SH!BeginAdd
<1>5. ASSUME NEW r \in Requests, NEW s \in Rows, NEW u \in SH!Statuses, SH!BeginChangeStatus(r, s, u)
      PROVE  SHAlone' /\ SHDeletes' /\ SHCounted' /\ SHOpen'
      BY <1>5 DEF SH!BeginChangeStatus
<1>6. ASSUME NEW r \in Requests, NEW s \in Rows, NEW t \in Parts, SH!BeginCompleteStage(r, s, t)
      PROVE  SHAlone' /\ SHDeletes' /\ SHCounted' /\ SHOpen'
      BY <1>6 DEF SH!BeginCompleteStage
<1>7. ASSUME NEW r \in Requests, NEW s \in Rows, NEW e \in Others, SH!BeginLink(r, s, e)
      PROVE  SHAlone' /\ SHDeletes' /\ SHCounted' /\ SHOpen'
      BY <1>7 DEF SH!BeginLink
<1>8. ASSUME NEW r \in Requests, NEW s \in Rows, NEW k \in Contents, SH!BeginUnlink(r, s, k)
      PROVE  SHAlone' /\ SHDeletes' /\ SHCounted' /\ SHOpen'
      BY <1>8 DEF SH!BeginUnlink
<1>9. ASSUME NEW r \in Requests, NEW t \in Parts, SH!InsertStage(r, t)
      PROVE  SHAlone' /\ SHDeletes' /\ SHCounted' /\ SHOpen'
  <2>1. SHAlone'
        BY <1>9 DEF SH!InsertStage
  <2>2. SHDeletes'
        BY <1>9 DEF SH!InsertStage
  <2>3. SHCounted'
        BY <1>9 DEF SH!InsertStage
  <2>4. SHOpen'
        BY <1>9 DEF SH!InsertStage
  <2> QED BY <2>1, <2>2, <2>3, <2>4
<1>10. ASSUME NEW r \in Requests, NEW k \in Contents, SH!InsertLink(r, k)
      PROVE  SHAlone' /\ SHDeletes' /\ SHCounted' /\ SHOpen'
      BY <1>10 DEF SH!InsertLink
<1>11. ASSUME NEW r \in Requests, SH!UpdateShipment(r)
      PROVE  SHAlone' /\ SHDeletes' /\ SHCounted' /\ SHOpen'
      BY <1>11 DEF SH!UpdateShipment
<1>12. ASSUME NEW r \in Requests, SH!DeleteShipment(r)
      PROVE  SHAlone' /\ SHDeletes' /\ SHCounted' /\ SHOpen'
      BY <1>12 DEF SH!DeleteShipment
<1>13. ASSUME NEW r \in Requests, SH!WriteStatus(r)
      PROVE  SHAlone' /\ SHDeletes' /\ SHCounted' /\ SHOpen'
  <2> HIDE DEF SH!TypeOK, SH!HandlersTypeOK, SH!Statuses, SH!DeletableStatuses, SH!ShipmentRow,
           SH!StageRow, SH!LinkRow, SH!Running,
               SH!shipments, SH!Found, SH!Present, SH!At, SH!Start, SH!Once, SH!Goto, SH!Finish,
               SH!Absent, SH!Gone, SH!Idle,
               SHAlone, SH!Handled, SHDeletes, SHCounted, SHOpen
  <2>1. SHWritten(r)
        BY <1>13, SHWrite
  <2>2. SHAlone'
        BY <2>1, SHOn DEF SHWritten, SHGoes, SHInv, SHAlone, SH!At, SH!Idle
  <2>3. SHDeletes'
        BY <2>1, SHOn DEF SHWritten, SHGoes, SHInv, SHAlone, SHDeletes, SH!Found, SH!At, SH!Idle
  <2>4. SHCounted'
        BY <2>1, SHOn DEF SHWritten, SHGoes, SHInv, SHCounted, SHOpen, SHAlone, SH!At, SH!Idle
  <2>5. SHOpen'
        BY <2>1, SHOn DEF SHWritten, SHGoes, SHInv, SHAlone, SHOpen, SH!At, SH!Idle
  <2> QED BY <2>2, <2>3, <2>4, <2>5
<1>14. ASSUME NEW r \in Requests, SH!InsertComment(r)
      PROVE  SHAlone' /\ SHDeletes' /\ SHCounted' /\ SHOpen'
      BY <1>14 DEF SH!InsertComment
<1>15. ASSUME NEW r \in Requests, SH!FindStage(r)
      PROVE  SHAlone' /\ SHDeletes' /\ SHCounted' /\ SHOpen'
  <2> HIDE DEF SH!TypeOK, SH!HandlersTypeOK, SH!Statuses, SH!DeletableStatuses, SH!ShipmentRow,
           SH!StageRow, SH!LinkRow, SH!Running,
               SH!shipments, SH!Found, SH!Present, SH!At, SH!Start, SH!Once, SH!Goto, SH!Finish,
               SH!Absent, SH!Gone, SH!Idle,
               SHAlone, SH!Handled, SHDeletes, SHCounted, SHOpen
  <2>1. SHLooked(r)
        BY <1>15, SHLook
  <2>2. SHAlone'
        BY <2>1, SHOn DEF SHLooked, SHGoes, SHInv, SHAlone, SH!At, SH!Idle
  <2>3. SHDeletes'
        BY <2>1, SHOn DEF SHLooked, SHGoes, SHInv, SHAlone, SHDeletes, SH!Found, SH!At, SH!Idle
  <2>4. SHCounted'
        BY <2>1, SHOn DEF SHLooked, SHGoes, SHInv, SHCounted, SHOpen, SHAlone, SH!At, SH!Idle
  <2>5. SHOpen'
        BY <2>1, SHOn DEF SHLooked, SHGoes, SHInv, SHAlone, SHOpen, SH!At, SH!Idle
  <2> QED BY <2>2, <2>3, <2>4, <2>5
<1>16. ASSUME NEW r \in Requests, SH!CompleteStage(r)
      PROVE  SHAlone' /\ SHDeletes' /\ SHCounted' /\ SHOpen'
  <2> HIDE DEF SH!TypeOK, SH!HandlersTypeOK, SH!Statuses, SH!DeletableStatuses, SH!ShipmentRow,
           SH!StageRow, SH!LinkRow, SH!Running,
               SH!shipments, SH!Found, SH!Present, SH!At, SH!Start, SH!Once, SH!Goto, SH!Finish,
               SH!Absent, SH!Gone, SH!Idle,
               SHAlone, SH!Handled, SHDeletes, SHCounted, SHOpen
  <2>1. SHCompleted(r)
        BY <1>16, SHComplete
  <2>2. SHAlone'
        BY <2>1, SHOn DEF SHCompleted, SHGoes, SHInv, SHAlone, SH!At, SH!Idle
  <2>3. SHDeletes'
        BY <2>1, SHOn DEF SHCompleted, SHGoes, SHInv, SHAlone, SHDeletes, SH!Found, SH!At,
           SH!Idle
  <2>4. SHCounted'
        BY <2>1, SHOn DEF SHCompleted, SHGoes, SHInv, SHCounted, SHOpen, SHAlone, SH!At, SH!Idle
  <2>5. SHOpen'
        BY <2>1, SHOn DEF SHCompleted, SHGoes, SHInv, SHAlone, SHOpen, SH!At, SH!Idle
  <2> QED BY <2>2, <2>3, <2>4, <2>5
<1>17. ASSUME NEW r \in Requests, SH!DeleteLink(r)
      PROVE  SHAlone' /\ SHDeletes' /\ SHCounted' /\ SHOpen'
      BY <1>17 DEF SH!DeleteLink
<1>18. ASSUME NEW r \in Requests, SH!Abort(r)
      PROVE  SHAlone' /\ SHDeletes' /\ SHCounted' /\ SHOpen'
      BY <1>18 DEF SH!Abort, SH!Stop
<1>19. ASSUME NEW e \in Others, SH!DeleteEntry(e)
      PROVE  SHAlone' /\ SHDeletes' /\ SHCounted' /\ SHOpen'
      BY <1>19 DEF SH!DeleteEntry
<1>20. CASE UNCHANGED SH!vars
      BY <1>20 DEF SH!vars
<1> HIDE DEF SH!TypeOK, SH!HandlersTypeOK, SH!Statuses, SH!DeletableStatuses, SH!ShipmentRow,
         SH!StageRow, SH!LinkRow, SH!Running,
             SH!shipments, SH!Found, SH!Present, SH!At, SH!Start, SH!Once, SH!Goto, SH!Finish,
             SH!Absent, SH!Gone, SH!Idle,
             SHInv, SHAlone, SH!Handled, SHDeletes, SHCounted, SHOpen
<1> QED BY <1>1, <1>2, <1>3, <1>4, <1>5, <1>6, <1>7, <1>8, <1>9, <1>10, <1>11, <1>12, <1>13,
           <1>14, <1>15, <1>16, <1>17, <1>18, <1>19, <1>20 DEF SH!Next

\* Every step keeps the links.
LEMMA SHLinkStep ==
    ASSUME SHInv, [SH!Next]_SH!vars
    PROVE  SHLinks' /\ SHPairs'
<1> USE DEF SH!TypeOK, SH!HandlersTypeOK, SH!Statuses, SH!DeletableStatuses, SH!ShipmentRow,
        SH!StageRow, SH!LinkRow, SH!Running,
            SH!shipments, SH!Found, SH!Present, SH!At, SH!Start, SH!Once, SH!Goto, SH!Finish,
            SH!Absent, SH!Gone, SH!Idle,
            SHInv, SHLinks, SHPairs
<1>1. ASSUME NEW r \in Requests, NEW s \in Rows, SH!CreateShipment(r, s)
      PROVE  SHLinks' /\ SHPairs'
      BY <1>1 DEF SH!CreateShipment
<1>2. ASSUME NEW r \in Requests, NEW s \in Rows, SH!BeginUpdate(r, s)
      PROVE  SHLinks' /\ SHPairs'
      BY <1>2 DEF SH!BeginUpdate
<1>3. ASSUME NEW r \in Requests, NEW s \in Rows, SH!BeginDelete(r, s)
      PROVE  SHLinks' /\ SHPairs'
      BY <1>3 DEF SH!BeginDelete
<1>4. ASSUME NEW r \in Requests, NEW s \in Rows, SH!BeginAdd(r, s)
      PROVE  SHLinks' /\ SHPairs'
      BY <1>4 DEF SH!BeginAdd
<1>5. ASSUME NEW r \in Requests, NEW s \in Rows, NEW u \in SH!Statuses, SH!BeginChangeStatus(r, s, u)
      PROVE  SHLinks' /\ SHPairs'
      BY <1>5 DEF SH!BeginChangeStatus
<1>6. ASSUME NEW r \in Requests, NEW s \in Rows, NEW t \in Parts, SH!BeginCompleteStage(r, s, t)
      PROVE  SHLinks' /\ SHPairs'
      BY <1>6 DEF SH!BeginCompleteStage
<1>7. ASSUME NEW r \in Requests, NEW s \in Rows, NEW e \in Others, SH!BeginLink(r, s, e)
      PROVE  SHLinks' /\ SHPairs'
      BY <1>7 DEF SH!BeginLink
<1>8. ASSUME NEW r \in Requests, NEW s \in Rows, NEW k \in Contents, SH!BeginUnlink(r, s, k)
      PROVE  SHLinks' /\ SHPairs'
      BY <1>8 DEF SH!BeginUnlink
<1>9. ASSUME NEW r \in Requests, NEW t \in Parts, SH!InsertStage(r, t)
      PROVE  SHLinks' /\ SHPairs'
      BY <1>9 DEF SH!InsertStage
<1>10. ASSUME NEW r \in Requests, NEW k \in Contents, SH!InsertLink(r, k)
      PROVE  SHLinks' /\ SHPairs'
      BY <1>10 DEF SH!InsertLink
<1>11. ASSUME NEW r \in Requests, SH!UpdateShipment(r)
      PROVE  SHLinks' /\ SHPairs'
      BY <1>11 DEF SH!UpdateShipment
<1>12. ASSUME NEW r \in Requests, SH!DeleteShipment(r)
      PROVE  SHLinks' /\ SHPairs'
      BY <1>12 DEF SH!DeleteShipment
<1>13. ASSUME NEW r \in Requests, SH!WriteStatus(r)
      PROVE  SHLinks' /\ SHPairs'
      BY <1>13 DEF SH!WriteStatus
<1>14. ASSUME NEW r \in Requests, SH!InsertComment(r)
      PROVE  SHLinks' /\ SHPairs'
      BY <1>14 DEF SH!InsertComment
<1>15. ASSUME NEW r \in Requests, SH!FindStage(r)
      PROVE  SHLinks' /\ SHPairs'
      BY <1>15 DEF SH!FindStage
<1>16. ASSUME NEW r \in Requests, SH!CompleteStage(r)
      PROVE  SHLinks' /\ SHPairs'
      BY <1>16 DEF SH!CompleteStage
<1>17. ASSUME NEW r \in Requests, SH!DeleteLink(r)
      PROVE  SHLinks' /\ SHPairs'
      BY <1>17 DEF SH!DeleteLink
<1>18. ASSUME NEW r \in Requests, SH!Abort(r)
      PROVE  SHLinks' /\ SHPairs'
      BY <1>18 DEF SH!Abort, SH!Stop
<1>19. ASSUME NEW e \in Others, SH!DeleteEntry(e)
      PROVE  SHLinks' /\ SHPairs'
      BY <1>19 DEF SH!DeleteEntry
<1>20. CASE UNCHANGED SH!vars
      BY <1>20 DEF SH!vars
<1> HIDE DEF SH!TypeOK, SH!HandlersTypeOK, SH!Statuses, SH!DeletableStatuses, SH!ShipmentRow,
         SH!StageRow, SH!LinkRow, SH!Running,
             SH!shipments, SH!Found, SH!Present, SH!At, SH!Start, SH!Once, SH!Goto, SH!Finish,
             SH!Absent, SH!Gone, SH!Idle,
             SHInv, SHLinks, SHPairs
<1> QED BY <1>1, <1>2, <1>3, <1>4, <1>5, <1>6, <1>7, <1>8, <1>9, <1>10, <1>11, <1>12, <1>13,
           <1>14, <1>15, <1>16, <1>17, <1>18, <1>19, <1>20 DEF SH!Next

\* What is under way stays.
LEMMA SHStaysStep ==
    ASSUME SHInv, [SH!Next]_SH!vars
    PROVE  SHStays
<1> USE DEF SH!TypeOK, SH!HandlersTypeOK, SH!Statuses, SH!DeletableStatuses, SH!ShipmentRow,
        SH!StageRow, SH!LinkRow, SH!Running,
            SH!shipments, SH!Found, SH!Present, SH!At, SH!Start, SH!Once, SH!Goto, SH!Finish,
            SH!Absent, SH!Gone, SH!Idle,
            SHInv, SHDeletes, SHStays
<1>1. ASSUME NEW r \in Requests, NEW s \in Rows, SH!CreateShipment(r, s)
      PROVE  SHStays
      BY <1>1 DEF SH!CreateShipment
<1>2. ASSUME NEW r \in Requests, NEW s \in Rows, SH!BeginUpdate(r, s)
      PROVE  SHStays
      BY <1>2 DEF SH!BeginUpdate
<1>3. ASSUME NEW r \in Requests, NEW s \in Rows, SH!BeginDelete(r, s)
      PROVE  SHStays
      BY <1>3 DEF SH!BeginDelete
<1>4. ASSUME NEW r \in Requests, NEW s \in Rows, SH!BeginAdd(r, s)
      PROVE  SHStays
      BY <1>4 DEF SH!BeginAdd
<1>5. ASSUME NEW r \in Requests, NEW s \in Rows, NEW u \in SH!Statuses, SH!BeginChangeStatus(r, s, u)
      PROVE  SHStays
      BY <1>5 DEF SH!BeginChangeStatus
<1>6. ASSUME NEW r \in Requests, NEW s \in Rows, NEW t \in Parts, SH!BeginCompleteStage(r, s, t)
      PROVE  SHStays
      BY <1>6 DEF SH!BeginCompleteStage
<1>7. ASSUME NEW r \in Requests, NEW s \in Rows, NEW e \in Others, SH!BeginLink(r, s, e)
      PROVE  SHStays
      BY <1>7 DEF SH!BeginLink
<1>8. ASSUME NEW r \in Requests, NEW s \in Rows, NEW k \in Contents, SH!BeginUnlink(r, s, k)
      PROVE  SHStays
      BY <1>8 DEF SH!BeginUnlink
<1>9. ASSUME NEW r \in Requests, NEW t \in Parts, SH!InsertStage(r, t)
      PROVE  SHStays
      BY <1>9 DEF SH!InsertStage
<1>10. ASSUME NEW r \in Requests, NEW k \in Contents, SH!InsertLink(r, k)
      PROVE  SHStays
      BY <1>10 DEF SH!InsertLink
<1>11. ASSUME NEW r \in Requests, SH!UpdateShipment(r)
      PROVE  SHStays
      BY <1>11 DEF SH!UpdateShipment
<1>12. ASSUME NEW r \in Requests, SH!DeleteShipment(r)
      PROVE  SHStays
      BY <1>12 DEF SH!DeleteShipment
<1>13. ASSUME NEW r \in Requests, SH!WriteStatus(r)
      PROVE  SHStays
      BY <1>13 DEF SH!WriteStatus
<1>14. ASSUME NEW r \in Requests, SH!InsertComment(r)
      PROVE  SHStays
      BY <1>14 DEF SH!InsertComment
<1>15. ASSUME NEW r \in Requests, SH!FindStage(r)
      PROVE  SHStays
      BY <1>15 DEF SH!FindStage
<1>16. ASSUME NEW r \in Requests, SH!CompleteStage(r)
      PROVE  SHStays
      BY <1>16 DEF SH!CompleteStage
<1>17. ASSUME NEW r \in Requests, SH!DeleteLink(r)
      PROVE  SHStays
      BY <1>17 DEF SH!DeleteLink
<1>18. ASSUME NEW r \in Requests, SH!Abort(r)
      PROVE  SHStays
      BY <1>18 DEF SH!Abort, SH!Stop
<1>19. ASSUME NEW e \in Others, SH!DeleteEntry(e)
      PROVE  SHStays
      BY <1>19 DEF SH!DeleteEntry
<1>20. CASE UNCHANGED SH!vars
      BY <1>20 DEF SH!vars
<1> HIDE DEF SH!TypeOK, SH!HandlersTypeOK, SH!Statuses, SH!DeletableStatuses, SH!ShipmentRow,
         SH!StageRow, SH!LinkRow, SH!Running,
             SH!shipments, SH!Found, SH!Present, SH!At, SH!Start, SH!Once, SH!Goto, SH!Finish,
             SH!Absent, SH!Gone, SH!Idle,
             SHInv, SHDeletes, SHStays
<1> QED BY <1>1, <1>2, <1>3, <1>4, <1>5, <1>6, <1>7, <1>8, <1>9, <1>10, <1>11, <1>12, <1>13,
           <1>14, <1>15, <1>16, <1>17, <1>18, <1>19, <1>20 DEF SH!Next

\* A stage is completed once, and an entry linked once.
LEMMA SHOnce == SHInv => SH!StageCompletedOnce /\ SH!LinkedOnce
BY DEF SHInv, SHCounted, SHLinks, SHPairs, SH!StageCompletedOnce, SH!LinkedOnce

\* Every step keeps the invariant.
LEMMA SHInvStep == ASSUME SHInv, [SH!Next]_SH!vars PROVE SHInv'
BY SHTypeStep, SHRestStep, SHLinkStep DEF SHInv

(***************************************************************************)
(* The services together.                                                  *)
(***************************************************************************)

\* The handlers and the rows of the active service are as its invariant says.
ServicesInv ==
    /\ active = "EDocuments" => EDInv
    /\ active = "Valuation" => VAInv
    /\ active = "Operations" => OPInv
    /\ active = "OperationFinance" => OFInv
    /\ active = "Examinations" => EXInv
    /\ active = "Warehouse" => WHInv
    /\ active = "Shipments" => SHInv
    /\ active = "ClientAccounts" => CAInv
    /\ active = "ExpenseAccounts" => XAInv
    /\ active = "Documents" => DOInv
    /\ active = "Checklists" => CHInv
    /\ active = "Deliveries" => DEInv
    /\ active = "Jobs" => JOInv
    /\ active = "Contacts" => CNInv
    /\ active = "Settings" => SEInv
    /\ active = "Blog" => BLInv
    /\ active = "CupoLetters" => CUInv

\* The invariant holds at first.
LEMMA ServicesStart == Init => ServicesInv
BY EDStart, VAStart, OPStart, OFStart, EXStart, WHStart, SHStart, CAStart, XAStart, DOStart,
   CHStart, DEStart, JOStart, CNStart, SEStart, BLStart, CUInitInv DEF Init, ServicesInv

\* A service takes its own steps while it is active, and none while it is not.
LEMMA OwnSteps ==
    ASSUME [Next]_vars
    PROVE  /\ active' = active
           /\ active = "EDocuments" => [ED!Next]_ED!vars
           /\ active = "Valuation" => [VA!Next]_VA!vars
           /\ active = "Operations" => [OP!Next]_OP!vars
           /\ active = "OperationFinance" => [OF!Next]_OF!vars
           /\ active = "Examinations" => [EX!Next]_EX!vars
           /\ active = "Warehouse" => [WH!Next]_WH!vars
           /\ active = "Shipments" => [SH!Next]_SH!vars
           /\ active = "ClientAccounts" => [CA!Next]_CA!vars
           /\ active = "ExpenseAccounts" => [XA!Next]_XA!vars
           /\ active = "Documents" => [DO!Next]_DO!vars
           /\ active = "Checklists" => [CH!Next]_CH!vars
           /\ active = "Deliveries" => [DE!Next]_DE!vars
           /\ active = "Jobs" => [JO!Next]_JO!vars
           /\ active = "Contacts" => [CN!Next]_CN!vars
           /\ active = "Settings" => [SE!Next]_SE!vars
           /\ active = "Blog" => [BL!Next]_BL!vars
           /\ active = "CupoLetters" => [CU!Next]_CU!vars
<1>1. CASE UNCHANGED vars
      BY <1>1 DEF vars, handlers, edocuments, valuations, operations, finance, exams, stores,
         shipments, accounts, expenses, files, checklists, deliveries, jobs, contacts, settings,
         quotas,
             ED!vars, VA!vars, OP!vars, OF!vars, EX!vars, WH!vars, SH!vars, CA!vars, XA!vars,
             DO!vars, CH!vars, DE!vars, JO!vars, CN!vars, SE!vars, BL!vars, CU!vars
<1>2. CASE Next
      BY <1>2 DEF Next
<1> QED BY <1>1, <1>2

\* Every step keeps the invariant.
LEMMA ServicesStep == ASSUME ServicesInv, [Next]_vars PROVE ServicesInv'
<1>1. active' = active
      BY OwnSteps
<1>2. active = "EDocuments" => EDInv'
     BY OwnSteps, EDInvStep DEF ServicesInv
<1>3. active = "Valuation" => VAInv'
     BY OwnSteps, VAInvStep DEF ServicesInv
<1>4. active = "Operations" => OPInv'
     BY OwnSteps, OPInvStep DEF ServicesInv
<1>5. active = "OperationFinance" => OFInv'
     BY OwnSteps, OFInvStep DEF ServicesInv
<1>6. active = "Examinations" => EXInv'
     BY OwnSteps, EXInvStep DEF ServicesInv
<1>7. active = "Warehouse" => WHInv'
     BY OwnSteps, WHInvStep DEF ServicesInv
<1>8. active = "Shipments" => SHInv'
     BY OwnSteps, SHInvStep DEF ServicesInv
<1>9. active = "ClientAccounts" => CAInv'
     BY OwnSteps, CAInvStep DEF ServicesInv
<1>10. active = "ExpenseAccounts" => XAInv'
     BY OwnSteps, XAInvStep DEF ServicesInv
<1>11. active = "Documents" => DOInv'
     BY OwnSteps, DOInvStep DEF ServicesInv
<1>12. active = "Checklists" => CHInv'
     BY OwnSteps, CHInvStep DEF ServicesInv
<1>13. active = "Deliveries" => DEInv'
     BY OwnSteps, DEInvStep DEF ServicesInv
<1>14. active = "Jobs" => JOInv'
     BY OwnSteps, JOInvStep DEF ServicesInv
<1>15. active = "Contacts" => CNInv'
     BY OwnSteps, CNInvStep DEF ServicesInv
<1>16. active = "Settings" => SEInv'
     BY OwnSteps, SEInvStep DEF ServicesInv
<1>17. active = "Blog" => BLInv'
     BY OwnSteps, BLInvStep DEF ServicesInv
<1>18. active = "CupoLetters" => CUInv'
     BY OwnSteps, CUInvStep DEF ServicesInv
<1> QED BY <1>1, <1>2, <1>3, <1>4, <1>5, <1>6, <1>7, <1>8, <1>9, <1>10, <1>11, <1>12, <1>13,
           <1>14, <1>15, <1>16, <1>17, <1>18 DEF ServicesInv

\* The invariant holds in every reachable state.
LEMMA ServicesAlways == Spec => []ServicesInv
<1>1. ServicesInv /\ [Next]_vars => ServicesInv'
      BY ServicesStep
<1> QED BY <1>1, ServicesStart, PTL DEF Spec

(***************************************************************************)
(* Theorems.                                                               *)
(***************************************************************************)

\* Every row and every handler is of its type, in all seventeen services.
THEOREM TypesCorrect == Spec => []TypesOK
<1>1. ServicesInv => TypesOK
      BY DEF ServicesInv, TypesOK, EDInv, VAInv, OPInv, OFInv, EXInv, WHInv, SHInv, CAInv,
         XAInv, DOInv, CHInv, DEInv, JOInv, CNInv, SEInv, BLInv, CUInv
<1> QED BY <1>1, ServicesAlways, PTL

\* A status tells what happened (changeStatus of the services, the handlers of jobs,
\* registerUsage): the dates, the statuses that lead there and the evidence agree with it.
\* For e-documents, declarations, operations and movements of goods that holds however the
\* handlers interleave or die; posts and letters that two requests handled at once are
\* excepted, and so are jobs whose last writes failed or whose handler was stopped.
THEOREM StatusesCorrect == Spec => []StatusesTell
<1>1. ServicesInv => StatusesTell
      BY JOTells, CUTells DEF ServicesInv, StatusesTell, EDInv, VAInv, OPInv, WHInv, BLInv
<1> QED BY <1>1, ServicesAlways, PTL

\* Rows that follow each other have no gap and no repetition, unless two requests
\* handled their owner at once or one died between its writes (changeStatus of
\* operations, recordTransaction, createRectification, addVersion).
THEOREM FollowsCorrect == Spec => []RowsFollowOn
<1>1. ServicesInv => RowsFollowOn
      BY OPLeading, CATells, DONumbered DEF ServicesInv, RowsFollowOn, EXInv
<1> QED BY <1>1, ServicesAlways, PTL

\* A derived column agrees with its rows when no handler is under way, although it is
\* recalculated in statements of its own.
THEOREM DerivedCorrect == Spec => []DerivedAgree
<1>1. ServicesInv => DerivedAgree
      BY CATells, XAAgrees, CHTells DEF ServicesInv, DerivedAgree, DEInv, SEInv
<1> QED BY <1>1, ServicesAlways, PTL

\* Nothing refers to what is not there, although handlers check first and write later.
THEOREM ReferencesCorrect == Spec => []NothingDangles
<1>1. ServicesInv => NothingDangles
      BY DONumbered, JOTells, CHTells DEF ServicesInv, NothingDangles, WHInv, OPInv
<1> QED BY <1>1, ServicesAlways, PTL

\* What may happen once happens once, unless two requests handled its row at once.
THEOREM OnceCorrect == Spec => []DoneOnce
<1>1. ServicesInv => DoneOnce
      BY EXFiledOnce, SHOnce, DONumbered, CNChosen, SEOnce DEF ServicesInv, DoneOnce, SEInv
<1> QED BY <1>1, ServicesAlways, PTL

\* A service that is not active leaves its rows alone.
LEMMA OthersRest ==
    ASSUME [Next]_vars
    PROVE
           /\ active # "EDocuments" => UNCHANGED edocuments
           /\ active # "Valuation" => UNCHANGED valuations
           /\ active # "ExpenseAccounts" => UNCHANGED expenses
           /\ active # "Examinations" => UNCHANGED exams
           /\ active # "Shipments" => UNCHANGED shipments
           /\ active # "OperationFinance" => UNCHANGED finance
           /\ active # "ClientAccounts" => UNCHANGED accounts
<1>1. CASE UNCHANGED vars
      BY <1>1 DEF vars
<1>2. CASE Next
      BY <1>2 DEF Next
<1> QED BY <1>1, <1>2

\* No step of the services breaks it.
LEMMA AlwaysEDFrozen == ASSUME ServicesInv, [Next]_vars PROVE EDFrozen
<1>1. CASE active = "EDocuments"
      BY <1>1, OwnSteps, EDFrozenStep DEF ServicesInv
<1>2. CASE active # "EDocuments"
      BY <1>2, OthersRest DEF edocuments, EDFrozen, ED!Found, ED!Present
<1> QED BY <1>1, <1>2

\* No step of the services breaks it.
LEMMA AlwaysVAFrozen == ASSUME ServicesInv, [Next]_vars PROVE VAFrozen
<1>1. CASE active = "Valuation"
      BY <1>1, OwnSteps, VAFrozenStep DEF ServicesInv
<1>2. CASE active # "Valuation"
      BY <1>2, OthersRest DEF valuations, VAFrozen, VA!Found, VA!PartOf, VA!Present
<1> QED BY <1>1, <1>2

\* No step of the services breaks it.
LEMMA AlwaysXAFixed == ASSUME ServicesInv, [Next]_vars PROVE XAFixed
<1>1. CASE active = "ExpenseAccounts"
      BY <1>1, OwnSteps, XAFixedStep DEF ServicesInv
<1>2. CASE active # "ExpenseAccounts"
      BY <1>2, OthersRest DEF expenses, XAFixed, XA!Found, XA!Present, XA!ItemsOf
<1> QED BY <1>1, <1>2

\* No step of the services breaks it.
LEMMA AlwaysEXStays == ASSUME ServicesInv, [Next]_vars PROVE EXStays
<1>1. CASE active = "Examinations"
      BY <1>1, OwnSteps, EXStaysStep DEF ServicesInv
<1>2. CASE active # "Examinations"
      BY <1>2, OthersRest DEF exams, EXStays, EX!Is, EX!Present
<1> QED BY <1>1, <1>2

\* No step of the services breaks it.
LEMMA AlwaysSHStays == ASSUME ServicesInv, [Next]_vars PROVE SHStays
<1>1. CASE active = "Shipments"
      BY <1>1, OwnSteps, SHStaysStep DEF ServicesInv
<1>2. CASE active # "Shipments"
      BY <1>2, OthersRest DEF shipments, SHStays, SH!Found, SH!Present
<1> QED BY <1>1, <1>2

\* No step of the services breaks it.
LEMMA AlwaysOFMoment == ASSUME ServicesInv, [Next]_vars PROVE OFMoment
<1>1. CASE active = "OperationFinance"
      BY <1>1, OwnSteps, OFMomentStep DEF ServicesInv
<1>2. CASE active # "OperationFinance"
      BY <1>2, OthersRest DEF finance, OFMoment
<1> QED BY <1>1, <1>2

\* No step of the services breaks it.
LEMMA AlwaysCATwice == ASSUME ServicesInv, [Next]_vars PROVE CATwice
<1>1. CASE active = "ClientAccounts"
      BY <1>1, OwnSteps, CATwiceStep DEF ServicesInv
<1>2. CASE active # "ClientAccounts"
      BY <1>2, OthersRest DEF accounts, CATwice
<1> QED BY <1>1, <1>2

\* What was decided stays: no step undoes what EDITABLE_STATUSES and the tables of
\* transitions protect, unless two requests handled the row at once.
THEOREM DecidedCorrect == Spec => DecidedStays
<1>1. ServicesInv /\ [Next]_vars => [EDFrozen]_ED!vars
      BY AlwaysEDFrozen
<1>2. Spec => ED!FrozenOnceSent
      BY <1>1, ServicesAlways, PTL DEF Spec, ED!FrozenOnceSent, EDFrozen
<1>3. ServicesInv /\ [Next]_vars => [VAFrozen]_VA!vars
      BY AlwaysVAFrozen
<1>4. Spec => VA!FrozenOnceDeclared
      BY <1>3, ServicesAlways, PTL DEF Spec, VA!FrozenOnceDeclared, VAFrozen
<1>5. ServicesInv /\ [Next]_vars => [XAFixed]_XA!vars
      BY AlwaysXAFixed
<1>6. Spec => XA!ApprovedIsFixed
      BY <1>5, ServicesAlways, PTL DEF Spec, XA!ApprovedIsFixed, XAFixed
<1>7. ServicesInv /\ [Next]_vars => [EXStays]_EX!vars
      BY AlwaysEXStays
<1>8. Spec => EX!ResultsStay
      BY <1>7, ServicesAlways, PTL DEF Spec, EX!ResultsStay, EXStays
<1>9. ServicesInv /\ [Next]_vars => [SHStays]_SH!vars
      BY AlwaysSHStays
<1>10. Spec => SH!UnderWayStays
      BY <1>9, ServicesAlways, PTL DEF Spec, SH!UnderWayStays, SHStays
<1> QED BY <1>2, <1>4, <1>6, <1>8, <1>10 DEF DecidedStays

\* The account of an operation is that of one moment and says PAID only when nothing is
\* left to pay, whatever the error of its sums; an operation that is paid it calls so,
\* unless two sums are equal and one of them has an error (getSummary).  A statement of
\* a client counts its own period twice (generateStatement).
THEOREM SummariesCorrect == Spec => SummariesTell
<1>1. ServicesInv /\ [Next]_vars => [OFMoment]_OF!vars
      BY AlwaysOFMoment
<1>2. Spec => OF!AccountOfOneMoment
      BY <1>1, ServicesAlways, PTL DEF Spec, OF!AccountOfOneMoment, OFMoment
<1>3. ServicesInv /\ [Next]_vars => [CATwice]_CA!vars
      BY AlwaysCATwice
<1>4. Spec => CA!StatementCountsTwice
      BY <1>3, ServicesAlways, PTL DEF Spec, CA!StatementCountsTwice, CATwice
<1> QED BY <1>2, <1>4 DEF SummariesTell
=============================================================================
