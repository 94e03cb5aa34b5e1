----------------------------- MODULE Shipments -----------------------------
(***************************************************************************)
(* Shipments, their stages, comments and links to customs entries:         *)
(* modules/customs-operations.                                             *)
(*                                                                         *)
(* Every handler reads the shipment first and writes by id later; the      *)
(* database deletes what belongs to a shipment together with it.           *)
(***************************************************************************)
EXTENDS Handlers

CONSTANTS
    Ids,        \* ids of shipments
    Stages,     \* ids of stages
    Links,      \* ids of links
    Entries     \* ids of customs entries

VARIABLES
    shipment,       \* shipment[s]: the row of shipments
    stage,          \* stage[t]: the row of shipment_stages
    link,           \* link[k]: the row of shipment_entries
    commented,      \* shipments with a row in shipment_comments
    entries,        \* entries in the database
    completions     \* history: completions[t], how often stage t was completed

shipments == <<shipment, stage, link, commented, entries, completions>>
vars == <<shipment, stage, link, commented, entries, completions, request, started, raced>>

\* shipmentStatusEnum; ACTIVE stands for the eleven statuses between the two,
\* which no handler tells apart
Statuses == {"PENDING", "ACTIVE", "CANCELLED"}
DeletableStatuses == {"PENDING", "CANCELLED"}

ShipmentRow == [status : Statuses]
\* completed: completedAt is not null
StageRow == [of : Ids, completed : BOOLEAN]
LinkRow == [of : Ids, entry : Entries]
Running ==
    [pc : {"updateShipment", "deleteShipment", "insertStage", "insertComment"}, on : Ids]
    \cup [pc : {"writeStatus"}, on : Ids, status : Statuses]
    \cup [pc : {"findStage", "completeStage"}, on : Ids, stage : Stages]
    \cup [pc : {"insertLink"}, on : Ids, entry : Entries]
    \cup [pc : {"deleteLink"}, on : Ids, link : Links]

TypeOK ==
    /\ shipment \in [Ids -> ShipmentRow \cup {Absent, Gone}]
    /\ stage \in [Stages -> StageRow \cup {Absent, Gone}]
    /\ link \in [Links -> LinkRow \cup {Absent, Gone}]
    /\ commented \subseteq Ids
    /\ entries \subseteq Entries
    /\ completions \in [Stages -> Nat]
    /\ HandlersTypeOK(Running, Ids)

Init ==
    /\ shipment = [s \in Ids |-> Absent]
    /\ stage = [t \in Stages |-> Absent]
    /\ link = [k \in Links |-> Absent]
    /\ commented = {}
    /\ entries = Entries
    /\ completions = [t \in Stages |-> 0]
    /\ HandlersInit

\* getShipmentById
Found(s) == Present(shipment[s])

CreateShipment(r, s) ==
    /\ shipment[s] = Absent
    /\ shipment' = [shipment EXCEPT ![s] = [status |-> "PENDING"]]
    /\ Once(r, s)
    /\ UNCHANGED <<stage, link, commented, entries, completions>>

\* updateShipment edits columns that no property is about.
BeginUpdate(r, s) ==
    /\ Found(s)
    /\ Start(r, [pc |-> "updateShipment", on |-> s])
    /\ UNCHANGED shipments

UpdateShipment(r) ==
    /\ At(r, "updateShipment")
    /\ Finish(r)
    /\ UNCHANGED shipments

\* Fault: any shipment can be deleted.
BeginDeleteAny(r, s) ==
    /\ Found(s)
    /\ Start(r, [pc |-> "deleteShipment", on |-> s])
    /\ UNCHANGED shipments

BeginDelete(r, s) ==
    /\ Found(s)
    /\ shipment[s].status \in DeletableStatuses
    /\ Start(r, [pc |-> "deleteShipment", on |-> s])
    /\ UNCHANGED shipments

DeleteShipment(r) ==
    LET s == request[r].on
        OfIt(row) == Present(row) /\ row.of = s
    IN
    /\ At(r, "deleteShipment")
    /\ shipment' = [shipment EXCEPT ![s] = Gone]
    /\ stage' = [t \in Stages |-> IF OfIt(stage[t]) THEN Gone ELSE stage[t]]
    /\ link' = [k \in Links |-> IF OfIt(link[k]) THEN Gone ELSE link[k]]
    /\ commented' = commented \ {s}
    /\ Finish(r)
    /\ UNCHANGED <<entries, completions>>

\* changeStatus: any status of the enumeration.
BeginChangeStatus(r, s, status) ==
    /\ Found(s)
    /\ Start(r, [pc |-> "writeStatus", on |-> s, status |-> status])
    /\ UNCHANGED shipments

WriteStatus(r) ==
    LET q == request[r] IN
    /\ At(r, "writeStatus")
    /\ shipment' = IF Found(q.on) THEN [shipment EXCEPT ![q.on].status = q.status] ELSE shipment
    /\ Finish(r)
    /\ UNCHANGED <<stage, link, commented, entries, completions>>

(***************************************************************************)
(* Stages and comments.                                                    *)
(***************************************************************************)

BeginAdd(r, s) ==
    /\ Found(s)
    /\ \E pc \in {"insertStage", "insertComment"} : Start(r, [pc |-> pc, on |-> s])
    /\ UNCHANGED shipments

InsertStage(r, t) ==
    LET s == request[r].on IN
    /\ At(r, "insertStage")
    /\ stage[t] = Absent
    /\ stage' = IF Found(s) THEN [stage EXCEPT ![t] = [of |-> s, completed |-> FALSE]] ELSE stage
    /\ Finish(r)
    /\ UNCHANGED <<shipment, link, commented, entries, completions>>

InsertComment(r) ==
    LET s == request[r].on IN
    /\ At(r, "insertComment")
    /\ commented' = IF Found(s) THEN commented \cup {s} ELSE commented
    /\ Finish(r)
    /\ UNCHANGED <<shipment, stage, link, entries, completions>>

BeginCompleteStage(r, s, t) ==
    /\ Found(s)
    /\ Start(r, [pc |-> "findStage", on |-> s, stage |-> t])
    /\ UNCHANGED shipments

\* Fault: a completed stage is completed again.
FindStageAgain(r) ==
    LET q == request[r] IN
    /\ At(r, "findStage")
    /\ IF Present(stage[q.stage]) /\ stage[q.stage].of = q.on
       THEN Goto(r, [q EXCEPT !.pc = "completeStage"])
       ELSE Finish(r)
    /\ UNCHANGED shipments

FindStage(r) ==
    LET q == request[r] IN
    /\ At(r, "findStage")
    /\ IF Present(stage[q.stage]) /\ stage[q.stage].of = q.on /\ ~stage[q.stage].completed
       THEN Goto(r, [q EXCEPT !.pc = "completeStage"])
       ELSE Finish(r)
    /\ UNCHANGED shipments

CompleteStage(r) ==
    LET t == request[r].stage IN
    /\ At(r, "completeStage")
    /\ IF Present(stage[t])
       THEN /\ stage' = [stage EXCEPT ![t].completed = TRUE]
            /\ completions' = [completions EXCEPT ![t] = @ + 1]
       ELSE UNCHANGED <<stage, completions>>
    /\ Finish(r)
    /\ UNCHANGED <<shipment, link, commented, entries>>

(***************************************************************************)
(* Links to customs entries.                                               *)
(***************************************************************************)

BeginLink(r, s, e) ==
    /\ Found(s)
    /\ Start(r, [pc |-> "insertLink", on |-> s, entry |-> e])
    /\ UNCHANGED shipments

\* Fault: nothing keeps an entry from being linked twice.
InsertLinkTwice(r, k) ==
    LET q == request[r] IN
    /\ At(r, "insertLink")
    /\ link[k] = Absent
    /\ link' = IF Found(q.on) /\ q.entry \in entries
               THEN [link EXCEPT ![k] = [of |-> q.on, entry |-> q.entry]]
               ELSE link
    /\ Finish(r)
    /\ UNCHANGED <<shipment, stage, commented, entries, completions>>

\* The foreign keys ask for the shipment and the entry, uq_shipment_entry for a
\* pair that is not there yet.
InsertLink(r, k) ==
    LET q == request[r]
        row == [of |-> q.on, entry |-> q.entry]
    IN
    /\ At(r, "insertLink")
    /\ link[k] = Absent
    /\ link' = IF Found(q.on) /\ q.entry \in entries /\ \A j \in Links : link[j] # row
               THEN [link EXCEPT ![k] = row]
               ELSE link
    /\ Finish(r)
    /\ UNCHANGED <<shipment, stage, commented, entries, completions>>

\* unlinkEntry reads the shipment and deletes the link by its own id.
BeginUnlink(r, s, k) ==
    /\ Found(s)
    /\ Start(r, [pc |-> "deleteLink", on |-> s, link |-> k])
    /\ UNCHANGED shipments

DeleteLink(r) ==
    LET k == request[r].link IN
    /\ At(r, "deleteLink")
    /\ link' = IF Present(link[k]) THEN [link EXCEPT ![k] = Gone] ELSE link
    /\ Finish(r)
    /\ UNCHANGED <<shipment, stage, commented, entries, completions>>

\* CustomsEntries deletes an entry; the foreign key refuses while it is linked.
DeleteEntry(e) ==
    /\ e \in entries
    /\ \A k \in Links : Present(link[k]) => link[k].entry # e
    /\ entries' = entries \ {e}
    /\ UNCHANGED <<shipment, stage, link, commented, completions, request, started, raced>>

Abort(r) == Stop(r) /\ UNCHANGED shipments

Next ==
    \/ \E r \in Requests :
        \/ \E s \in Ids :
            \/ CreateShipment(r, s) \/ BeginUpdate(r, s) \/ BeginDelete(r, s) \/ BeginAdd(r, s)
            \/ \E status \in Statuses : BeginChangeStatus(r, s, status)
            \/ \E t \in Stages : BeginCompleteStage(r, s, t)
            \/ \E e \in Entries : BeginLink(r, s, e)
            \/ \E k \in Links : BeginUnlink(r, s, k)
        \/ \E t \in Stages : InsertStage(r, t)
        \/ \E k \in Links : InsertLink(r, k)
        \/ UpdateShipment(r) \/ DeleteShipment(r) \/ WriteStatus(r) \/ InsertComment(r)
        \/ FindStage(r) \/ CompleteStage(r) \/ DeleteLink(r) \/ Abort(r)
    \/ \E e \in Entries : DeleteEntry(e)

Spec == Init /\ [][Next]_vars

(***************************************************************************)
(* Properties.                                                             *)
(***************************************************************************)

\* A shipment under way is never deleted (deleteShipment), unless two requests
\* handled it at once.
UnderWayStays ==
    [][\A s \in Ids \ raced' :
        Found(s) /\ shipment[s].status \notin DeletableStatuses => Found(s)']_vars

\* A stage is completed at most once (completeStage reads completedAt before it
\* writes it), unless two requests handled its shipment at once.
StageCompletedOnce ==
    \A t \in Stages : Present(stage[t]) /\ stage[t].of \notin raced => completions[t] <= 1

\* A shipment and an entry are linked at most once, and only while both exist,
\* however links, deletes of shipments and deletes of entries overlap (linkEntry).
LinkedOnce ==
    /\ \A k \in Links : Present(link[k]) => Found(link[k].of) /\ link[k].entry \in entries
    /\ \A k, j \in Links : Present(link[k]) /\ link[k] = link[j] => k = j
=============================================================================
