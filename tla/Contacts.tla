------------------------------ MODULE Contacts ------------------------------
(***************************************************************************)
(* The contacts of a client and which of them is the primary one:          *)
(* client-contacts.service.ts; client-addresses.service.ts does the same   *)
(* with addresses.                                                         *)
(*                                                                         *)
(* The mark is taken from the others in one statement and given in the     *)
(* next.  A client is never deleted.                                       *)
(***************************************************************************)
EXTENDS Handlers

CONSTANTS
    Client,     \* the client
    Ids,        \* ids of contacts
    None        \* no contact

VARIABLES
    contact,    \* contact[i]: the row of client_contacts
    chosen,     \* history: the contact last made primary and not unmade since, or None
    halfway     \* history: a handler stopped after it took the mark from the others

contacts == <<contact, chosen, halfway>>
vars == <<contact, chosen, halfway, request, started, raced>>

ContactRow == [primary : BOOLEAN]
Marks == {"yes", "no", "keep"}     \* isPrimary of the request; "keep" leaves it out
Running ==
    [pc : {"clearPrimary"}, then : {"insert", "update"}, on : {Client}, id : Ids, mark : {"yes"}]
    \cup [pc : {"insert", "update", "delete"}, on : {Client}, id : Ids, mark : Marks]

TypeOK ==
    /\ contact \in [Ids -> ContactRow \cup {Absent, Gone}]
    /\ chosen \in Ids \cup {None}
    /\ halfway \in BOOLEAN
    /\ HandlersTypeOK(Running, {Client})

Init ==
    /\ contact = [i \in Ids |-> Absent]
    /\ chosen = None
    /\ halfway = FALSE
    /\ HandlersInit

Write(pc, i, mark) == [pc |-> pc, on |-> Client, id |-> i, mark |-> mark]

\* Fault: the others keep the mark.
BeginWriteOnly(r, pc, i, mark) == Start(r, Write(pc, i, mark)) /\ UNCHANGED contacts

\* The others lose the mark first when the request gives it.
BeginWrite(r, pc, i, mark) ==
    /\ Start(r, IF mark = "yes"
                THEN [pc |-> "clearPrimary", then |-> pc, on |-> Client, id |-> i, mark |-> "yes"]
                ELSE Write(pc, i, mark))
    /\ UNCHANGED contacts

\* create: the client was found; the id is new.
BeginCreate(r, i, mark) ==
    /\ contact[i] = Absent
    /\ ~\E q \in Requests : request[q] # Idle /\ request[q].id = i
    /\ BeginWrite(r, "insert", i, mark)

\* update: the contact was found.
BeginUpdate(r, i, mark) ==
    /\ Present(contact[i])
    /\ BeginWrite(r, "update", i, mark)

\* remove: the contact was found.
BeginRemove(r, i) ==
    /\ Present(contact[i])
    /\ Start(r, Write("delete", i, "keep"))
    /\ UNCHANGED contacts

ClearPrimary(r) ==
    LET q == request[r] IN
    /\ At(r, "clearPrimary")
    /\ contact' = [i \in Ids |-> IF Present(contact[i]) THEN [primary |-> FALSE] ELSE contact[i]]
    /\ Goto(r, Write(q.then, q.id, q.mark))
    /\ UNCHANGED <<chosen, halfway>>

Insert(r) ==
    LET q == request[r] IN
    /\ At(r, "insert")
    /\ contact' = [contact EXCEPT ![q.id] = [primary |-> q.mark = "yes"]]
    /\ chosen' = IF q.mark = "yes" THEN q.id ELSE chosen
    /\ Finish(r)
    /\ UNCHANGED halfway

\* A contact deleted in between is not found again.
Update(r) ==
    LET q == request[r] IN
    /\ At(r, "update")
    /\ IF Present(contact[q.id])
       THEN /\ contact' = [contact EXCEPT ![q.id].primary = q.mark = "yes" \/ (q.mark = "keep" /\ @)]
            /\ chosen' = CASE q.mark = "yes" -> q.id
                           [] q.mark = "no" /\ chosen = q.id -> None
                           [] OTHER -> chosen
       ELSE UNCHANGED <<contact, chosen>>
    /\ Finish(r)
    /\ UNCHANGED halfway

Delete(r) ==
    LET i == request[r].id IN
    /\ At(r, "delete")
    /\ contact' = [contact EXCEPT ![i] = Gone]
    /\ chosen' = IF chosen = i THEN None ELSE chosen
    /\ Finish(r)
    /\ UNCHANGED halfway

Abort(r) ==
    /\ Stop(r)
    /\ halfway' = (halfway \/ (request[r].pc \in {"insert", "update"} /\ request[r].mark = "yes"))
    /\ UNCHANGED <<contact, chosen>>

Next ==
    \E r \in Requests :
        \/ \E i \in Ids :
            \/ \E mark \in {"yes", "no"} : BeginCreate(r, i, mark)
            \/ \E mark \in Marks : BeginUpdate(r, i, mark)
            \/ BeginRemove(r, i)
        \/ ClearPrimary(r) \/ Insert(r) \/ Update(r) \/ Delete(r) \/ Abort(r)

Spec == Init /\ [][Next]_vars

(***************************************************************************)
(* Properties.                                                             *)
(***************************************************************************)

\* The primary contact of a client is the one last made so, and no other, once
\* no handler is under way (clearPrimary, then insert or update); unless two
\* requests handled the client at once or one stopped between the two statements.
PrimaryIsChosen ==
    raced = {} /\ ~halfway /\ ~Handled(Client) =>
        {i \in Ids : Present(contact[i]) /\ contact[i].primary} = {chosen} \ {None}
=============================================================================
