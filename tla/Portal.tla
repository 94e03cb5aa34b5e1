------------------------------- MODULE Portal -------------------------------
(***************************************************************************)
(* Who may see the operations of a client from outside the organization,   *)
(* and what they are shown: client-portal-access, portal.                  *)
(*                                                                         *)
(* A request of the portal reads the access of its user in one statement   *)
(* and the documents in another; both change in between.  Operations keep  *)
(* their client, so a document stands for its operation here.              *)
(***************************************************************************)
EXTENDS Handlers, FiniteSets

CONSTANTS
    Users,          \* users of the portal
    Clients,        \* clients of the organization
    Documents,      \* ids of documents
    Grants          \* ids of rows of client_portal_access

VARIABLES
    document,   \* document[d]: visible and status, and the client of its operation
    grant,      \* grant[g]: the row of client_portal_access
    open,       \* history: open[r], what held at some moment since r began
    shown       \* history: what the requests that were answered had seen by then

portal == <<document, grant>>
vars == <<document, grant, open, shown, request, started, raced>>

DocumentRow == [visible : BOOLEAN, active : BOOLEAN, client : Clients]
GrantRow == [user : Users, client : Clients]
Moments == {"visible", "granted"}
Running ==
    [pc : {"insertGrant"}, on : Users, client : Clients]
    \cup [pc : {"deleteGrant"}, on : Grants]
    \cup [pc : {"resolve"}, on : Users, op : {"download", "list"}, d : Documents]
    \cup [pc : {"check", "list"}, on : Users, d : Documents, clients : SUBSET Clients]

TypeOK ==
    /\ document \in [Documents -> DocumentRow]
    /\ grant \in [Grants -> GrantRow \cup {Absent, Gone}]
    /\ open \in [Requests -> SUBSET Moments]
    /\ shown \subseteq SUBSET Moments
    /\ HandlersTypeOK(Running, Users \cup Grants)

Init ==
    /\ document \in [Documents -> DocumentRow]
    /\ grant = [g \in Grants |-> Absent]
    /\ open = [r \in Requests |-> {}]
    /\ shown = {}
    /\ HandlersInit

Shown(d) == document[d].visible /\ document[d].active
Granted(user, client) == \E g \in Grants : grant[g] = [user |-> user, client |-> client]

(***************************************************************************)
(* Access and documents.                                                   *)
(***************************************************************************)

\* grant: the client was found and the access was not.
BeginGrant(r, user, client) ==
    /\ ~Granted(user, client)
    /\ Start(r, [pc |-> "insertGrant", on |-> user, client |-> client])
    /\ UNCHANGED <<portal, shown>>

\* The key of the table refuses a second row.
InsertGrant(r, g) ==
    LET q == request[r] IN
    /\ At(r, "insertGrant")
    /\ grant[g] = Absent
    /\ grant' = IF Granted(q.on, q.client) THEN grant
                ELSE [grant EXCEPT ![g] = [user |-> q.on, client |-> q.client]]
    /\ Finish(r)
    /\ UNCHANGED <<document, shown>>

BeginRevoke(r, g) ==
    /\ Present(grant[g])
    /\ Start(r, [pc |-> "deleteGrant", on |-> g])
    /\ UNCHANGED <<portal, shown>>

DeleteGrant(r) ==
    /\ At(r, "deleteGrant")
    /\ grant' = [grant EXCEPT ![request[r].on] = Gone]
    /\ Finish(r)
    /\ UNCHANGED <<document, shown>>

\* update and deactivate of a document (Documents), one statement
WriteDocument(d, visible, active) ==
    /\ document' = [document EXCEPT ![d].visible = visible, ![d].active = active]
    /\ UNCHANGED <<grant, shown, request, started, raced>>

(***************************************************************************)
(* Requests of the portal.                                                 *)
(***************************************************************************)

\* Fault: a document is found whoever it is meant for.
FoundAny(d) == document[d].active

\* findDocumentById of the portal
Found(d) == Shown(d)

\* getDocumentDownloadUrl: the document first, the access of the user next.
BeginDownload(r, user, d) ==
    /\ Found(d)
    /\ Start(r, [pc |-> "resolve", op |-> "download", on |-> user, d |-> d])
    /\ UNCHANGED <<portal, shown>>

\* listDocuments: the access first, the documents of the operation last.
BeginList(r, user, d) ==
    /\ Start(r, [pc |-> "resolve", op |-> "list", on |-> user, d |-> d])
    /\ UNCHANGED <<portal, shown>>

\* Fault: the clients of everybody.
ResolveAll(r) ==
    LET q == request[r] IN
    /\ At(r, "resolve")
    /\ Goto(r, [pc |-> IF q.op = "list" THEN "list" ELSE "check", on |-> q.on, d |-> q.d,
                clients |-> {c \in Clients : \E u \in Users : Granted(u, c)}])
    /\ UNCHANGED <<portal, shown>>

\* resolveClientIds
Resolve(r) ==
    LET q == request[r] IN
    /\ At(r, "resolve")
    /\ Goto(r, [pc |-> IF q.op = "list" THEN "list" ELSE "check", on |-> q.on, d |-> q.d,
                clients |-> {c \in Clients : Granted(q.on, c)}])
    /\ UNCHANGED <<portal, shown>>

InScope(q) == document[q.d].client \in q.clients
Answer(r) == shown' = shown \cup {open[r]} /\ Finish(r)

\* findOperationById, and the link to the file.
Check(r) ==
    /\ At(r, "check")
    /\ IF InScope(request[r]) THEN Answer(r) ELSE Finish(r) /\ UNCHANGED shown
    /\ UNCHANGED portal

\* findOperationById and findClientVisibleDocuments
List(r) ==
    LET q == request[r] IN
    /\ At(r, "list")
    /\ IF InScope(q) /\ Shown(q.d) THEN Answer(r) ELSE Finish(r) /\ UNCHANGED shown
    /\ UNCHANGED portal

Abort(r) == Stop(r) /\ UNCHANGED <<portal, shown>>

Step ==
    \/ \E r \in Requests :
        \/ \E user \in Users :
            \/ \E client \in Clients : BeginGrant(r, user, client)
            \/ \E d \in Documents : BeginDownload(r, user, d) \/ BeginList(r, user, d)
        \/ \E g \in Grants : InsertGrant(r, g) \/ BeginRevoke(r, g)
        \/ DeleteGrant(r) \/ Resolve(r) \/ Check(r) \/ List(r) \/ Abort(r)
    \/ \E d \in Documents, visible, active \in BOOLEAN : WriteDocument(d, visible, active)

Serving(q) == q.pc \in {"resolve", "check", "list"}
Holds(q) == (IF Shown(q.d) THEN {"visible"} ELSE {})
              \cup (IF Granted(q.on, document[q.d].client) THEN {"granted"} ELSE {})

\* What held at the moments before and after the step goes with the requests.
Watched ==
    open' = [r \in Requests |->
                IF ~Serving(request[r])' THEN {}
                ELSE Holds(request[r])' \cup IF Serving(request[r]) THEN open[r] ELSE {}]

Next == Step /\ Watched

Spec == Init /\ [][Next]_vars

(***************************************************************************)
(* Properties.                                                             *)
(***************************************************************************)

\* Whatever is shown was visible and active at some moment of the request, and
\* its user had access to the client at some moment of it: what is hidden or
\* revoked before a request begins, it does not show (findDocumentById,
\* resolveClientIds and findOperationById, in either order).
ShownToGranted == \A moments \in shown : moments = Moments
=============================================================================
