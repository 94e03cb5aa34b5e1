--------------------------- MODULE Organizations ---------------------------
(***************************************************************************)
(* Organizations, their members and the permission to manage them:         *)
(* modules/organizations, modules/memberships, PermissionsGuard.           *)
(*                                                                         *)
(* Creating an organization inserts it and its owner in one transaction,   *)
(* after reads that look for a free slug.  A request on members passes the *)
(* guard, reads the target's membership and writes it by organization and  *)
(* user, one action each, with other requests in between.  System admins   *)
(* pass every guard.  Audit rows are left out.                             *)
(***************************************************************************)
EXTENDS Naturals

CONSTANTS
    Orgs,           \* ids of organizations
    Users,          \* users, who all have an e-mail address
    SystemAdmins,   \* users who pass every guard
    Slugs,          \* slugs, with and without a suffix
    Requests,       \* requests in progress at once
    MaxStarted      \* bound: requests begun

VARIABLES
    org,        \* org[o]: the row or Absent
    member,     \* member[o][u]: u's role in o, "none" without a row
    request,    \* request[r]: the handler r runs
    started,    \* requests begun, for the bound
    managers    \* history: managers[o], users who ever had a managing role

vars == <<org, member, request, started, managers>>

Absent == [row |-> "absent"]
Idle == [pc |-> "idle"]

\* CLIENT is in the enumeration and never written.
Roles == {"OWNER", "ADMIN", "MEMBER"}
Assignable == {"ADMIN", "MEMBER"}       \* IsIn of the two dtos
Managing == {"OWNER", "ADMIN"}          \* roles with MEMBERS_INVITE, _REMOVE, _UPDATE_ROLE
Ops == {"add", "update", "remove"}

Creating ==
    [pc : {"insert"}, actor : Users, slug : Slugs]
    \cup [pc : {"findCandidate"}, actor : Users, slug : Slugs]
Changing ==
    [pc : {"guard", "find", "write"}, op : Ops, o : Orgs, actor : Users,
     target : Users, role : Assignable]

TypeOK ==
    /\ org \in [Orgs -> [slug : Slugs, createdById : Users] \cup {Absent}]
    /\ member \in [Orgs -> [Users -> Roles \cup {"none"}]]
    /\ request \in [Requests -> Creating \cup Changing \cup {Idle}]
    /\ started \in 0..MaxStarted
    /\ managers \in [Orgs -> SUBSET Users]

Init ==
    /\ org = [o \in Orgs |-> Absent]
    /\ member = [o \in Orgs |-> [u \in Users |-> "none"]]
    /\ request = [r \in Requests |-> Idle]
    /\ started = 0
    /\ managers = [o \in Orgs |-> {}]

At(r, pc) == request[r].pc = pc
Goto(r, record) == request' = [request EXCEPT ![r] = record]
Taken(s) == \E o \in Orgs : org[o] # Absent /\ org[o].slug = s

Begin(r, record) ==
    /\ request[r] = Idle
    /\ started < MaxStarted
    /\ started' = started + 1
    /\ Goto(r, record)
    /\ UNCHANGED <<org, member, managers>>

(***************************************************************************)
(* Creating an organization.                                               *)
(***************************************************************************)

\* resolveUniqueSlug: the plain slug if it is free, else one with a suffix
FindSlug(r, u, s) ==
    \/ ~Taken(s) /\ Begin(r, [pc |-> "insert", actor |-> u, slug |-> s])
    \/ /\ Taken(s)
       /\ \E candidate \in Slugs \ {s} :
            Begin(r, [pc |-> "findCandidate", actor |-> u, slug |-> candidate])

FindCandidate(r) ==
    /\ At(r, "findCandidate")
    /\ Goto(r, IF Taken(request[r].slug) THEN Idle ELSE [request[r] EXCEPT !.pc = "insert"])
    /\ UNCHANGED <<org, member, started, managers>>

\* The transaction: all of it, or nothing when the slug was taken meanwhile.
Create(r, o) ==
    LET q == request[r] IN
    /\ At(r, "insert")
    /\ org[o] = Absent
    /\ IF Taken(q.slug) THEN UNCHANGED <<org, member, managers>>
       ELSE /\ org' = [org EXCEPT ![o] = [slug |-> q.slug, createdById |-> q.actor]]
            /\ member' = [member EXCEPT ![o][q.actor] = "OWNER"]
            /\ managers' = [managers EXCEPT ![o] = @ \cup {q.actor}]
    /\ Goto(r, Idle)
    /\ UNCHANGED started

(***************************************************************************)
(* Changing members.                                                       *)
(***************************************************************************)

\* removeMember has no role to give; one stands for both.
BeginChange(r, op, o, u, t, role) ==
    /\ op = "remove" => role = "MEMBER"
    /\ Begin(r, [pc |-> "guard", op |-> op, o |-> o, actor |-> u, target |-> t,
                 role |-> role])

\* Fault: being a member is enough.
GuardMembers(r) ==
    LET q == request[r] IN
    /\ At(r, "guard")
    /\ Goto(r, IF q.actor \in SystemAdmins \/ member[q.o][q.actor] # "none"
               THEN [q EXCEPT !.pc = "find"] ELSE Idle)
    /\ UNCHANGED <<org, member, started, managers>>

\* PermissionsGuard
Guard(r) ==
    LET q == request[r] IN
    /\ At(r, "guard")
    /\ Goto(r, IF q.actor \in SystemAdmins \/ member[q.o][q.actor] \in Managing
               THEN [q EXCEPT !.pc = "find"] ELSE Idle)
    /\ UNCHANGED <<org, member, started, managers>>

\* Fault: the owner is protected from removal only.
FindAllowsOwner(r) ==
    LET q == request[r]
        role == member[q.o][q.target] IN
    /\ At(r, "find")
    /\ Goto(r, IF \/ q.op = "add" /\ role = "none"
                  \/ q.op = "update" /\ q.target # q.actor /\ role # "none"
                  \/ q.op = "remove" /\ q.target # q.actor /\ role \in Assignable
               THEN [q EXCEPT !.pc = "write"] ELSE Idle)
    /\ UNCHANGED <<org, member, started, managers>>

\* The target's membership is read; nobody changes or removes themselves or an owner.
Find(r) ==
    LET q == request[r]
        role == member[q.o][q.target] IN
    /\ At(r, "find")
    /\ Goto(r, IF \/ q.op = "add" /\ role = "none"
                  \/ /\ q.op \in {"update", "remove"}
                     /\ q.target # q.actor
                     /\ role \in Assignable
               THEN [q EXCEPT !.pc = "write"] ELSE Idle)
    /\ UNCHANGED <<org, member, started, managers>>

\* Fault: a role that is not in the enumeration.
WrittenMisspelt(op, role, old) == IF op = "add" THEN "admin" ELSE old

\* The row the write leaves.  The insert fails when there is one already; the
\* update finds nothing when the row has gone, and does not insert one.
Written(op, role, old) ==
    CASE op = "add" -> IF old = "none" THEN role ELSE old
      [] op = "update" -> IF old = "none" THEN "none" ELSE role
      [] OTHER -> "none"

\* The foreign key refuses a member of an organization that does not exist.
Write(r) ==
    LET q == request[r]
        new == Written(q.op, q.role, member[q.o][q.target]) IN
    /\ At(r, "write")
    /\ IF org[q.o] = Absent THEN UNCHANGED <<member, managers>>
       ELSE /\ member' = [member EXCEPT ![q.o][q.target] = new]
            /\ managers' = [managers EXCEPT ![q.o] =
                              IF new \in Managing THEN @ \cup {q.target} ELSE @]
    /\ Goto(r, Idle)
    /\ UNCHANGED <<org, started>>

\* A statement fails or the process dies between two statements.
Abort(r) ==
    /\ request[r] # Idle
    /\ Goto(r, Idle)
    /\ UNCHANGED <<org, member, started, managers>>

Next ==
    \E r \in Requests :
        \/ \E u \in Users, s \in Slugs : FindSlug(r, u, s)
        \/ FindCandidate(r)
        \/ \E o \in Orgs : Create(r, o)
        \/ \E op \in Ops, o \in Orgs, u, t \in Users, role \in Assignable :
             BeginChange(r, op, o, u, t, role)
        \/ Guard(r) \/ Find(r) \/ Write(r)
        \/ Abort(r)

Spec == Init /\ [][Next]_vars

(***************************************************************************)
(* Properties.                                                             *)
(***************************************************************************)

\* An organization always has exactly one owner, the user who created it
\* (create, updateMemberRole, removeMember), although the owner is recognised in
\* a membership read before others wrote it.
OneOwner ==
    \A o \in Orgs :
        {u \in Users : member[o][u] = "OWNER"} =
            IF org[o] = Absent THEN {} ELSE {org[o].createdById}

\* Only managers change members (PermissionsGuard): a row of an organization
\* changes at the hand of its creator, of a system admin, or of somebody who was
\* once made its ADMIN by such a one; the guard may have seen that a while ago.
ChangedByManagers ==
    [][\A o \in Orgs :
         (org[o] # Absent /\ member'[o] # member[o]) =>
             \E r \in Requests :
                 /\ request[r] # Idle /\ request'[r] = Idle
                 /\ request[r].actor \in managers[o] \cup SystemAdmins]_vars
=============================================================================
