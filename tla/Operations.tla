----------------------------- MODULE Operations -----------------------------
(***************************************************************************)
(* Operations of a client, the history of their status, and whom they are  *)
(* assigned to: modules/operations, with the memberships that assign reads. *)
(*                                                                         *)
(* An operation may go from any status to any other; the compliance rules  *)
(* are evaluated for display and by no handler.  Operations are never      *)
(* deleted.                                                                *)
(***************************************************************************)
EXTENDS Handlers, Sequences

CONSTANTS
    Ids,        \* ids of operations
    Users,      \* users
    Nobody      \* assignedUserId is null

VARIABLES
    operation,  \* operation[o]: the row of operations
    history,    \* history[o]: the rows of operation_status_history, in order
    members,    \* users with a membership in the organization
    ever,       \* history: users that ever had one
    owed        \* history: operations whose history row was never inserted,
                \* because the handler stopped

operations == <<operation, history, members, ever, owed>>
vars == <<operation, history, members, ever, owed, request, started, raced>>

\* operationStatusEnum
Statuses == {"OPEN", "IN_PROGRESS", "ON_HOLD", "COMPLETED", "CANCELLED"}

\* CLOSED_STATUSES
ClosedStatuses == {"COMPLETED", "CANCELLED"}

\* closed: closedAt is not null
OperationRow == [status : Statuses, closed : BOOLEAN, assignee : Users \cup {Nobody}]
HistoryRow == [from : Statuses \cup {"NONE"}, to : Statuses]
Running ==
    [pc : {"checkMember", "insertOperation", "assign"}, on : Ids, user : Users \cup {Nobody}]
    \cup [pc : {"writeStatus", "insertHistory"}, on : Ids, from : Statuses \cup {"NONE"}, to : Statuses]

TypeOK ==
    /\ operation \in [Ids -> OperationRow \cup {Absent}]
    /\ history \in [Ids -> Seq(HistoryRow)]
    /\ members \subseteq Users /\ ever \subseteq Users
    /\ owed \subseteq Ids
    /\ HandlersTypeOK(Running, Ids)

Init ==
    /\ operation = [o \in Ids |-> Absent]
    /\ history = [o \in Ids |-> <<>>]
    /\ members \in SUBSET Users
    /\ ever = members
    /\ owed = {}
    /\ HandlersInit

\* getById
Found(o) == Present(operation[o])

\* create: the client was found; an assignee must be a member.
BeginCreate(r, o, user) ==
    /\ operation[o] = Absent
    /\ ~Handled(o)
    /\ Start(r, [pc |-> IF user = Nobody THEN "insertOperation" ELSE "checkMember",
                 on |-> o, user |-> user])
    /\ UNCHANGED operations

\* assign
BeginAssign(r, o, user) ==
    /\ Found(o)
    /\ Start(r, [pc |-> IF user = Nobody THEN "assign" ELSE "checkMember",
                 on |-> o, user |-> user])
    /\ UNCHANGED operations

\* Fault: nobody asks whether the user is a member.
CheckMemberNever(r) ==
    LET q == request[r] IN
    /\ At(r, "checkMember")
    /\ Goto(r, [q EXCEPT !.pc = IF Found(q.on) THEN "assign" ELSE "insertOperation"])
    /\ UNCHANGED operations

\* validateMembership
CheckMember(r) ==
    LET q == request[r] IN
    /\ At(r, "checkMember")
    /\ IF q.user \in members
       THEN Goto(r, [q EXCEPT !.pc = IF Found(q.on) THEN "assign" ELSE "insertOperation"])
       ELSE Finish(r)
    /\ UNCHANGED operations

InsertOperation(r) ==
    LET q == request[r] IN
    /\ At(r, "insertOperation")
    /\ operation' = [operation EXCEPT ![q.on] =
                       [status |-> "OPEN", closed |-> FALSE, assignee |-> q.user]]
    /\ Goto(r, [pc |-> "insertHistory", on |-> q.on, from |-> "NONE", to |-> "OPEN"])
    /\ UNCHANGED <<history, members, ever, owed>>

Assign(r) ==
    LET q == request[r] IN
    /\ At(r, "assign")
    /\ operation' = [operation EXCEPT ![q.on].assignee = q.user]
    /\ Finish(r)
    /\ UNCHANGED <<history, members, ever, owed>>

\* changeStatus: any status but the present one.
BeginChangeStatus(r, o, s) ==
    /\ Found(o)
    /\ operation[o].status # s
    /\ Start(r, [pc |-> "writeStatus", on |-> o, from |-> operation[o].status, to |-> s])
    /\ UNCHANGED operations

\* deactivate asks for no status, so CANCELLED may follow CANCELLED.
BeginDeactivate(r, o) ==
    /\ Found(o)
    /\ Start(r, [pc |-> "writeStatus", on |-> o, from |-> operation[o].status, to |-> "CANCELLED"])
    /\ UNCHANGED operations

\* Fault: a reopened operation keeps its closing date.
WriteStatusKeepClosed(r) ==
    LET q == request[r] IN
    /\ At(r, "writeStatus")
    /\ operation' = [operation EXCEPT ![q.on].status = q.to,
                                      ![q.on].closed = @ \/ q.to \in ClosedStatuses]
    /\ Goto(r, [q EXCEPT !.pc = "insertHistory"])
    /\ UNCHANGED <<history, members, ever, owed>>

WriteStatus(r) ==
    LET q == request[r] IN
    /\ At(r, "writeStatus")
    /\ operation' = [operation EXCEPT ![q.on].status = q.to,
                                      ![q.on].closed = q.to \in ClosedStatuses]
    /\ Goto(r, [q EXCEPT !.pc = "insertHistory"])
    /\ UNCHANGED <<history, members, ever, owed>>

\* Fault: the row names the new status as the old one.
InsertHistoryNew(r) ==
    LET q == request[r] IN
    /\ At(r, "insertHistory")
    /\ history' = [history EXCEPT ![q.on] = Append(@, [from |-> q.to, to |-> q.to])]
    /\ Finish(r)
    /\ UNCHANGED <<operation, members, ever, owed>>

InsertHistory(r) ==
    LET q == request[r] IN
    /\ At(r, "insertHistory")
    /\ history' = [history EXCEPT ![q.on] = Append(@, [from |-> q.from, to |-> q.to])]
    /\ Finish(r)
    /\ UNCHANGED <<operation, members, ever, owed>>

Abort(r) ==
    /\ Stop(r)
    /\ owed' = IF At(r, "insertHistory") THEN owed \cup {request[r].on} ELSE owed
    /\ UNCHANGED <<operation, history, members, ever>>

\* Memberships come and go (Organizations); nothing looks at assignments then.
Join(u) ==
    /\ u \notin members
    /\ members' = members \cup {u}
    /\ ever' = ever \cup {u}
    /\ UNCHANGED <<operation, history, owed, request, started, raced>>

Leave(u) ==
    /\ u \in members
    /\ members' = members \ {u}
    /\ UNCHANGED <<operation, history, ever, owed, request, started, raced>>

Next ==
    \/ \E r \in Requests :
        \/ \E o \in Ids :
            \/ \E u \in Users \cup {Nobody} : BeginCreate(r, o, u) \/ BeginAssign(r, o, u)
            \/ \E s \in Statuses : BeginChangeStatus(r, o, s)
            \/ BeginDeactivate(r, o)
        \/ CheckMember(r) \/ InsertOperation(r) \/ Assign(r)
        \/ WriteStatus(r) \/ InsertHistory(r) \/ Abort(r)
    \/ \E u \in Users : Join(u) \/ Leave(u)

Spec == Init /\ [][Next]_vars

(***************************************************************************)
(* Properties.                                                             *)
(***************************************************************************)

\* An operation has a closing date exactly when it is completed or cancelled
\* (changeStatus, deactivate), however changes overlap and fail.
ClosedTells ==
    \A o \in Ids : Found(o) => (operation[o].closed <=> operation[o].status \in ClosedStatuses)

\* The history leads from the creation to the present status, each row starting
\* where the one before ended, once no handler is about to insert a row;
\* unless changes of the operation raced or a handler stopped before its row.
HistoryLeads ==
    \A o \in Ids \ (raced \cup owed) :
        (Found(o) /\ ~Handled(o)) =>
            LET h == history[o] IN
            /\ h # <<>> /\ h[1].from = "NONE" /\ h[Len(h)].to = operation[o].status
            /\ \A i \in 2..Len(h) : h[i].from = h[i - 1].to

\* An operation is assigned to somebody who is or was a member
\* (validateMembership), even when the membership ends before the write.
AssignedToMembers ==
    \A o \in Ids : Found(o) /\ operation[o].assignee # Nobody => operation[o].assignee \in ever
=============================================================================
