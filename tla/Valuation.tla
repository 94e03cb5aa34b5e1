----------------------------- MODULE Valuation -----------------------------
(***************************************************************************)
(* Declarations of customs value, their items and their costs:             *)
(* modules/customs-valuation.  Items and costs are handled alike; both are *)
(* parts here.                                                             *)
(***************************************************************************)
EXTENDS Handlers

CONSTANTS
    Declarations,   \* ids of declarations
    Parts,          \* ids of items and costs
    Contents        \* values of the columns that are edited

VARIABLES
    declaration,    \* declaration[d]: the row of valuation_declarations
    part,           \* part[p]: the row of valuation_items or valuation_costs
    been            \* history: been[d], the statuses the row has had

declarations == <<declaration, part, been>>
vars == <<declaration, part, been, request, started, raced>>

\* valuationStatusEnum
Statuses == {"DRAFT", "COMPLETED", "SUBMITTED", "APPROVED", "REJECTED"}

\* EDITABLE_STATUSES
EditableStatuses == {"DRAFT", "REJECTED"}

\* Fault: what is completed can be approved at once.
TransitionsHasty ==
    [DRAFT |-> {"COMPLETED"}, COMPLETED |-> {"SUBMITTED", "DRAFT", "APPROVED"},
     SUBMITTED |-> {"APPROVED", "REJECTED"}, APPROVED |-> {}, REJECTED |-> {"DRAFT"}]

\* STATUS_TRANSITIONS
Transitions ==
    [DRAFT |-> {"COMPLETED"}, COMPLETED |-> {"SUBMITTED", "DRAFT"},
     SUBMITTED |-> {"APPROVED", "REJECTED"}, APPROVED |-> {}, REJECTED |-> {"DRAFT"}]

Kinds == {"item", "cost"}
DeclarationRow == [status : Statuses, content : Contents]
ItemRow == [kind : {"item"}, of : Declarations, content : Contents]
CostRow == [kind : {"cost"}, of : Declarations, content : Contents]
Running ==
    [pc : {"updateDeclaration"}, on : Declarations, content : Contents]
    \cup [pc : {"insertPart"}, on : Declarations, kind : Kinds, content : Contents]
    \cup [pc : {"deleteDeclaration"}, on : Declarations]
    \cup [pc : {"writeStatus"}, on : Declarations, new : Statuses]
    \cup [pc : {"findToUpdate", "updatePart"}, on : Declarations, kind : Kinds, p : Parts,
          content : Contents]
    \cup [pc : {"findToRemove", "deletePart"}, on : Declarations, kind : Kinds, p : Parts]

TypeOK ==
    /\ declaration \in [Declarations -> DeclarationRow \cup {Absent, Gone}]
    /\ part \in [Parts -> ItemRow \cup CostRow \cup {Absent, Gone}]
    /\ been \in [Declarations -> SUBSET Statuses]
    /\ HandlersTypeOK(Running, Declarations)

Init ==
    /\ declaration = [d \in Declarations |-> Absent]
    /\ part = [p \in Parts |-> Absent]
    /\ been = [d \in Declarations |-> {}]
    /\ HandlersInit

\* getDeclarationById
Found(d) == Present(declaration[d])
Editable(d) == Found(d) /\ declaration[d].status \in EditableStatuses
PartOf(p, d) == Present(part[p]) /\ part[p].of = d

(***************************************************************************)
(* Declarations.                                                           *)
(***************************************************************************)

CreateDeclaration(r, d, v) ==
    /\ declaration[d] = Absent
    /\ declaration' = [declaration EXCEPT ![d] = [status |-> "DRAFT", content |-> v]]
    /\ been' = [been EXCEPT ![d] = {"DRAFT"}]
    /\ Once(r, d)
    /\ UNCHANGED part

\* A handler that needs an editable declaration begins.
BeginEdit(r, handler) ==
    /\ Editable(handler.on)
    /\ Start(r, handler)
    /\ UNCHANGED declarations

BeginUpdateDeclaration(r, d, v) ==
    BeginEdit(r, [pc |-> "updateDeclaration", on |-> d, content |-> v])

UpdateDeclaration(r) ==
    LET q == request[r] IN
    /\ At(r, "updateDeclaration")
    /\ declaration' = IF Found(q.on) THEN [declaration EXCEPT ![q.on].content = q.content]
                      ELSE declaration
    /\ Finish(r)
    /\ UNCHANGED <<part, been>>

BeginDeleteDeclaration(r, d) == BeginEdit(r, [pc |-> "deleteDeclaration", on |-> d])

\* Items and costs go with their declaration.
DeleteDeclaration(r) ==
    LET d == request[r].on IN
    /\ At(r, "deleteDeclaration")
    /\ declaration' = [declaration EXCEPT ![d] = Gone]
    /\ part' = [p \in Parts |-> IF PartOf(p, d) THEN Gone ELSE part[p]]
    /\ Finish(r)
    /\ UNCHANGED been

BeginChangeStatus(r, d, s) ==
    /\ Found(d)
    /\ s \in Transitions[declaration[d].status]
    /\ Start(r, [pc |-> "writeStatus", on |-> d, new |-> s])
    /\ UNCHANGED declarations

\* Fault: the status is written to every declaration.
WriteStatusWide(r) ==
    LET q == request[r] IN
    /\ At(r, "writeStatus")
    /\ declaration' = [d \in Declarations |->
                         IF Found(d) THEN [declaration[d] EXCEPT !.status = q.new]
                         ELSE declaration[d]]
    /\ been' = [been EXCEPT ![q.on] = @ \cup {q.new}]
    /\ Finish(r)
    /\ UNCHANGED part

WriteStatus(r) ==
    LET q == request[r] IN
    /\ At(r, "writeStatus")
    /\ IF Found(q.on)
       THEN /\ declaration' = [declaration EXCEPT ![q.on].status = q.new]
            /\ been' = [been EXCEPT ![q.on] = @ \cup {q.new}]
       ELSE UNCHANGED <<declaration, been>>
    /\ Finish(r)
    /\ UNCHANGED part

(***************************************************************************)
(* Items and costs.                                                        *)
(***************************************************************************)

BeginAddItem(r, d, v) ==
    BeginEdit(r, [pc |-> "insertPart", on |-> d, kind |-> "item", content |-> v])
BeginAddCost(r, d, v) ==
    BeginEdit(r, [pc |-> "insertPart", on |-> d, kind |-> "cost", content |-> v])
BeginUpdateItem(r, d, p, v) ==
    BeginEdit(r, [pc |-> "findToUpdate", on |-> d, kind |-> "item", p |-> p, content |-> v])
BeginUpdateCost(r, d, p, v) ==
    BeginEdit(r, [pc |-> "findToUpdate", on |-> d, kind |-> "cost", p |-> p, content |-> v])
BeginRemoveItem(r, d, p) ==
    BeginEdit(r, [pc |-> "findToRemove", on |-> d, kind |-> "item", p |-> p])
BeginRemoveCost(r, d, p) ==
    BeginEdit(r, [pc |-> "findToRemove", on |-> d, kind |-> "cost", p |-> p])

InsertPart(r, p) ==
    LET q == request[r] IN
    /\ At(r, "insertPart")
    /\ part[p] = Absent
    /\ part' = IF Found(q.on)
               THEN [part EXCEPT ![p] = [kind |-> q.kind, of |-> q.on, content |-> q.content]]
               ELSE part
    /\ Finish(r)
    /\ UNCHANGED <<declaration, been>>

\* Fault: a part of another declaration is found too.
FindPartAny(r) ==
    LET q == request[r] IN
    /\ q.pc \in {"findToUpdate", "findToRemove"}
    /\ IF Present(part[q.p])
       THEN Goto(r, [q EXCEPT !.pc = IF @ = "findToUpdate" THEN "updatePart" ELSE "deletePart"])
       ELSE Finish(r)
    /\ UNCHANGED declarations

\* findItemById or findCostById, and the test of whose part it is.
FindPart(r) ==
    LET q == request[r] IN
    /\ q.pc \in {"findToUpdate", "findToRemove"}
    /\ IF PartOf(q.p, q.on) /\ part[q.p].kind = q.kind
       THEN Goto(r, [q EXCEPT !.pc = IF @ = "findToUpdate" THEN "updatePart" ELSE "deletePart"])
       ELSE Finish(r)
    /\ UNCHANGED declarations

UpdatePart(r) ==
    LET q == request[r] IN
    /\ At(r, "updatePart")
    /\ part' = IF Present(part[q.p]) THEN [part EXCEPT ![q.p].content = q.content] ELSE part
    /\ Finish(r)
    /\ UNCHANGED <<declaration, been>>

DeletePart(r) ==
    /\ At(r, "deletePart")
    /\ part' = [part EXCEPT ![request[r].p] = Gone]
    /\ Finish(r)
    /\ UNCHANGED <<declaration, been>>

Abort(r) == Stop(r) /\ UNCHANGED declarations

Next ==
    \E r \in Requests :
        \/ \E d \in Declarations, v \in Contents :
            \/ CreateDeclaration(r, d, v) \/ BeginUpdateDeclaration(r, d, v)
            \/ BeginAddItem(r, d, v) \/ BeginAddCost(r, d, v)
            \/ \E p \in Parts : BeginUpdateItem(r, d, p, v) \/ BeginUpdateCost(r, d, p, v)
        \/ \E d \in Declarations :
            \/ BeginDeleteDeclaration(r, d)
            \/ \E s \in Statuses : BeginChangeStatus(r, d, s)
            \/ \E p \in Parts : BeginRemoveItem(r, d, p) \/ BeginRemoveCost(r, d, p)
        \/ \E p \in Parts : InsertPart(r, p)
        \/ UpdateDeclaration(r) \/ DeleteDeclaration(r) \/ WriteStatus(r)
        \/ FindPart(r) \/ UpdatePart(r) \/ DeletePart(r) \/ Abort(r)

Spec == Init /\ [][Next]_vars

(***************************************************************************)
(* Properties.                                                             *)
(***************************************************************************)

\* No step of the way is skipped (changeStatus), not even by racing changes
\* and however often a declaration is rejected and taken up again: an approved
\* one has been completed and submitted.
ApprovedWasSubmitted ==
    \A d \in Declarations : Found(d) =>
        /\ declaration[d].status \in been[d]
        /\ been[d] \cap {"SUBMITTED"} # {} => "COMPLETED" \in been[d]
        /\ been[d] \cap {"APPROVED", "REJECTED"} # {} => "SUBMITTED" \in been[d]

\* A declared value does not change once it is declared (EDITABLE_STATUSES): outside
\* the editable statuses the declaration, its items and its costs stay as they
\* are, unless two requests handled the declaration at once.
FrozenOnceDeclared ==
    [][\A d \in Declarations \ raced' :
        Found(d) /\ ~Editable(d) =>
            /\ Found(d)' /\ declaration'[d].content = declaration[d].content
            /\ \A p \in Parts : PartOf(p, d) \/ PartOf(p, d)' => part'[p] = part[p]]_vars
=============================================================================
