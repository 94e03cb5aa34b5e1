--------------------------- MODULE CustomsEntries ---------------------------
(***************************************************************************)
(* Customs entries (pedimentos), their items, parties and documents, and   *)
(* the history of their status: modules/customs-entries.                   *)
(*                                                                         *)
(* A handler reads the entry, decides on what it read and then writes by   *)
(* id, in statements other handlers can come between; a status change      *)
(* writes the entry first and its history row after.  The entry's columns  *)
(* are one value of Contents; the audit rows are left out.                 *)
(***************************************************************************)
EXTENDS Naturals, Sequences, TLC

CONSTANTS
    Entries,        \* ids of entries
    Parts,          \* ids of items, parties and documents
    Contents,       \* values of the columns updateEntry edits
    Requests,       \* requests in progress at once
    MaxStarted      \* bound: requests begun

ASSUME MaxStartedAssumption == MaxStarted \in Nat

VARIABLES
    entry,      \* entry[e]: the row, Absent or Gone
    part,       \* part[c]: the row, Absent or Gone
    history,    \* history[e]: the rows of the status history, oldest first
    request,    \* request[r]: the handler r runs
    started,    \* requests begun, for the bound
    been,       \* history: been[e], the statuses the row has had
    raced,      \* history: entries two requests handled at once
    torn        \* history: entries whose history row was never inserted,
                \* because the handler died

vars == <<entry, part, history, request, started, been, raced, torn>>

Absent == [row |-> "absent"]
Gone == [row |-> "gone"]        \* deleted; ids are never used again
Idle == [pc |-> "idle"]

Statuses == {"DRAFT", "PREVALIDATED", "VALIDATED", "PAID", "DISPATCHED",
             "RELEASED", "RECTIFIED", "CANCELLED"}

\* EDITABLE_STATUSES
EditableStatuses == {"DRAFT", "PREVALIDATED"}

\* Fault: a draft can be validated at once.
TransitionsHasty(s) ==
    CASE s = "DRAFT" -> {"PREVALIDATED", "VALIDATED", "CANCELLED"}
      [] s = "PREVALIDATED" -> {"VALIDATED", "DRAFT", "CANCELLED"}
      [] s = "VALIDATED" -> {"PAID", "CANCELLED"}
      [] s = "PAID" -> {"DISPATCHED", "CANCELLED"}
      [] s = "DISPATCHED" -> {"RELEASED", "CANCELLED"}
      [] s = "RELEASED" -> {"RECTIFIED"}
      [] OTHER -> {}

\* STATUS_TRANSITIONS
Transitions(s) ==
    CASE s = "DRAFT" -> {"PREVALIDATED", "CANCELLED"}
      [] s = "PREVALIDATED" -> {"VALIDATED", "DRAFT", "CANCELLED"}
      [] s = "VALIDATED" -> {"PAID", "CANCELLED"}
      [] s = "PAID" -> {"DISPATCHED", "CANCELLED"}
      [] s = "DISPATCHED" -> {"RELEASED", "CANCELLED"}
      [] s = "RELEASED" -> {"RECTIFIED"}
      [] OTHER -> {}

Kinds == {"item", "party", "document"}
EntryRow == [status : Statuses, content : Contents]
PartRow == [kind : Kinds, of : Entries]
HistoryRow == [previous : Statuses \cup {"NONE"}, new : Statuses]
Running ==
    [pc : {"delete"}, e : Entries]
    \cup [pc : {"update"}, e : Entries, content : Contents]
    \cup [pc : {"insertPart"}, e : Entries, kind : Kinds]
    \cup [pc : {"findItem", "deletePart"}, e : Entries, c : Parts]
    \cup [pc : {"writeStatus", "insertHistory"}, e : Entries,
          previous : Statuses \cup {"NONE"}, new : Statuses]

TypeOK ==
    /\ entry \in [Entries -> EntryRow \cup {Absent, Gone}]
    /\ part \in [Parts -> PartRow \cup {Absent, Gone}]
    /\ history \in [Entries -> Seq(HistoryRow)]
    /\ request \in [Requests -> Running \cup {Idle}]
    /\ started \in 0..MaxStarted
    /\ been \in [Entries -> SUBSET Statuses]
    /\ raced \subseteq Entries
    /\ torn \subseteq Entries

Init ==
    /\ entry = [e \in Entries |-> Absent]
    /\ part = [c \in Parts |-> Absent]
    /\ history = [e \in Entries |-> <<>>]
    /\ request = [r \in Requests |-> Idle]
    /\ started = 0
    /\ been = [e \in Entries |-> {}]
    /\ raced = {} /\ torn = {}

Exists(e) == entry[e] \notin {Absent, Gone}
Editable(e) == Exists(e) /\ entry[e].status \in EditableStatuses
Parted(c) == part[c] \notin {Absent, Gone}
PartsOf(e) == {c \in Parts : Parted(c) /\ part[c].of = e}

At(r, pc) == request[r].pc = pc
Goto(r, record) == request' = [request EXCEPT ![r] = record]
Handling(r, e) == request[r] # Idle /\ request[r].e = e

Start(r, e, record) ==
    /\ request[r] = Idle
    /\ started < MaxStarted
    /\ started' = started + 1
    /\ Goto(r, record)
    /\ raced' = IF \E q \in Requests : Handling(q, e) THEN raced \cup {e} ELSE raced
    /\ UNCHANGED <<part, history, torn>>

Begin(r, e, record) == Start(r, e, record) /\ UNCHANGED <<entry, been>>

(***************************************************************************)
(* Entries.                                                                *)
(***************************************************************************)

\* createEntry, its reads of the office and the patent passed
InsertEntry(r, e, v) ==
    /\ entry[e] = Absent
    /\ entry' = [entry EXCEPT ![e] = [status |-> "DRAFT", content |-> v]]
    /\ been' = [been EXCEPT ![e] = {"DRAFT"}]
    /\ Start(r, e, [pc |-> "insertHistory", e |-> e, previous |-> "NONE", new |-> "DRAFT"])

BeginUpdate(r, e, v) ==
    /\ Editable(e)
    /\ Begin(r, e, [pc |-> "update", e |-> e, content |-> v])

\* Updates by id: nothing happens if the row is gone.
Update(r) ==
    LET q == request[r] IN
    /\ At(r, "update")
    /\ entry' = IF Exists(q.e) THEN [entry EXCEPT ![q.e].content = q.content] ELSE entry
    /\ Goto(r, Idle)
    /\ UNCHANGED <<part, history, started, been, raced, torn>>

BeginDelete(r, e) ==
    /\ Exists(e)
    /\ entry[e].status = "DRAFT"
    /\ Begin(r, e, [pc |-> "delete", e |-> e])

\* Parts and history go with their entry.
Delete(r) ==
    LET e == request[r].e IN
    /\ At(r, "delete")
    /\ entry' = IF Exists(e) THEN [entry EXCEPT ![e] = Gone] ELSE entry
    /\ part' = [c \in Parts |-> IF c \in PartsOf(e) THEN Gone ELSE part[c]]
    /\ history' = [history EXCEPT ![e] = <<>>]
    /\ Goto(r, Idle)
    /\ UNCHANGED <<started, been, raced, torn>>

\* Fault: a cancelled entry can be taken up again.
BeginChangeStatusReopen(r, e, s) ==
    /\ Exists(e)
    /\ s \in Transitions(entry[e].status) \/ (entry[e].status = "CANCELLED" /\ s = "DRAFT")
    /\ Begin(r, e, [pc |-> "writeStatus", e |-> e, previous |-> entry[e].status, new |-> s])

BeginChangeStatus(r, e, s) ==
    /\ Exists(e)
    /\ s \in Transitions(entry[e].status)
    /\ Begin(r, e, [pc |-> "writeStatus", e |-> e, previous |-> entry[e].status, new |-> s])

WriteStatus(r) ==
    LET q == request[r] IN
    /\ At(r, "writeStatus")
    /\ IF Exists(q.e)
       THEN /\ entry' = [entry EXCEPT ![q.e].status = q.new]
            /\ been' = [been EXCEPT ![q.e] = @ \cup {q.new}]
       ELSE UNCHANGED <<entry, been>>
    /\ Goto(r, [q EXCEPT !.pc = "insertHistory"])
    /\ UNCHANGED <<part, history, started, raced, torn>>

\* Fault: the status read from the entry is not the one noted.
InsertHistoryNew(r) ==
    LET q == request[r] IN
    /\ At(r, "insertHistory")
    /\ history' = [history EXCEPT ![q.e] = Append(@, [previous |-> q.new, new |-> q.new])]
    /\ Goto(r, Idle)
    /\ UNCHANGED <<entry, part, started, been, raced, torn>>

\* The foreign key refuses the row, and the request fails, when the entry is gone.
InsertHistory(r) ==
    LET q == request[r] IN
    /\ At(r, "insertHistory")
    /\ history' = IF Exists(q.e)
                  THEN [history EXCEPT ![q.e] =
                          Append(@, [previous |-> q.previous, new |-> q.new])]
                  ELSE history
    /\ Goto(r, Idle)
    /\ UNCHANGED <<entry, part, started, been, raced, torn>>

(***************************************************************************)
(* Items, parties and documents.                                           *)
(***************************************************************************)

\* A document can be added whatever the status.
BeginAddPart(r, e, kind) ==
    /\ Exists(e)
    /\ kind = "document" \/ Editable(e)
    /\ Begin(r, e, [pc |-> "insertPart", e |-> e, kind |-> kind])

\* Fault: a row without its entry.
InsertPartLoose(r, c) ==
    /\ At(r, "insertPart")
    /\ part[c] = Absent
    /\ part' = [part EXCEPT ![c] = [kind |-> request[r].kind]]
    /\ Goto(r, Idle)
    /\ UNCHANGED <<entry, history, started, been, raced, torn>>

InsertPart(r, c) ==
    LET q == request[r] IN
    /\ At(r, "insertPart")
    /\ part[c] = Absent
    /\ part' = IF Exists(q.e) THEN [part EXCEPT ![c] = [kind |-> q.kind, of |-> q.e]]
               ELSE part
    /\ Goto(r, Idle)
    /\ UNCHANGED <<entry, history, started, been, raced, torn>>

BeginRemoveItem(r, e, c) ==
    /\ Editable(e)
    /\ Begin(r, e, [pc |-> "findItem", e |-> e, c |-> c])

\* Fault: an item of another entry is found too.
FindItemAny(r) ==
    LET q == request[r] IN
    /\ At(r, "findItem")
    /\ Goto(r, IF Parted(q.c) /\ part[q.c].kind = "item"
               THEN [pc |-> "deletePart", e |-> q.e, c |-> q.c] ELSE Idle)
    /\ UNCHANGED <<entry, part, history, started, been, raced, torn>>

FindItem(r) ==
    LET q == request[r] IN
    /\ At(r, "findItem")
    /\ Goto(r, IF part[q.c] = [kind |-> "item", of |-> q.e]
               THEN [pc |-> "deletePart", e |-> q.e, c |-> q.c] ELSE Idle)
    /\ UNCHANGED <<entry, part, history, started, been, raced, torn>>

\* removeParty, removeDocument: neither the status nor the row's entry is checked.
BeginRemovePart(r, e, c) ==
    /\ Exists(e)
    /\ Parted(c) /\ part[c].kind # "item"
    /\ Begin(r, e, [pc |-> "deletePart", e |-> e, c |-> c])

DeletePart(r) ==
    LET q == request[r] IN
    /\ At(r, "deletePart")
    /\ part' = [part EXCEPT ![q.c] = Gone]
    /\ Goto(r, Idle)
    /\ UNCHANGED <<entry, history, started, been, raced, torn>>

\* A statement fails or the process dies between two statements.
Abort(r) ==
    LET q == request[r] IN
    /\ q # Idle
    /\ Goto(r, Idle)
    /\ torn' = IF At(r, "insertHistory") THEN torn \cup {q.e} ELSE torn
    /\ UNCHANGED <<entry, part, history, started, been, raced>>

BeginOn(r, e) ==
    \/ \E v \in Contents : InsertEntry(r, e, v) \/ BeginUpdate(r, e, v)
    \/ BeginDelete(r, e)
    \/ \E s \in Statuses : BeginChangeStatus(r, e, s)
    \/ \E kind \in Kinds : BeginAddPart(r, e, kind)
    \/ \E c \in Parts : BeginRemoveItem(r, e, c) \/ BeginRemovePart(r, e, c)

Advance(r) ==
    \/ Update(r) \/ Delete(r) \/ WriteStatus(r) \/ InsertHistory(r)
    \/ \E c \in Parts : InsertPart(r, c)
    \/ FindItem(r) \/ DeletePart(r)
    \/ Abort(r)

Next == \E r \in Requests : Advance(r) \/ \E e \in Entries : BeginOn(r, e)

Spec == Init /\ [][Next]_vars

(***************************************************************************)
(* Properties.                                                             *)
(***************************************************************************)

\* The stages of the paperwork in the order of STATUS_TRANSITIONS.
Stage == <<"DRAFT", "PREVALIDATED", "VALIDATED", "PAID", "DISPATCHED",
           "RELEASED", "RECTIFIED">>

\* No stage is skipped, whatever requests interleave or die (changeStatus):
\* an entry that has been at a stage has been at every earlier one, although the
\* status a change starts from may be stale when it is written.
NoStageSkipped ==
    \A e \in Entries : \A i \in 1..6 : Stage[i + 1] \in been[e] => Stage[i] \in been[e]

IsPath(h) ==
    \A i \in DOMAIN h :
        IF i = 1 THEN h[1] = [previous |-> "NONE", new |-> "DRAFT"]
        ELSE h[i].previous = h[i - 1].new /\ h[i].new \in Transitions(h[i].previous)

\* The history tells how the entry got its status (createEntry, changeStatus):
\* between requests its rows are a path of allowed changes from DRAFT to the
\* present status.  Two requests at once, or a death between the two writes,
\* break it for good.
HistoryTells ==
    \A e \in Entries \ (raced \cup torn) :
        (Exists(e) /\ \A r \in Requests : ~Handling(r, e)) =>
            /\ history[e] # <<>>
            /\ IsPath(history[e])
            /\ history[e][Len(history[e])].new = entry[e].status

Items(e) == {c \in PartsOf(e) : part[c].kind = "item"}
Parties(e) == {c \in PartsOf(e) : part[c].kind = "party"}

\* What left the editable statuses is frozen (assertEditable): unless two
\* requests handled it at once, such an entry is not deleted, its columns and
\* its items stay, and it gains no party.
FrozenOnceValidated ==
    [][\A e \in Entries \ raced' :
         (Exists(e) /\ ~Editable(e)) =>
             /\ entry'[e] # Gone
             /\ entry'[e].content = entry[e].content
             /\ Items(e)' = Items(e)
             /\ Parties(e)' \subseteq Parties(e)]_vars

\* A finished entry stays finished (STATUS_TRANSITIONS): unless two requests
\* handled it at once, CANCELLED and RECTIFIED are final.
FinishedIsFinal ==
    [][\A e \in Entries \ raced' :
         (Exists(e) /\ entry[e].status \in {"CANCELLED", "RECTIFIED"}) =>
             entry'[e] = entry[e]]_vars

\* Ids are interchangeable.
Symmetry == Permutations(Requests) \cup Permutations(Parts) \cup
            Permutations(Entries) \cup Permutations(Contents)
=============================================================================
