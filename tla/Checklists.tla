----------------------------- MODULE Checklists -----------------------------
(***************************************************************************)
(* Checklists of documents, their items and progress, and the folders with *)
(* their paths: modules/document-management.                               *)
(*                                                                         *)
(* The progress is recalculated after every change of an item, from all    *)
(* items, in two statements.  A path is written once, when the folder is   *)
(* created, from the path of its parent.                                   *)
(***************************************************************************)
EXTENDS Handlers, Sequences, FiniteSets

CONSTANTS
    Ids,        \* ids of checklists
    Items,      \* ids of items
    Folders,    \* ids of folders
    Names,      \* names of folders
    None        \* no parent

VARIABLES
    checklist,  \* checklist[k]: the row of document_checklists
    item,       \* item[i]: the row of document_checklist_items
    folder,     \* folder[f]: the row of document_folders
    owed        \* history: checklists whose progress was not written after an item,
                \* because the handler stopped

management == <<checklist, item, folder, owed>>
vars == <<checklist, item, folder, owed, request, started, raced>>

\* checklistStatusEnum; nothing ever sets WAIVED
ChecklistStatuses == {"PENDING", "IN_PROGRESS", "COMPLETE", "WAIVED"}

\* checklistItemStatusEnum
ItemStatuses == {"REQUIRED", "RECEIVED", "VERIFIED", "REJECTED", "WAIVED", "NOT_APPLICABLE"}
DoneStatuses == {"RECEIVED", "VERIFIED", "WAIVED", "NOT_APPLICABLE"}

Counts == 0..Cardinality(Items)
ChecklistRow == [status : ChecklistStatuses, totalItems : Counts, completedItems : Counts]
ItemRow == [of : Ids, status : ItemStatuses]
\* path is the sequence of names between its slashes
FolderRow == [parent : Folders \cup {None}, name : Names, path : Seq(Names)]
Running ==
    [pc : {"deleteChecklist", "insertItem", "readItems"}, on : Ids]
    \cup [pc : {"findItem"}, op : {"updateItem", "deleteItem"}, on : Ids, i : Items,
          status : ItemStatuses]
    \cup [pc : {"updateItem", "deleteItem"}, on : Ids, i : Items, status : ItemStatuses]
    \cup [pc : {"writeProgress"}, on : Ids, row : ChecklistRow]
    \cup [pc : {"insertFolder"}, on : Folders, row : FolderRow]
    \cup [pc : {"updateFolder"}, on : Folders, name : Names]
    \cup [pc : {"deleteFolder"}, on : Folders]

TypeOK ==
    /\ checklist \in [Ids -> ChecklistRow \cup {Absent, Gone}]
    /\ item \in [Items -> ItemRow \cup {Absent, Gone}]
    /\ folder \in [Folders -> FolderRow \cup {Absent, Gone}]
    /\ owed \subseteq Ids
    /\ HandlersTypeOK(Running, Ids \cup Folders)

Init ==
    /\ checklist = [k \in Ids |-> Absent]
    /\ item = [i \in Items |-> Absent]
    /\ folder = [f \in Folders |-> Absent]
    /\ owed = {}
    /\ HandlersInit

\* getChecklistById, getFolderById
Found(k) == Present(checklist[k])
FolderFound(f) == Present(folder[f])

\* findItemsByChecklist
ItemsOf(k) == {i \in Items : Present(item[i]) /\ item[i].of = k}

\* Fault: what was rejected counts as done.
ProgressOfAll(items) ==
    LET done == {i \in items : item[i].status # "REQUIRED"}
        total == Cardinality(items)
        completed == Cardinality(done)
    IN [totalItems |-> total, completedItems |-> completed,
        status |-> CASE total > 0 /\ completed = total -> "COMPLETE"
                     [] completed > 0 /\ completed < total -> "IN_PROGRESS"
                     [] OTHER -> "PENDING"]

\* What recalculateChecklistProgress makes of the items.
Progress(items) ==
    LET done == {i \in items : item[i].status \in DoneStatuses}
        total == Cardinality(items)
        completed == Cardinality(done)
    IN [totalItems |-> total, completedItems |-> completed,
        status |-> CASE total > 0 /\ completed = total -> "COMPLETE"
                     [] completed > 0 /\ completed < total -> "IN_PROGRESS"
                     [] OTHER -> "PENDING"]

(***************************************************************************)
(* Checklists.                                                             *)
(***************************************************************************)

CreateChecklist(r, k) ==
    /\ checklist[k] = Absent
    /\ checklist' = [checklist EXCEPT ![k] =
                       [status |-> "PENDING", totalItems |-> 0, completedItems |-> 0]]
    /\ Once(r, k)
    /\ UNCHANGED <<item, folder, owed>>

BeginDeleteChecklist(r, k) ==
    /\ Found(k)
    /\ Start(r, [pc |-> "deleteChecklist", on |-> k])
    /\ UNCHANGED management

\* Items go with their checklist.
DeleteChecklist(r) ==
    LET k == request[r].on IN
    /\ At(r, "deleteChecklist")
    /\ checklist' = [checklist EXCEPT ![k] = Gone]
    /\ item' = [i \in Items |-> IF i \in ItemsOf(k) THEN Gone ELSE item[i]]
    /\ Finish(r)
    /\ UNCHANGED <<folder, owed>>

BeginAddItem(r, k) ==
    /\ Found(k)
    /\ Start(r, [pc |-> "insertItem", on |-> k])
    /\ UNCHANGED management

\* The foreign key refuses the item of a deleted checklist, which ends the handler.
InsertItem(r, i) ==
    LET k == request[r].on IN
    /\ At(r, "insertItem")
    /\ item[i] = Absent
    /\ IF Found(k)
       THEN /\ item' = [item EXCEPT ![i] = [of |-> k, status |-> "REQUIRED"]]
            /\ Goto(r, [pc |-> "readItems", on |-> k])
       ELSE UNCHANGED item /\ Finish(r)
    /\ UNCHANGED <<checklist, folder, owed>>

\* updateChecklistItem: any status may follow any other.
BeginUpdateItem(r, k, i, s) ==
    /\ Found(k)
    /\ Start(r, [pc |-> "findItem", op |-> "updateItem", on |-> k, i |-> i, status |-> s])
    /\ UNCHANGED management

\* removeChecklistItem
BeginRemoveItem(r, k, i) ==
    /\ Found(k)
    /\ Start(r, [pc |-> "findItem", op |-> "deleteItem", on |-> k, i |-> i, status |-> "REQUIRED"])
    /\ UNCHANGED management

FindItem(r) ==
    LET q == request[r] IN
    /\ At(r, "findItem")
    /\ IF q.i \in ItemsOf(q.on)
       THEN Goto(r, [pc |-> q.op, on |-> q.on, i |-> q.i, status |-> q.status])
       ELSE Finish(r)
    /\ UNCHANGED management

UpdateItem(r) ==
    LET q == request[r] IN
    /\ At(r, "updateItem")
    /\ item' = IF Present(item[q.i])
               THEN [item EXCEPT ![q.i].status = q.status] ELSE item
    /\ Goto(r, [pc |-> "readItems", on |-> q.on])
    /\ UNCHANGED <<checklist, folder, owed>>

DeleteItem(r) ==
    LET q == request[r] IN
    /\ At(r, "deleteItem")
    /\ item' = [item EXCEPT ![q.i] = Gone]
    /\ Goto(r, [pc |-> "readItems", on |-> q.on])
    /\ UNCHANGED <<checklist, folder, owed>>

\* recalculateChecklistProgress, its two statements
ReadItems(r) ==
    LET k == request[r].on IN
    /\ At(r, "readItems")
    /\ Goto(r, [pc |-> "writeProgress", on |-> k, row |-> Progress(ItemsOf(k))])
    /\ UNCHANGED management

WriteProgress(r) ==
    LET q == request[r] IN
    /\ At(r, "writeProgress")
    /\ checklist' = IF Found(q.on) THEN [checklist EXCEPT ![q.on] = q.row] ELSE checklist
    /\ Finish(r)
    /\ UNCHANGED <<item, folder, owed>>

(***************************************************************************)
(* Folders.                                                                *)
(***************************************************************************)

PathUnder(parent, name) ==
    IF parent = None THEN <<name>> ELSE Append(folder[parent].path, name)

BeginCreateFolder(r, f, parent, name) ==
    /\ folder[f] = Absent
    /\ ~Handled(f)
    /\ parent # None => FolderFound(parent)
    /\ Start(r, [pc |-> "insertFolder", on |-> f,
                 row |-> [parent |-> parent, name |-> name, path |-> PathUnder(parent, name)]])
    /\ UNCHANGED management

InsertFolder(r) ==
    LET q == request[r] IN
    /\ At(r, "insertFolder")
    /\ folder' = [folder EXCEPT ![q.on] = q.row]
    /\ Finish(r)
    /\ UNCHANGED <<checklist, item, owed>>

\* updateFolder: the name alone; paths stay.
BeginUpdateFolder(r, f, name) ==
    /\ FolderFound(f)
    /\ Start(r, [pc |-> "updateFolder", on |-> f, name |-> name])
    /\ UNCHANGED management

\* Fault: the path of the folder takes the new name.
UpdateFolderPath(r) ==
    LET q == request[r] IN
    /\ At(r, "updateFolder")
    /\ folder' = IF FolderFound(q.on)
                 THEN [folder EXCEPT ![q.on].name = q.name,
                                     ![q.on].path = [@ EXCEPT ![Len(@)] = q.name]]
                 ELSE folder
    /\ Finish(r)
    /\ UNCHANGED <<checklist, item, owed>>

UpdateFolder(r) ==
    LET q == request[r] IN
    /\ At(r, "updateFolder")
    /\ folder' = IF FolderFound(q.on) THEN [folder EXCEPT ![q.on].name = q.name] ELSE folder
    /\ Finish(r)
    /\ UNCHANGED <<checklist, item, owed>>

BeginDeleteFolder(r, f) ==
    /\ FolderFound(f)
    /\ Start(r, [pc |-> "deleteFolder", on |-> f])
    /\ UNCHANGED management

\* No key refers to a folder: what is under it stays, its parent gone.
DeleteFolder(r) ==
    /\ At(r, "deleteFolder")
    /\ folder' = [folder EXCEPT ![request[r].on] = Gone]
    /\ Finish(r)
    /\ UNCHANGED <<checklist, item, owed>>

Abort(r) ==
    /\ Stop(r)
    /\ owed' = IF request[r].pc \in {"readItems", "writeProgress"} THEN owed \cup {request[r].on}
               ELSE owed
    /\ UNCHANGED <<checklist, item, folder>>

Next ==
    \E r \in Requests :
        \/ \E k \in Ids :
            \/ CreateChecklist(r, k) \/ BeginDeleteChecklist(r, k) \/ BeginAddItem(r, k)
            \/ \E i \in Items :
                \/ BeginRemoveItem(r, k, i)
                \/ \E s \in ItemStatuses : BeginUpdateItem(r, k, i, s)
        \/ \E i \in Items : InsertItem(r, i)
        \/ \E f \in Folders :
            \/ BeginDeleteFolder(r, f)
            \/ \E name \in Names :
                \/ BeginUpdateFolder(r, f, name)
                \/ \E parent \in Folders \cup {None} : BeginCreateFolder(r, f, parent, name)
        \/ DeleteChecklist(r) \/ FindItem(r) \/ UpdateItem(r) \/ DeleteItem(r)
        \/ ReadItems(r) \/ WriteProgress(r)
        \/ InsertFolder(r) \/ UpdateFolder(r) \/ DeleteFolder(r) \/ Abort(r)

Spec == Init /\ [][Next]_vars

(***************************************************************************)
(* Properties.                                                             *)
(***************************************************************************)

\* Once no handler is under way, a checklist counts its items as they are and
\* is COMPLETE only when there are some and every one is received, verified,
\* waived or does not apply (recalculateChecklistProgress); unless two requests
\* handled it at once or one stopped before the progress was written.
ProgressTells ==
    \A k \in Ids \ (raced \cup owed) :
        Found(k) /\ ~Handled(k) =>
            LET open == {i \in ItemsOf(k) : item[i].status \in {"REQUIRED", "REJECTED"}} IN
            /\ checklist[k].totalItems = Cardinality(ItemsOf(k))
            /\ checklist[k].completedItems = Cardinality(ItemsOf(k)) - Cardinality(open)
            /\ checklist[k].status = "COMPLETE" <=> ItemsOf(k) # {} /\ open = {}

\* A folder lies below its parent by path, whatever was renamed since, as long
\* as the parent exists (createFolder; updateFolder leaves the path alone).
PathBelowParent ==
    \A f \in Folders : FolderFound(f) /\ folder[f].parent # None =>
        LET parent == folder[f].parent IN
        FolderFound(parent) => folder[f].path = Append(folder[parent].path, folder[f].path[Len(folder[f].path)])
=============================================================================
