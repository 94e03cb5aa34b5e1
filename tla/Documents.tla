----------------------------- MODULE Documents -----------------------------
(***************************************************************************)
(* Documents of operations, their versions, the files behind them and      *)
(* their categories: modules/documents, document-categories, storage.      *)
(*                                                                         *)
(* A file goes to the object store first, then a row says where it is, then *)
(* the document points to it.  The store overwrites what has the same key. *)
(***************************************************************************)
EXTENDS Handlers, Sequences, FiniteSets

CONSTANTS
    Ids,            \* ids of documents
    Categories,     \* ids of categories
    Codes,          \* codes of categories
    Files,          \* contents of files; a key names document and version
    None            \* no category

VARIABLES
    document,   \* document[d]: the row of documents
    versions,   \* versions[d]: the rows of document_versions, as inserted
    stored,     \* stored[d][n]: the file under the key of version n, or None
    category,   \* category[c]: the row of document_categories
    owed,       \* history: documents whose pointer was not written after a version
    late,       \* history: documents that took a category about to be deleted
    stripped    \* history: documents that lost their category to a delete

documents == <<document, versions, stored, category, owed, late, stripped>>
vars == <<document, versions, stored, category, owed, late, stripped, request, started, raced>>

Numbers == 1..MaxStarted
DocumentRow == [status : {"ACTIVE", "INACTIVE"}, current : Numbers, category : Categories \cup {None}]
\* gave is history: the file of the request; the key follows from the number
VersionRow == [number : Numbers, gave : Files]
CategoryRow == [code : Codes]
Running ==
    [pc : {"checkCategory", "upload"}, op : {"create"}, on : Ids, n : {1}, file : Files,
     category : Categories \cup {None}]
    \cup [pc : {"insertDocument", "insertVersion"}, op : {"create"}, on : Ids, n : {1}, file : Files,
          category : Categories \cup {None}]
    \cup [pc : {"upload", "insertVersion", "updatePointer"}, op : {"version"}, on : Ids,
          n : 2..(MaxStarted + 1), file : Files]
    \cup [pc : {"checkCategory", "update"}, op : {"update"}, on : Ids, category : Categories \cup {None},
          status : {"ACTIVE", "INACTIVE", "KEEP"}]
    \cup [pc : {"insertCategory"}, on : Codes]
    \cup [pc : {"hasDocuments", "deleteCategory"}, on : Categories]

TypeOK ==
    /\ document \in [Ids -> DocumentRow \cup {Absent}]
    /\ versions \in [Ids -> Seq(VersionRow)]
    /\ stored \in [Ids -> [Numbers -> Files \cup {None}]]
    /\ category \in [Categories -> CategoryRow \cup {Absent, Gone}]
    /\ owed \subseteq Ids /\ late \subseteq Ids /\ stripped \subseteq Ids
    /\ HandlersTypeOK(Running, Ids \cup Codes \cup Categories)

Init ==
    /\ document = [d \in Ids |-> Absent]
    /\ versions = [d \in Ids |-> <<>>]
    /\ stored = [d \in Ids |-> [n \in Numbers |-> None]]
    /\ category = [c \in Categories |-> Absent]
    /\ owed = {} /\ late = {} /\ stripped = {}
    /\ HandlersInit

Found(d) == Present(document[d])
InUse(c) == {d \in Ids : Found(d) /\ document[d].category = c}
AboutToGo(c) == \E r \in Requests : At(r, "deleteCategory") /\ request[r].on = c
Late(d, c) == IF c # None /\ AboutToGo(c) THEN late \cup {d} ELSE late

(***************************************************************************)
(* Documents.                                                              *)
(***************************************************************************)

\* create: the operation was found; the id is new.
BeginCreate(r, d, f, c) ==
    /\ document[d] = Absent
    /\ ~Handled(d)
    /\ Start(r, [pc |-> IF c = None THEN "upload" ELSE "checkCategory", op |-> "create",
                 on |-> d, n |-> 1, file |-> f, category |-> c])
    /\ UNCHANGED documents

\* update, and deactivate, which only sets the status
BeginUpdate(r, d, c, s) ==
    /\ Found(d)
    /\ Start(r, [pc |-> IF c = None THEN "update" ELSE "checkCategory", op |-> "update",
                 on |-> d, category |-> c, status |-> s])
    /\ UNCHANGED documents

\* validateCategory
CheckCategory(r) ==
    LET q == request[r] IN
    /\ At(r, "checkCategory")
    /\ IF Present(category[q.category])
       THEN Goto(r, [q EXCEPT !.pc = IF q.op = "create" THEN "upload" ELSE "update"])
       ELSE Finish(r)
    /\ UNCHANGED documents

\* What the request leaves out stays.  The foreign key refuses a deleted category.
Update(r) ==
    LET q == request[r]
        c == IF q.category = None THEN document[q.on].category ELSE q.category
        s == IF q.status = "KEEP" THEN document[q.on].status ELSE q.status
    IN
    /\ At(r, "update")
    /\ IF q.category = None \/ Present(category[q.category])
       THEN /\ document' = [document EXCEPT ![q.on].category = c, ![q.on].status = s]
            /\ late' = Late(q.on, q.category)
       ELSE UNCHANGED <<document, late>>
    /\ Finish(r)
    /\ UNCHANGED <<versions, stored, category, owed, stripped>>

\* uploadVersion
BeginUpload(r, d, f) ==
    /\ Found(d)
    /\ Start(r, [pc |-> "upload", op |-> "version", on |-> d, n |-> document[d].current + 1,
                 file |-> f])
    /\ UNCHANGED documents

\* Fault: the file is sent after the rows are written, if at all.
UploadLater(r) ==
    LET q == request[r] IN
    /\ At(r, "upload")
    /\ Goto(r, [q EXCEPT !.pc = IF q.op = "create" THEN "insertDocument" ELSE "insertVersion"])
    /\ UNCHANGED documents

Upload(r) ==
    LET q == request[r] IN
    /\ At(r, "upload")
    /\ stored' = [stored EXCEPT ![q.on][q.n] = q.file]
    /\ Goto(r, [q EXCEPT !.pc = IF q.op = "create" THEN "insertDocument" ELSE "insertVersion"])
    /\ UNCHANGED <<document, versions, category, owed, late, stripped>>

InsertDocument(r) ==
    LET q == request[r] IN
    /\ At(r, "insertDocument")
    /\ IF q.category = None \/ Present(category[q.category])
       THEN /\ document' = [document EXCEPT ![q.on] =
                              [status |-> "ACTIVE", current |-> 1, category |-> q.category]]
            /\ late' = Late(q.on, q.category)
            /\ Goto(r, [q EXCEPT !.pc = "insertVersion"])
       ELSE UNCHANGED <<document, late>> /\ Finish(r)
    /\ UNCHANGED <<versions, stored, category, owed, stripped>>

InsertVersion(r) ==
    LET q == request[r] IN
    /\ At(r, "insertVersion")
    /\ versions' = [versions EXCEPT ![q.on] = Append(@, [number |-> q.n, gave |-> q.file])]
    /\ IF q.op = "create" THEN Finish(r) ELSE Goto(r, [q EXCEPT !.pc = "updatePointer"])
    /\ UNCHANGED <<document, stored, category, owed, late, stripped>>

\* Fault: the pointer stays.
UpdatePointerNever(r) ==
    /\ At(r, "updatePointer")
    /\ Finish(r)
    /\ UNCHANGED documents

UpdatePointer(r) ==
    LET q == request[r] IN
    /\ At(r, "updatePointer")
    /\ document' = [document EXCEPT ![q.on].current = q.n]
    /\ Finish(r)
    /\ UNCHANGED <<versions, stored, category, owed, late, stripped>>

(***************************************************************************)
(* Categories.                                                             *)
(***************************************************************************)

\* Fault: a code in use is taken again.
BeginCreateCategoryAny(r, code) ==
    /\ Start(r, [pc |-> "insertCategory", on |-> code])
    /\ UNCHANGED documents

\* findByCodeAndOrg; no key of the database backs it.
BeginCreateCategory(r, code) ==
    /\ ~\E c \in Categories : Present(category[c]) /\ category[c].code = code
    /\ Start(r, [pc |-> "insertCategory", on |-> code])
    /\ UNCHANGED documents

InsertCategory(r, c) ==
    /\ At(r, "insertCategory")
    /\ category[c] = Absent
    /\ category' = [category EXCEPT ![c] = [code |-> request[r].on]]
    /\ Finish(r)
    /\ UNCHANGED <<document, versions, stored, owed, late, stripped>>

BeginRemoveCategory(r, c) ==
    /\ Present(category[c])
    /\ Start(r, [pc |-> "hasDocuments", on |-> c])
    /\ UNCHANGED documents

\* Fault: a category that documents use is removed.
HasDocumentsNever(r) ==
    /\ At(r, "hasDocuments")
    /\ Goto(r, [request[r] EXCEPT !.pc = "deleteCategory"])
    /\ UNCHANGED documents

\* hasDocumentsWithCategory
HasDocuments(r) ==
    LET q == request[r] IN
    /\ At(r, "hasDocuments")
    /\ IF InUse(q.on) = {} THEN Goto(r, [q EXCEPT !.pc = "deleteCategory"]) ELSE Finish(r)
    /\ UNCHANGED documents

\* The database sets the category of its documents to null.
DeleteCategory(r) ==
    LET c == request[r].on IN
    /\ At(r, "deleteCategory")
    /\ category' = [category EXCEPT ![c] = Gone]
    /\ document' = [d \in Ids |-> IF d \in InUse(c) THEN [document[d] EXCEPT !.category = None]
                                  ELSE document[d]]
    /\ stripped' = stripped \cup InUse(c)
    /\ Finish(r)
    /\ UNCHANGED <<versions, stored, owed, late>>

Abort(r) ==
    /\ Stop(r)
    /\ owed' = IF \/ At(r, "updatePointer")
                  \/ At(r, "insertVersion") /\ request[r].op = "create"
               THEN owed \cup {request[r].on} ELSE owed
    /\ UNCHANGED <<document, versions, stored, category, late, stripped>>

Next ==
    \E r \in Requests :
        \/ \E d \in Ids :
            \/ \E f \in Files :
                \/ \E c \in Categories \cup {None} : BeginCreate(r, d, f, c)
                \/ BeginUpload(r, d, f)
            \/ \E c \in Categories \cup {None}, s \in {"ACTIVE", "INACTIVE", "KEEP"} :
                BeginUpdate(r, d, c, s)
        \/ \E code \in Codes : BeginCreateCategory(r, code)
        \/ \E c \in Categories : InsertCategory(r, c) \/ BeginRemoveCategory(r, c)
        \/ CheckCategory(r) \/ Update(r) \/ Upload(r) \/ InsertDocument(r) \/ InsertVersion(r)
        \/ UpdatePointer(r) \/ HasDocuments(r) \/ DeleteCategory(r) \/ Abort(r)

Spec == Init /\ [][Next]_vars

(***************************************************************************)
(* Properties.                                                             *)
(***************************************************************************)

\* The versions of a document are numbered without gap or repetition, and the
\* document points to the last (uploadVersion), once no handler is under way;
\* unless two requests handled it at once or one stopped between two rows.
VersionsNumbered ==
    \A d \in Ids \ (raced \cup owed) :
        Found(d) /\ ~Handled(d) =>
            /\ \A i \in DOMAIN versions[d] : versions[d][i].number = i
            /\ document[d].current = Len(versions[d])

\* Every version has its file in the store, however handlers stop and overlap
\* (create and uploadVersion send the file first), and the file is the one it
\* was made of, unless two requests handled the document at once or one stopped
\* before the pointer was written: then the next version takes the same number,
\* and the same key when the file has the same name.
FilesKept ==
    \A d \in Ids : \A i \in DOMAIN versions[d] :
        LET file == stored[d][versions[d][i].number] IN
        /\ file # None
        /\ d \notin raced \cup owed => file = versions[d][i].gave

\* Removing a category takes it from no document but those that were given it
\* after the check for documents (remove).
CategoryInUseStays == stripped \subseteq late

\* No two categories have one code, unless two requests for it ran at once
\* (create looks for the code and inserts in two statements).
CodesDiffer ==
    \A c, e \in Categories :
        /\ Present(category[c]) /\ Present(category[e]) /\ c # e
        /\ category[c].code \notin raced
        => category[c].code # category[e].code
=============================================================================
