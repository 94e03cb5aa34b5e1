-------------------------- MODULE FilesProofs --------------------------
(***************************************************************************)
(* Proofs about the parts of MCServices that file, store and count on the  *)
(* side: documents, checklists, the warehouse, posts and jobs.  Each part  *)
(* has its inductive invariant and the lemma that every step of it keeps   *)
(* the invariant (DOInvStep and so on); ServicesProofs puts them together. *)
(***************************************************************************)
EXTENDS MCServices, Sequences, FiniteSetTheorems, TLAPS


(***************************************************************************)
(* Documents.                                                              *)
(***************************************************************************)

DOCreating(r) ==
    request[r].pc \in {"checkCategory", "upload", "insertDocument", "insertVersion"}
        /\ request[r].op = "create"
DOVersioning(r) ==
    request[r].pc \in {"upload", "insertVersion", "updatePointer"} /\ request[r].op = "version"
DOUpdating(r) == request[r].pc \in {"checkCategory", "update"} /\ request[r].op = "update"

\* The pointer is still to be written, or the first version.
DOPending(r) == DO!At(r, "updatePointer") \/ (DO!At(r, "insertVersion") /\ request[r].op = "create")

\* Two handlers of one document, code or category are remembered, and no
\* document is created twice.
DOAlone ==
    \A q, r \in Requests :
        request[q] # DO!Idle /\ request[r] # DO!Idle /\ request[q].on = request[r].on
            /\ (request[q].on \notin raced \/ (DOCreating(q) /\ DOCreating(r))) => q = r

\* There are no more versions than requests.
DOBounded ==
    /\ \A d \in Parts : DO!Found(d) => doc[d].current <= started
    /\ \A r \in Requests : DOCreating(r) \/ DOVersioning(r) => request[r].n <= started

\* A document is there once its handlers have found or inserted it, and a file
\* is sent before its row is written.
DOBegunBy(r) ==
    /\ DOCreating(r) => (DO!Found(request[r].on) <=> DO!At(r, "insertVersion"))
    /\ DOVersioning(r) \/ DOUpdating(r) => DO!Found(request[r].on)
    /\ request[r].pc \in {"insertDocument", "insertVersion"} => stored[request[r].on][request[r].n] # None

DOBegun == \A r \in Requests : DOBegunBy(r)

\* How far a handler that is alone is with its version.
DOPlaceOf(r) ==
    LET d == request[r].on
        n == request[r].n IN
    d \notin raced \cup unpointed =>
        /\ DOCreating(r) => versions[d] = <<>>
        /\ DOCreating(r) /\ DO!At(r, "insertVersion") => doc[d].current = 1
        /\ DOVersioning(r) => n = Len(versions[d]) + (IF DO!At(r, "updatePointer") THEN 0 ELSE 1)
        /\ request[r].pc \in {"insertDocument", "insertVersion"} => stored[d][n] = request[r].file

DOPlace == \A r \in Requests : DOPlaceOf(r)

\* The versions there are of a document, and its pointer unless it is pending.
DOVersionsOf(d) ==
    /\ ~DO!Found(d) => versions[d] = <<>>
    /\ d \notin raced \cup unpointed =>
        /\ \A i \in DOMAIN versions[d] : versions[d][i].number = i
        /\ DO!Found(d) /\ ~(\E r \in Requests : DOPending(r) /\ request[r].on = d) =>
               doc[d].current = Len(versions[d])

DOVersions == \A d \in Parts : DOVersionsOf(d)

\* The files of the versions of a document.
DOFilesOf(d) ==
    \A i \in DOMAIN versions[d] :
        LET file == stored[d][versions[d][i].number] IN
        /\ file # None
        /\ d \notin raced \cup unpointed => file = versions[d][i].gave

\* A category about to go is used by documents that came late alone.
DOLate == DO!CategoryInUseStays /\ \A r \in Requests : DO!At(r, "deleteCategory") => DO!InUse(request[r].on) \subseteq late

\* A code about to be taken is free.
DOFree ==
    \A r \in Requests, c \in Rows :
        DO!At(r, "insertCategory") /\ request[r].on \notin raced /\ DO!Present(category[c]) =>
               category[c].code # request[r].on

DOInv ==
    /\ DO!TypeOK /\ DOAlone /\ DOBounded /\ DOBegun /\ DOPlace /\ DOVersions /\ DOLate /\ DOFree
    /\ DO!FilesKept /\ DO!CodesDiffer

\* There are no documents at first.
LEMMA DOStart == DO!Init => DOInv
<1> SUFFICES ASSUME DO!Init PROVE DOInv
    OBVIOUS
<1>1. DO!TypeOK
  <2>1. DO!HandlersTypeOK(DO!Running, Parts \cup Others \cup Rows)
        BY StartedAssumption DEF DO!Init, DO!HandlersInit, DO!HandlersTypeOK
  <2>2. versions \in [Parts -> Seq(DO!VersionRow)]
        BY DEF DO!Init
  <2>3. /\ doc \in [Parts -> DO!DocumentRow \cup {DO!Absent}]
        /\ stored \in [Parts -> [DO!Numbers -> Contents \cup {None}]]
        /\ category \in [Rows -> DO!CategoryRow \cup {DO!Absent, DO!Gone}]
        /\ unpointed \subseteq Parts /\ late \subseteq Parts /\ stripped \subseteq Parts
        BY DEF DO!Init
  <2> QED BY <2>1, <2>2, <2>3 DEF DO!TypeOK
<1>2. \A r \in Requests : request[r] = DO!Idle
      BY DEF DO!Init, DO!HandlersInit
<1>3. /\ \A d \in Parts : ~DO!Found(d) /\ versions[d] = <<>>
      /\ \A c \in Rows : ~DO!Present(category[c])
      /\ stripped = {}
      BY DEF DO!Init, DO!Found, DO!Present, DO!Absent, DO!Gone
<1>4. \A r \in Requests : /\ ~DOCreating(r) /\ ~DOVersioning(r) /\ ~DOUpdating(r)
                           /\ ~DO!At(r, "deleteCategory") /\ ~DO!At(r, "insertCategory")
                           /\ request[r].pc \notin {"insertDocument", "insertVersion"}
  <2>1. DO!Idle.pc = "idle"
        BY DEF DO!Idle
  <2>2. \A r \in Requests : request[r].pc = "idle"
        BY <1>2, <2>1
  <2> QED BY <2>2 DEF DOCreating, DOVersioning, DOUpdating, DO!At
<1>5. DOAlone /\ DOBounded /\ DOBegun /\ DOPlace
      BY <1>2, <1>3, <1>4 DEF DOAlone, DOBounded, DOBegun, DOBegunBy, DOPlace, DOPlaceOf
<1>6. DOVersions /\ DO!FilesKept
      BY <1>3 DEF DOVersions, DOVersionsOf, DO!FilesKept
<1>7. DOLate /\ DOFree /\ DO!CodesDiffer
      BY <1>3, <1>4 DEF DOLate, DO!CategoryInUseStays, DOFree, DO!CodesDiffer
<1> QED BY <1>1, <1>5, <1>6, <1>7 DEF DOInv

\* A row that is there is not absent, and what it says.
LEMMA DORows ==
    /\ \A x \in DO!DocumentRow \cup DO!CategoryRow : DO!Present(x)
    /\ ~DO!Present(DO!Absent) /\ ~DO!Present(DO!Gone)
    /\ DO!TypeOK => \A d \in Parts : DO!Found(d) =>
           /\ doc[d] \in DO!DocumentRow /\ doc[d].current \in Nat
           /\ doc[d].category \in Rows \cup {None}
    /\ DO!TypeOK => \A c \in Rows : DO!Present(category[c]) => category[c] \in DO!CategoryRow
BY StartedAssumption DEF DO!DocumentRow, DO!CategoryRow, DO!Numbers, DO!Absent, DO!Gone,
   DO!Present, DO!Found, DO!TypeOK

\* What a handler is about.
LEMMA DOTyped ==
    DO!TypeOK => \A r \in Requests :
        /\ DOCreating(r) \/ DOVersioning(r) => /\ request[r].on \in Parts /\ request[r].n \in Nat
                                               /\ request[r].n >= 1 /\ request[r].file \in Contents
        /\ DOCreating(r) => request[r].n = 1 /\ request[r].category \in Rows \cup {None}
        /\ DOUpdating(r) => request[r].on \in Parts /\ request[r].category \in Rows \cup {None}
                                /\ request[r].status \in {"ACTIVE", "INACTIVE", "KEEP"}
        /\ request[r].pc \in {"hasDocuments", "deleteCategory"} => request[r].on \in Rows
        /\ DO!At(r, "insertCategory") => request[r].on \in Others
        /\ request[r].pc \in {"checkCategory", "upload", "insertDocument", "insertVersion", "update", "updatePointer"} =>
               DOCreating(r) \/ DOVersioning(r) \/ DOUpdating(r)
        /\ request[r].pc = "insertDocument" => DOCreating(r)
        /\ request[r].pc = "update" => DOUpdating(r)
        /\ request[r].pc = "updatePointer" => DOVersioning(r)
        /\ request[r].pc \in {"upload", "insertVersion"} => DOCreating(r) \/ DOVersioning(r)
        /\ request[r].pc = "checkCategory" => DOCreating(r) \/ DOUpdating(r)
<1> SUFFICES ASSUME DO!TypeOK, NEW r \in Requests
             PROVE
        /\ DOCreating(r) \/ DOVersioning(r) => /\ request[r].on \in Parts /\ request[r].n \in Nat
                                               /\ request[r].n >= 1 /\ request[r].file \in Contents
        /\ DOCreating(r) => request[r].n = 1 /\ request[r].category \in Rows \cup {None}
        /\ DOUpdating(r) => request[r].on \in Parts /\ request[r].category \in Rows \cup {None}
                                /\ request[r].status \in {"ACTIVE", "INACTIVE", "KEEP"}
        /\ request[r].pc \in {"hasDocuments", "deleteCategory"} => request[r].on \in Rows
        /\ DO!At(r, "insertCategory") => request[r].on \in Others
        /\ request[r].pc \in {"checkCategory", "upload", "insertDocument", "insertVersion", "update", "updatePointer"} =>
               DOCreating(r) \/ DOVersioning(r) \/ DOUpdating(r)
        /\ request[r].pc = "insertDocument" => DOCreating(r)
        /\ request[r].pc = "update" => DOUpdating(r)
        /\ request[r].pc = "updatePointer" => DOVersioning(r)
        /\ request[r].pc \in {"upload", "insertVersion"} => DOCreating(r) \/ DOVersioning(r)
        /\ request[r].pc = "checkCategory" => DOCreating(r) \/ DOUpdating(r)
    OBVIOUS
<1>1. request[r] \in DO!Running \cup {DO!Idle}
      BY DEF DO!TypeOK, DO!HandlersTypeOK
<1> QED BY <1>1, StartedAssumption DEF DO!Running, DO!Idle, DO!At, DOCreating, DOVersioning,
           DOUpdating

\* A version more.
LEMMA DOOneMore ==
    ASSUME NEW s \in Seq(DO!VersionRow), NEW row \in DO!VersionRow
    PROVE  /\ Append(s, row) \in Seq(DO!VersionRow) /\ Len(s) \in Nat /\ Len(Append(s, row)) = Len(s) + 1
           /\ DOMAIN s = 1..Len(s) /\ DOMAIN Append(s, row) = 1..(Len(s) + 1)
           /\ \A n \in DOMAIN s : Append(s, row)[n] = s[n]
           /\ Append(s, row)[Len(s) + 1] = row
OBVIOUS

\* A handler goes on, all it holds kept, or is over.
DOGone(r) ==
    /\ request[r] # DO!Idle /\ UNCHANGED <<started, raced>>
    /\ \A q \in Requests \ {r} : request'[q] = request[q]
    /\ request' \in [Requests -> DO!Running \cup {DO!Idle}]
DOOver(r) == DOGone(r) /\ request'[r] = DO!Idle
DOGoes(r, pc) ==
    /\ DOGone(r) /\ request'[r].pc = pc /\ request'[r] # DO!Idle /\ request'[r].on = request[r].on
    /\ pc # "deleteCategory" => request'[r].op = request[r].op
    /\ DOCreating(r) \/ DOVersioning(r) =>
           request'[r].n = request[r].n /\ request'[r].file = request[r].file

DONextPc(r) ==
    CASE DO!At(r, "checkCategory") -> IF request[r].op = "create" THEN "upload" ELSE "update"
      [] DO!At(r, "upload") -> IF request[r].op = "create" THEN "insertDocument" ELSE "insertVersion"
      [] DO!At(r, "insertDocument") -> "insertVersion"
      [] DO!At(r, "insertVersion") -> "updatePointer"
      [] DO!At(r, "hasDocuments") -> "deleteCategory"

\* A handler that goes on keeps what it works on.
LEMMA DOGo ==
    ASSUME DO!TypeOK, NEW r \in Requests,
           request[r].pc \in {"checkCategory", "upload", "insertDocument", "insertVersion", "hasDocuments"},
           DO!At(r, "insertVersion") => request[r].op # "create",
           DO!Goto(r, [request[r] EXCEPT !.pc = DONextPc(r)])
    PROVE  DOGoes(r, DONextPc(r))
<1> DEFINE h == [request[r] EXCEPT !.pc = DONextPc(r)]
<1>1. request[r] \in DO!Running
      BY DEF DO!TypeOK, DO!HandlersTypeOK, DO!Idle
<1>2. h \in DO!Running /\ h # DO!Idle /\ h.pc = DONextPc(r) /\ h.on = request[r].on
          /\ (h.pc # "deleteCategory" => h.op = request[r].op)
          /\ (DOCreating(r) \/ DOVersioning(r) => h.n = request[r].n /\ h.file = request[r].file)
  <2>1. CASE request[r] \in [pc : {"checkCategory", "upload"}, op : {"create"}, on : Parts, n : {1}, file : Contents,
                             category : Rows \cup {None}]
        BY <2>1 DEF DO!Running, DONextPc, DO!At, DO!Idle, DOCreating, DOVersioning
  <2>2. CASE request[r] \in [pc : {"insertDocument", "insertVersion"}, op : {"create"}, on : Parts, n : {1}, file : Contents,
                             category : Rows \cup {None}]
        BY <2>2 DEF DO!Running, DONextPc, DO!At, DO!Idle, DOCreating, DOVersioning
  <2>3. CASE request[r] \in [pc : {"upload", "insertVersion", "updatePointer"}, op : {"version"}, on : Parts,
                             n : 2..(DOStarted + 1), file : Contents]
        BY <2>3 DEF DO!Running, DONextPc, DO!At, DO!Idle, DOCreating, DOVersioning
  <2>4. CASE request[r] \in [pc : {"checkCategory", "update"}, op : {"update"}, on : Parts,
                             category : Rows \cup {None}, status : {"ACTIVE", "INACTIVE", "KEEP"}]
        BY <2>4 DEF DO!Running, DONextPc, DO!At, DO!Idle, DOCreating, DOVersioning
  <2>5. CASE request[r] \in [pc : {"hasDocuments", "deleteCategory"}, on : Rows]
        BY <2>5 DEF DO!Running, DONextPc, DO!At, DO!Idle, DOCreating, DOVersioning
  <2>6. CASE request[r] \in [pc : {"insertCategory"}, on : Others]
        BY <2>6
  <2> QED BY <1>1, <2>1, <2>2, <2>3, <2>4, <2>5, <2>6 DEF DO!Running
<1>3. request' = [request EXCEPT ![r] = h] /\ UNCHANGED <<started, raced>>
      BY DEF DO!Goto
<1> HIDE DEF h
<1>4. request'[r] = h /\ (\A q \in Requests \ {r} : request'[q] = request[q])
          /\ request' \in [Requests -> DO!Running \cup {DO!Idle}]
      BY <1>2, <1>3 DEF DO!TypeOK, DO!HandlersTypeOK
<1>5. request[r] # DO!Idle
      BY DEF DO!Idle
<1> QED BY <1>2, <1>3, <1>4, <1>5 DEF DOGoes, DOGone

\* A handler is over.
LEMMA DOEnd ==
    ASSUME DO!TypeOK, NEW r \in Requests, request[r] # DO!Idle, DO!Finish(r)
    PROVE  DOOver(r)
BY DEF DO!TypeOK, DO!HandlersTypeOK, DO!Finish, DO!Goto, DOOver, DOGone

\* A handler begins.
DOBegins(r, h) ==
    /\ request[r] = DO!Idle /\ request'[r] = h
    /\ \A q \in Requests \ {r} : request'[q] = request[q]
    /\ started \in Nat /\ started' = started + 1 /\ raced \subseteq raced'
    /\ (\E q \in Requests : request[q] # DO!Idle /\ request[q].on = h.on) => h.on \in raced'
    /\ UNCHANGED <<doc, versions, stored, category, unpointed, late, stripped>>

\* Beginning changes the handler, and remembers whom it meets.
LEMMA DOBegin ==
    ASSUME DO!TypeOK, NEW r \in Requests, NEW h, DO!Start(r, h), UNCHANGED DO!documents
    PROVE  DOBegins(r, h)
BY StartedAssumption DEF DO!TypeOK, DO!HandlersTypeOK, DO!Start, DO!Handled, DO!documents,
   DOBegins


\* A document is updated: its number stays.
DOUpdated(r) ==
    /\ request[r].on \in Parts /\ DO!Found(request[r].on)
    /\ doc' \in [Parts -> DO!DocumentRow \cup {DO!Absent}] /\ late' \subseteq Parts
    /\ \A d \in Parts \ {request[r].on} : doc'[d] = doc[d]
    /\ DO!Present(doc'[request[r].on])
    /\ doc'[request[r].on].current = doc[request[r].on].current
    /\ \A c \in Rows : doc'[request[r].on].category = c =>
           \/ doc[request[r].on].category = c
           \/ request[r].category = c /\ late' = DO!Late(request[r].on, c)
    /\ late \subseteq late'

\* Updating a document leaves its number, and every other document.
LEMMA DOUpdate ==
    ASSUME DOInv, NEW r \in Requests, DO!Update(r)
    PROVE  DOUpdated(r)
<1> DEFINE d == request[r].on
           c == IF request[r].category = None THEN doc[d].category ELSE request[r].category
           s == IF request[r].status = "KEEP" THEN doc[d].status ELSE request[r].status
           row == [doc[d] EXCEPT !.category = c, !.status = s]
<1>1. /\ d \in Parts /\ DO!Found(d) /\ doc[d] \in DO!DocumentRow /\ request[r].category \in Rows \cup {None}
      /\ request[r].status \in {"ACTIVE", "INACTIVE", "KEEP"}
      BY DOTyped, DORows DEF DO!Update, DO!At, DOInv, DOBegun, DOBegunBy
<1>2. c \in Rows \cup {None} /\ s \in {"ACTIVE", "INACTIVE"}
      BY <1>1 DEF DO!DocumentRow
<1>3. late \subseteq Parts /\ late \subseteq late' /\ late' \subseteq Parts
      BY <1>1 DEF DO!Update, DO!Late, DOInv, DO!TypeOK
<1>4. CASE request[r].category = None \/ DO!Present(category[request[r].category])
  <2>1. doc' = [doc EXCEPT ![d] = row] /\ late' = DO!Late(d, request[r].category)
        BY <1>4 DEF DO!Update, DOInv, DO!TypeOK
  <2>2. c = doc[d].category \/ c = request[r].category
        OBVIOUS
  <2> HIDE DEF c, s
  <2>3. row \in DO!DocumentRow /\ row.current = doc[d].current /\ row.category = c
        BY <1>1, <1>2 DEF DO!DocumentRow
  <2> HIDE DEF row
  <2>4. doc'[d] = row /\ (\A e \in Parts \ {d} : doc'[e] = doc[e])
            /\ doc' \in [Parts -> DO!DocumentRow \cup {DO!Absent}] /\ DO!Present(row)
        BY <1>1, <2>1, <2>3, DORows DEF DOInv, DO!TypeOK
  <2> QED BY <1>1, <1>3, <2>1, <2>2, <2>3, <2>4 DEF DOUpdated
<1>5. CASE ~(request[r].category = None \/ DO!Present(category[request[r].category]))
      BY <1>1, <1>3, <1>5 DEF DO!Update, DOUpdated, DOInv, DO!TypeOK, DO!Found
<1> QED BY <1>4, <1>5

\* A document points to its version: all else it says stays.
DOPoints(r) ==
    /\ request[r].on \in Parts /\ DO!Found(request[r].on)
    /\ doc' \in [Parts -> DO!DocumentRow \cup {DO!Absent}]
    /\ \A d \in Parts \ {request[r].on} : doc'[d] = doc[d]
    /\ DO!Present(doc'[request[r].on])
    /\ doc'[request[r].on].current = request[r].n
    /\ doc'[request[r].on].category = doc[request[r].on].category

\* Writing the pointer changes the version of that document only.
LEMMA DOPoint ==
    ASSUME DOInv, NEW r \in Requests, DO!UpdatePointer(r)
    PROVE  DOPoints(r)
<1> DEFINE d == request[r].on
           n == request[r].n
           row == [doc[d] EXCEPT !.current = n]
<1>1. d \in Parts /\ DO!Found(d) /\ doc[d] \in DO!DocumentRow /\ n \in DO!Numbers
      BY DOTyped, DORows, StartedAssumption DEF DO!UpdatePointer, DO!At, DOInv, DOBegun,
         DOBegunBy, DOBounded, DO!Numbers, DO!TypeOK, DO!HandlersTypeOK
<1>2. doc' = [doc EXCEPT ![d] = row]
      BY DEF DO!UpdatePointer, DOInv, DO!TypeOK
<1> HIDE DEF n
<1>3. row \in DO!DocumentRow /\ row.current = n /\ row.category = doc[d].category
      BY <1>1 DEF DO!DocumentRow
<1> HIDE DEF row
<1>4. doc'[d] = row /\ (\A e \in Parts \ {d} : doc'[e] = doc[e])
          /\ doc' \in [Parts -> DO!DocumentRow \cup {DO!Absent}] /\ DO!Present(row)
      BY <1>1, <1>2, <1>3, DORows DEF DOInv, DO!TypeOK
<1> QED BY <1>1, <1>3, <1>4 DEF DOPoints, n

\* The documents of a category lose it, and nothing else.
DOStrips(r) ==
    /\ request[r].on \in Rows /\ request[r].on # None
    /\ doc' \in [Parts -> DO!DocumentRow \cup {DO!Absent}]
    /\ category' \in [Rows -> DO!CategoryRow \cup {DO!Absent, DO!Gone}]
    /\ ~DO!Present(category'[request[r].on]) /\ \A c \in Rows \ {request[r].on} : category'[c] = category[c]
    /\ \A d \in Parts : /\ DO!Present(doc'[d]) <=> DO!Found(d)
                        /\ DO!Found(d) => doc'[d].current = doc[d].current
                        /\ DO!Found(d) => doc'[d].category = doc[d].category \/ doc'[d].category = None
    /\ stripped' = stripped \cup DO!InUse(request[r].on) /\ DO!InUse(request[r].on) \subseteq Parts

\* Deleting a category takes it from the documents in it, and nothing else from them.
LEMMA DOStrip ==
    ASSUME DOInv, NEW r \in Requests, DO!DeleteCategory(r)
    PROVE  DOStrips(r)
<1>1. request[r].on \in Rows /\ request[r].on # None
      BY DOTyped, NoneAssumption DEF DO!DeleteCategory, DO!At, DOInv
<1>2. ASSUME NEW d \in Parts, NEW row, row = [doc[d] EXCEPT !.category = None], DO!Found(d)
      PROVE  row \in DO!DocumentRow /\ row.current = doc[d].current /\ row.category = None
      BY <1>2, DORows DEF DO!DocumentRow, DOInv
<1>3. /\ doc' \in [Parts -> DO!DocumentRow \cup {DO!Absent}]
      /\ \A d \in Parts : /\ DO!Present(doc'[d]) <=> DO!Found(d)
                          /\ DO!Found(d) => doc'[d].current = doc[d].current
                          /\ DO!Found(d) => doc'[d].category = doc[d].category \/ doc'[d].category = None
  <2>1. ASSUME NEW d \in Parts, d \in DO!InUse(request[r].on)
        PROVE  DO!Found(d) /\ doc'[d] \in DO!DocumentRow /\ doc'[d].current = doc[d].current
                   /\ doc'[d].category = None
    <3>1. DO!Found(d)
          BY <2>1 DEF DO!InUse
    <3>2. doc'[d] = [doc[d] EXCEPT !.category = None]
          BY <2>1 DEF DO!DeleteCategory
    <3> QED BY <3>1, <3>2, <1>2
  <2>2. ASSUME NEW d \in Parts, d \notin DO!InUse(request[r].on)
        PROVE  doc'[d] = doc[d]
        BY <2>2 DEF DO!DeleteCategory
  <2>3. doc' = [d \in Parts |-> doc'[d]]
        BY DEF DO!DeleteCategory
  <2>4. \A d \in Parts : doc[d] \in DO!DocumentRow \cup {DO!Absent}
        BY DEF DOInv, DO!TypeOK
  <2>5. doc' \in [Parts -> DO!DocumentRow \cup {DO!Absent}]
        BY <2>1, <2>2, <2>3, <2>4
  <2> QED BY <2>1, <2>2, <2>5, DORows DEF DO!Found
<1>4. /\ category' \in [Rows -> DO!CategoryRow \cup {DO!Absent, DO!Gone}]
      /\ category'[request[r].on] = DO!Gone /\ \A c \in Rows \ {request[r].on} : category'[c] = category[c]
      BY <1>1 DEF DO!DeleteCategory, DOInv, DO!TypeOK
<1> QED BY <1>1, <1>3, <1>4, DORows DEF DO!DeleteCategory, DOStrips, DO!InUse

\* How a handler goes on.
LEMMA DOWays ==
    ASSUME DO!TypeOK, NEW r \in Requests
    PROVE  /\ DO!CheckCategory(r) => DOGone(r) /\ (DOGoes(r, DONextPc(r)) \/ DOOver(r))
           /\ DO!Upload(r) => DOGone(r) /\ DOGoes(r, DONextPc(r))
           /\ DO!InsertDocument(r) => DOGone(r) /\ (DOGoes(r, DONextPc(r)) \/ (DOOver(r) /\ UNCHANGED <<doc, late>>))
           /\ DO!InsertVersion(r) => DOGone(r) /\ (IF request[r].op = "create" THEN DOOver(r) ELSE DOGoes(r, DONextPc(r)))
           /\ DO!HasDocuments(r) => DOGone(r) /\ ((DOGoes(r, DONextPc(r)) /\ DO!InUse(request[r].on) = {}) \/ DOOver(r))
           /\ DO!Update(r) \/ DO!UpdatePointer(r) \/ DO!DeleteCategory(r) \/ DO!Abort(r) => DOGone(r) /\ DOOver(r)
           /\ \A c \in Rows : DO!InsertCategory(r, c) => DOGone(r) /\ DOOver(r)
<1>1. DOGoes(r, DONextPc(r)) \/ DOOver(r) => DOGone(r)
      BY DEF DOGoes, DOOver
<1>2. \A pc : pc # "idle" /\ DO!At(r, pc) => request[r] # DO!Idle
      BY DEF DO!At, DO!Idle
<1>3. DO!CheckCategory(r) => DOGoes(r, DONextPc(r)) \/ DOOver(r)
  <2> SUFFICES ASSUME DO!CheckCategory(r) PROVE DOGoes(r, DONextPc(r)) \/ DOOver(r)
      OBVIOUS
  <2>1. DO!At(r, "checkCategory") /\ request[r] # DO!Idle
        BY <1>2 DEF DO!CheckCategory
  <2>2. CASE DO!Present(category[request[r].category])
        BY <2>1, <2>2, DOGo DEF DO!CheckCategory, DONextPc, DO!At
  <2>3. CASE ~DO!Present(category[request[r].category])
        BY <2>1, <2>3, DOEnd DEF DO!CheckCategory
  <2> QED BY <2>2, <2>3
<1>4. DO!Upload(r) => DOGoes(r, DONextPc(r))
      BY DOGo DEF DO!Upload, DONextPc, DO!At
<1>5. DO!InsertDocument(r) => DOGoes(r, DONextPc(r)) \/ (DOOver(r) /\ UNCHANGED <<doc, late>>)
  <2> SUFFICES ASSUME DO!InsertDocument(r) PROVE DOGoes(r, DONextPc(r)) \/ (DOOver(r) /\ UNCHANGED <<doc, late>>)
      OBVIOUS
  <2>1. DO!At(r, "insertDocument") /\ request[r] # DO!Idle
        BY <1>2 DEF DO!InsertDocument
  <2>2. CASE request[r].category = None \/ DO!Present(category[request[r].category])
        BY <2>1, <2>2, DOGo DEF DO!InsertDocument, DONextPc, DO!At
  <2>3. CASE ~(request[r].category = None \/ DO!Present(category[request[r].category]))
        BY <2>1, <2>3, DOEnd DEF DO!InsertDocument
  <2> QED BY <2>2, <2>3
<1>6. DO!InsertVersion(r) => IF request[r].op = "create" THEN DOOver(r) ELSE DOGoes(r, DONextPc(r))
  <2> SUFFICES ASSUME DO!InsertVersion(r) PROVE IF request[r].op = "create" THEN DOOver(r) ELSE DOGoes(r, DONextPc(r))
      OBVIOUS
  <2>1. DO!At(r, "insertVersion") /\ request[r] # DO!Idle
        BY <1>2 DEF DO!InsertVersion
  <2>2. CASE request[r].op = "create"
        BY <2>1, <2>2, DOEnd DEF DO!InsertVersion
  <2>3. CASE request[r].op # "create"
        BY <2>1, <2>3, DOGo DEF DO!InsertVersion, DONextPc, DO!At
  <2> QED BY <2>2, <2>3
<1>7. DO!HasDocuments(r) => (DOGoes(r, DONextPc(r)) /\ DO!InUse(request[r].on) = {}) \/ DOOver(r)
  <2> SUFFICES ASSUME DO!HasDocuments(r) PROVE (DOGoes(r, DONextPc(r)) /\ DO!InUse(request[r].on) = {}) \/ DOOver(r)
      OBVIOUS
  <2>1. DO!At(r, "hasDocuments") /\ request[r] # DO!Idle
        BY <1>2 DEF DO!HasDocuments
  <2>2. CASE DO!InUse(request[r].on) = {}
        BY <2>1, <2>2, DOGo DEF DO!HasDocuments, DONextPc, DO!At
  <2>3. CASE DO!InUse(request[r].on) # {}
        BY <2>1, <2>3, DOEnd DEF DO!HasDocuments
  <2> QED BY <2>2, <2>3
<1>8. DO!Update(r) \/ DO!UpdatePointer(r) \/ DO!DeleteCategory(r) \/ DO!Abort(r) => DOOver(r)
      BY <1>2, DOEnd DEF DO!Update, DO!UpdatePointer, DO!DeleteCategory, DO!Abort, DO!Stop
<1>9. \A c \in Rows : DO!InsertCategory(r, c) => DOOver(r)
      BY <1>2, DOEnd DEF DO!InsertCategory
<1> QED BY <1>1, <1>3, <1>4, <1>5, <1>6, <1>7, <1>8, <1>9

\* Handlers that go on are about what they were about.
DOStays(r) ==
    /\ UNCHANGED <<started, raced>>
    /\ \A q \in Requests :
        /\ request'[q] # DO!Idle => request[q] # DO!Idle /\ request'[q].on = request[q].on
        /\ DOCreating(q)' => DOCreating(q) /\ request'[q].n = request[q].n /\ request'[q].file = request[q].file
        /\ DOVersioning(q)' => DOVersioning(q) /\ request'[q].n = request[q].n /\ request'[q].file = request[q].file
        /\ DOUpdating(q)' => DOUpdating(q)
        /\ ~DO!At(q, "insertCategory") => ~DO!At(q, "insertCategory")'
        /\ DO!At(q, "deleteCategory")' => DO!At(q, "deleteCategory") \/ (q = r /\ DO!At(q, "hasDocuments"))
        /\ q # r => request'[q] = request[q]
    /\ request'[r] # DO!Idle => request'[r].pc = DONextPc(r)

\* A handler that goes on or ends leaves the others and what was met alone.
LEMMA DOStay ==
    ASSUME DO!TypeOK, NEW r \in Requests,
           \/ DOOver(r)
           \/ /\ DOGoes(r, DONextPc(r))
              /\ request[r].pc \in {"checkCategory", "upload", "insertDocument", "insertVersion", "hasDocuments"}
              /\ DO!At(r, "insertVersion") => request[r].op # "create"
    PROVE  DOStays(r)
<1>1. CASE DOOver(r)
      BY <1>1 DEF DOOver, DOGone, DOStays, DOCreating, DOVersioning, DOUpdating, DO!At, DO!Idle
<1>2. CASE /\ DOGoes(r, DONextPc(r))
           /\ request[r].pc \in {"checkCategory", "upload", "insertDocument", "insertVersion", "hasDocuments"}
           /\ DO!At(r, "insertVersion") => request[r].op # "create"
  <2>1. request'[r].pc = DONextPc(r) /\ request'[r].on = request[r].on /\ request[r] # DO!Idle
            /\ \A q \in Requests \ {r} : request'[q] = request[q]
        BY <1>2 DEF DOGoes, DOGone
  <2>2. DONextPc(r) # "insertCategory" /\ (DONextPc(r) = "deleteCategory" <=> DO!At(r, "hasDocuments"))
        BY <1>2 DEF DONextPc, DO!At
  <2>3. /\ DOCreating(r)' => DOCreating(r) /\ request'[r].n = request[r].n /\ request'[r].file = request[r].file
        /\ DOVersioning(r)' => DOVersioning(r) /\ request'[r].n = request[r].n /\ request'[r].file = request[r].file
        /\ DOUpdating(r)' => DOUpdating(r)
        BY <1>2, DOTyped DEF DOGoes, DONextPc, DO!At, DOCreating, DOVersioning, DOUpdating
  <2>4. \A q \in Requests \ {r} : (DOCreating(q)' <=> DOCreating(q)) /\ (DOVersioning(q)' <=> DOVersioning(q))
            /\ (DOUpdating(q)' <=> DOUpdating(q)) /\ \A pc : DO!At(q, pc)' <=> DO!At(q, pc)
        BY <2>1 DEF DOCreating, DOVersioning, DOUpdating, DO!At
  <2> HIDE DEF DONextPc
  <2> QED BY <1>2, <2>1, <2>2, <2>3, <2>4 DEF DOGoes, DOGone, DOStays, DO!At
<1> QED BY <1>1, <1>2

\* So does every statement of a handler.
LEMMA DOStayed ==
    ASSUME DO!TypeOK, NEW r \in Requests,
           \/ DO!CheckCategory(r) \/ DO!Upload(r) \/ DO!InsertDocument(r) \/ DO!InsertVersion(r) \/ DO!HasDocuments(r)
           \/ DO!Update(r) \/ DO!UpdatePointer(r) \/ DO!DeleteCategory(r) \/ DO!Abort(r)
           \/ \E c \in Rows : DO!InsertCategory(r, c)
    PROVE  DOStays(r) /\ request[r] # DO!Idle
<1>1. CASE DOOver(r)
      BY <1>1, DOStay DEF DOOver, DOGone
<1>2. CASE DOGoes(r, DONextPc(r)) /\ ~DOOver(r)
  <2>1. /\ request[r].pc \in {"checkCategory", "upload", "insertDocument", "insertVersion", "hasDocuments"}
        /\ DO!At(r, "insertVersion") => request[r].op # "create"
        BY <1>2, DOWays DEF DO!CheckCategory, DO!Upload, DO!InsertDocument, DO!InsertVersion,
           DO!HasDocuments, DO!At
  <2> QED BY <1>2, <2>1, DOStay DEF DOGoes, DOGone
<1> QED BY <1>1, <1>2, DOWays

\* A step of one handler that touches one document at most: it is enough that
\* the handler and the document are as they should.
LEMMA DOLocal ==
    ASSUME DOInv, NEW r \in Requests, NEW x, x = request[r].on, request[r] # DO!Idle, DOStays(r), unpointed \subseteq unpointed',
           \A d \in Parts : d # x =>
               /\ versions'[d] = versions[d] /\ stored'[d] = stored[d]
               /\ DO!Present(doc'[d]) <=> DO!Found(d)
               /\ DO!Found(d) => doc'[d].current = doc[d].current,
           x \in Parts =>
               /\ DO!Found(x) => DO!Present(doc'[x])
               /\ DO!Present(doc'[x]) => DO!Found(x) \/ DOCreating(r)
               /\ \A n \in DO!Numbers : stored[x][n] # None => stored'[x][n] # None
               /\ DO!Present(doc'[x]) => doc'[x].current <= started'
               /\ DOVersionsOf(x)' /\ DOFilesOf(x)',
           DOBegunBy(r)', DOPlaceOf(r)'
    PROVE  DOAlone' /\ DOBounded' /\ DOBegun' /\ DOPlace' /\ DOVersions' /\ DO!FilesKept'
<1>1. /\ started' = started /\ raced' = raced
      /\ \A q \in Requests : DOCreating(q)' => DOCreating(q) /\ request'[q].n = request[q].n
      /\ \A q \in Requests : DOVersioning(q)' => DOVersioning(q) /\ request'[q].n = request[q].n
      /\ \A q \in Requests : request'[q] # DO!Idle => request[q] # DO!Idle /\ request'[q].on = request[q].on
      /\ \A q \in Requests \ {r} : request'[q] = request[q]
      BY DEF DOStays
<1>2. DOAlone'
      BY <1>1 DEF DOInv, DOAlone
<1>3. DOBounded'
  <2>1. \A d \in Parts : DO!Found(d)' => doc'[d].current <= started
        BY <1>1 DEF DOInv, DOBounded, DO!Found
  <2>2. \A q \in Requests : (DOCreating(q) \/ DOVersioning(q))' => request'[q].n <= started
        BY <1>1 DEF DOInv, DOBounded
  <2> QED BY <1>1, <2>1, <2>2 DEF DOBounded
<1>4. \A q \in Requests \ {r} : request[q] # DO!Idle /\ request[q].on = x =>
          request[q].on \in raced /\ ~(DOCreating(q) /\ DOCreating(r))
      BY DEF DOInv, DOAlone
<1>5. \A q \in Requests : DOCreating(q) \/ DOVersioning(q) \/ DOUpdating(q) =>
          request[q].on \in Parts /\ request[q] # DO!Idle /\ ((DOCreating(q) \/ DOVersioning(q)) => request[q].n \in DO!Numbers)
      BY DOTyped, StartedAssumption DEF DOInv, DOBounded, DO!Numbers, DO!TypeOK,
         DO!HandlersTypeOK, DOCreating, DOVersioning, DOUpdating, DO!Idle
<1>6. \A q \in Requests : request[q].pc \in {"insertDocument", "insertVersion"} => DOCreating(q) \/ DOVersioning(q)
      BY DOTyped DEF DOInv
<1>7. DOBegun'
  <2> SUFFICES ASSUME NEW q \in Requests, q # r PROVE DOBegunBy(q)'
      BY DEF DOBegun
  <2>1. request'[q] = request[q] /\ (DOCreating(q)' <=> DOCreating(q)) /\ (DOVersioning(q)' <=> DOVersioning(q))
            /\ (DOUpdating(q)' <=> DOUpdating(q)) /\ DOBegunBy(q)
        BY <1>1 DEF DOCreating, DOVersioning, DOUpdating, DOInv, DOBegun, DO!At
  <2>2. DOCreating(q) \/ DOVersioning(q) \/ DOUpdating(q) =>
            /\ DO!Present(doc'[request[q].on]) <=> DO!Found(request[q].on)
            /\ (DOCreating(q) \/ DOVersioning(q)) /\ stored[request[q].on][request[q].n] # None =>
                   stored'[request[q].on][request[q].n] # None
    <3>1. CASE request[q].on # x
          BY <1>5, <3>1
    <3>2. CASE request[q].on = x /\ DOCreating(q)
          BY <1>4, <1>5, <3>2
    <3>3. CASE request[q].on = x /\ ~DOCreating(q)
          BY <1>5, <2>1, <3>3 DEF DOBegunBy
    <3> QED BY <3>1, <3>2, <3>3
  <2> QED BY <1>6, <2>1, <2>2 DEF DOBegunBy, DO!Found, DO!At
<1>8. DOPlace'
  <2> SUFFICES ASSUME NEW q \in Requests, q # r PROVE DOPlaceOf(q)'
      BY DEF DOPlace
  <2>1. request'[q] = request[q] /\ (DOCreating(q)' <=> DOCreating(q)) /\ (DOVersioning(q)' <=> DOVersioning(q)) /\ DOPlaceOf(q)
            /\ DOBegunBy(q)
        BY <1>1 DEF DOCreating, DOVersioning, DOInv, DOPlace, DOBegun, DO!At
  <2>2. (DOCreating(q) \/ DOVersioning(q)) /\ request[q].on \notin raced \cup unpointed' =>
            /\ versions'[request[q].on] = versions[request[q].on] /\ stored'[request[q].on] = stored[request[q].on]
            /\ DO!Found(request[q].on) => doc'[request[q].on].current = doc[request[q].on].current
        BY <1>4, <1>5
  <2>3. CASE request[q].on \notin raced \cup unpointed'
    <3>1. DOCreating(q) \/ DOVersioning(q) =>
              /\ versions'[request[q].on] = versions[request[q].on] /\ stored'[request[q].on] = stored[request[q].on]
              /\ DO!Found(request[q].on) => doc'[request[q].on].current = doc[request[q].on].current
          BY <2>2, <2>3
    <3>2. request[q].on \notin raced \cup unpointed
          BY <2>3
    <3>3. /\ DOCreating(q) => versions'[request[q].on] = <<>>
          /\ DOCreating(q) /\ DO!At(q, "insertVersion") => doc'[request[q].on].current = 1
          /\ DOVersioning(q) => request[q].n = Len(versions'[request[q].on]) + (IF DO!At(q, "updatePointer") THEN 0 ELSE 1)
          /\ request[q].pc \in {"insertDocument", "insertVersion"} => stored'[request[q].on][request[q].n] = request[q].file
          BY <1>6, <2>1, <3>1, <3>2 DEF DOPlaceOf, DOBegunBy
    <3> QED BY <2>1, <3>3 DEF DOPlaceOf, DO!At
  <2> QED BY <1>1, <2>1, <2>3 DEF DOPlaceOf
<1>9. DOVersions'
  <2> SUFFICES ASSUME NEW d \in Parts, d # x PROVE DOVersionsOf(d)'
      BY DEF DOVersions
  <2>1. \A q \in Requests : DOPending(q) /\ request[q].on = d => DOPending(q)' /\ request'[q].on = d
        BY <1>1 DEF DOPending, DO!At
  <2> QED BY <1>1, <2>1 DEF DOInv, DOVersions, DOVersionsOf, DO!Found
<1>10. DO!FilesKept'
  <2> SUFFICES ASSUME NEW d \in Parts, d # x PROVE DOFilesOf(d)'
      BY DEF DO!FilesKept, DOFilesOf
  <2> QED BY <1>1 DEF DOInv, DO!FilesKept, DOFilesOf
<1> QED BY <1>2, <1>3, <1>7, <1>8, <1>9, <1>10

\* Handlers that go on leave the codes and the categories as they are, but
\* for documents that come late.
LEMMA DOElse ==
    ASSUME DOInv, NEW r \in Requests, DOStays(r), UNCHANGED <<category, stripped>>, late \subseteq late',
           DO!At(r, "hasDocuments") /\ DO!At(r, "deleteCategory")' => DO!InUse(request[r].on) = {},
           \A d \in Parts, c \in Rows : DO!Present(doc'[d]) /\ doc'[d].category = c =>
               \/ DO!Found(d) /\ doc[d].category = c
               \/ late' = DO!Late(d, c) /\ c # None /\ ~DO!At(r, "hasDocuments")
               \/ ~DO!AboutToGo(c) /\ ~DO!At(r, "hasDocuments")
    PROVE  DOLate' /\ DOFree' /\ DO!CodesDiffer'
<1>1. raced' = raced
      BY DEF DOStays
<1>2. DOFree'
      BY DEF DOStays, DOInv, DOFree, DO!At, DO!Idle
<1>3. DO!CodesDiffer'
      BY <1>1 DEF DOInv, DO!CodesDiffer
<1>4. DOLate'
  <2>1. stripped' \subseteq late'
        BY DEF DOInv, DOLate, DO!CategoryInUseStays
  <2>2. ASSUME NEW q \in Requests, DO!At(q, "deleteCategory")', NEW d \in Parts, DO!Present(doc'[d]),
               doc'[d].category = request'[q].on
        PROVE  d \in late'
    <3>1. request'[q].on = request[q].on /\ (DO!At(q, "deleteCategory") \/ (q = r /\ DO!At(r, "hasDocuments")))
          BY <2>2 DEF DOStays, DO!At, DO!Idle
    <3>2. request[q].on \in Rows
          BY <3>1, DOTyped DEF DOInv, DO!At
    <3>3. CASE DO!Found(d) /\ doc[d].category = request[q].on
          BY <2>2, <3>1, <3>3 DEF DOInv, DOLate, DO!InUse
    <3>4. CASE late' = DO!Late(d, request[q].on) /\ request[q].on # None /\ ~DO!At(r, "hasDocuments")
          BY <3>1, <3>4 DEF DO!Late, DO!AboutToGo
    <3>5. CASE ~DO!AboutToGo(request[q].on) /\ ~DO!At(r, "hasDocuments")
          BY <3>1, <3>5 DEF DO!AboutToGo
    <3> QED BY <2>2, <3>1, <3>2, <3>3, <3>4, <3>5
  <2> QED BY <2>1, <2>2 DEF DOLate, DO!CategoryInUseStays, DO!InUse, DO!Found
<1> QED BY <1>2, <1>3, <1>4

\* An idle handler has nothing to show.
LEMMA DOIdle ==
    ASSUME NEW r \in Requests, DOOver(r)
    PROVE  DOBegunBy(r)' /\ DOPlaceOf(r)' /\ ~DOPending(r)'
BY DEF DOOver, DOBegunBy, DOPlaceOf, DOPending, DOCreating, DOVersioning, DOUpdating, DO!At,
   DO!Idle

\* A step of one handler that leaves the versions, the files and the numbers.
LEMMA DOSame ==
    ASSUME DOInv, NEW r \in Requests, request[r] # DO!Idle, DOStays(r), unpointed \subseteq unpointed',
           UNCHANGED <<versions, stored>>,
           \A d \in Parts : /\ DO!Present(doc'[d]) <=> DO!Found(d)
                            /\ DO!Found(d) => doc'[d].current = doc[d].current,
           DOPending(r) => request[r].on \in unpointed',
           DOBegunBy(r)', DOPlaceOf(r)'
    PROVE  DOAlone' /\ DOBounded' /\ DOBegun' /\ DOPlace' /\ DOVersions' /\ DO!FilesKept'
<1>1. PICK x : x = request[r].on
      OBVIOUS
<1>2. \A q \in Requests : DOPending(q) => (DOPending(q)' /\ request'[q].on = request[q].on) \/ request[q].on \in unpointed'
      BY DEF DOStays, DOPending, DO!At
<1>3. ASSUME x \in Parts
      PROVE  DOVersionsOf(x)' /\ DOFilesOf(x)' /\ (DO!Present(doc'[x]) => doc'[x].current <= started')
  <2>1. DOVersionsOf(x) /\ DOFilesOf(x) /\ (DO!Present(doc'[x]) => doc'[x].current <= started')
        BY <1>3 DEF DOInv, DOVersions, DO!FilesKept, DOFilesOf, DOBounded, DOStays
  <2>2. raced' = raced
        BY DEF DOStays
  <2>3. DOVersionsOf(x)'
        BY <1>2, <1>3, <2>1, <2>2 DEF DOVersionsOf, DO!Found
  <2>4. DOFilesOf(x)'
        BY <2>1, <2>2 DEF DOFilesOf
  <2> QED BY <2>1, <2>3, <2>4
<1> QED BY <1>1, <1>3, DOLocal

\* Every step keeps the types.
LEMMA DOTypeStep ==
    ASSUME DOInv, [DO!Next]_DO!vars
    PROVE  DO!TypeOK'
<1> USE StartedAssumption DEF DO!TypeOK, DO!HandlersTypeOK, DO!Numbers, DO!DocumentRow,
        DO!VersionRow, DO!CategoryRow, DO!Running,
            DO!documents, DO!Found, DO!Present, DO!At, DO!Start, DO!Once, DO!Goto, DO!Finish,
            DO!Absent, DO!Gone, DO!Idle,
            DOInv
<1>1. ASSUME NEW r \in Requests, NEW d \in Parts, NEW f \in Contents,
             NEW x \in Rows \cup {None}, DO!BeginCreate(r, d, f, x)
      PROVE  DO!TypeOK'
  <2> HIDE DEF DO!TypeOK, DO!HandlersTypeOK, DO!Numbers, DO!DocumentRow, DO!VersionRow,
           DO!CategoryRow, DO!Running,
               DO!documents, DO!Found, DO!Present, DO!At, DO!Start, DO!Once, DO!Goto, DO!Finish,
               DO!Absent, DO!Gone, DO!Idle
  <2>1. [pc |-> IF x = None THEN "upload" ELSE "checkCategory", op |-> "create", on |-> d, n |-> 1, file |-> f, category |-> x] \in DO!Running
        BY DEF DO!Running
  <2> QED BY <1>1, <2>1, StartedAssumption DEF DO!BeginCreate, DO!Start, DO!documents,
             DO!TypeOK, DO!HandlersTypeOK, DOInv
<1>2. ASSUME NEW r \in Requests, NEW d \in Parts, NEW f \in Contents, DO!BeginUpload(r, d, f)
      PROVE  DO!TypeOK'
  <2> HIDE DEF DO!TypeOK, DO!HandlersTypeOK, DO!Numbers, DO!DocumentRow, DO!VersionRow,
           DO!CategoryRow, DO!Running,
               DO!documents, DO!Found, DO!Present, DO!At, DO!Start, DO!Once, DO!Goto, DO!Finish,
               DO!Absent, DO!Gone, DO!Idle
  <2>1. [pc |-> "upload", op |-> "version", on |-> d, n |-> doc[d].current + 1, file |-> f] \in DO!Running
        BY <1>2, DORows, StartedAssumption DEF DO!BeginUpload, DOInv, DO!TypeOK, DO!Running,
           DO!DocumentRow, DO!Numbers
  <2> QED BY <1>2, <2>1, StartedAssumption DEF DO!BeginUpload, DO!Start, DO!documents,
             DO!TypeOK, DO!HandlersTypeOK, DOInv
<1>3. ASSUME NEW r \in Requests, NEW d \in Parts, NEW x \in Rows \cup {None},
             NEW s \in {"ACTIVE", "INACTIVE", "KEEP"}, DO!BeginUpdate(r, d, x, s)
      PROVE  DO!TypeOK'
  <2> HIDE DEF DO!TypeOK, DO!HandlersTypeOK, DO!Numbers, DO!DocumentRow, DO!VersionRow,
           DO!CategoryRow, DO!Running,
               DO!documents, DO!Found, DO!Present, DO!At, DO!Start, DO!Once, DO!Goto, DO!Finish,
               DO!Absent, DO!Gone, DO!Idle
  <2>1. [pc |-> IF x = None THEN "update" ELSE "checkCategory", op |-> "update", on |-> d, category |-> x, status |-> s] \in DO!Running
        BY DEF DO!Running
  <2> QED BY <1>3, <2>1, StartedAssumption DEF DO!BeginUpdate, DO!Start, DO!documents,
             DO!TypeOK, DO!HandlersTypeOK, DOInv
<1>4. ASSUME NEW r \in Requests, NEW k \in Others, DO!BeginCreateCategory(r, k)
      PROVE  DO!TypeOK'
  <2> HIDE DEF DO!TypeOK, DO!HandlersTypeOK, DO!Numbers, DO!DocumentRow, DO!VersionRow,
           DO!CategoryRow, DO!Running,
               DO!documents, DO!Found, DO!Present, DO!At, DO!Start, DO!Once, DO!Goto, DO!Finish,
               DO!Absent, DO!Gone, DO!Idle
  <2>1. [pc |-> "insertCategory", on |-> k] \in DO!Running
        BY DEF DO!Running
  <2> QED BY <1>4, <2>1, StartedAssumption DEF DO!BeginCreateCategory, DO!Start, DO!documents,
             DO!TypeOK, DO!HandlersTypeOK, DOInv
<1>5. ASSUME NEW r \in Requests, NEW c \in Rows, DO!InsertCategory(r, c)
      PROVE  DO!TypeOK'
  <2> HIDE DEF DO!TypeOK, DO!HandlersTypeOK, DO!Numbers, DO!DocumentRow, DO!VersionRow,
           DO!CategoryRow, DO!Running,
               DO!documents, DO!Found, DO!Present, DO!At, DO!Start, DO!Once, DO!Goto, DO!Finish,
               DO!Absent, DO!Gone, DO!Idle
  <2>1. DOGone(r)
        BY <1>5, DOWays DEF DOInv
  <2>2. [code |-> request[r].on] \in DO!CategoryRow
        BY <1>5, DOTyped DEF DO!InsertCategory, DO!At, DO!CategoryRow, DOInv
  <2>3. category' \in [Rows -> DO!CategoryRow \cup {DO!Absent, DO!Gone}]
        BY <1>5, <2>2 DEF DO!InsertCategory, DOInv, DO!TypeOK
  <2> QED BY <1>5, <2>1, <2>3, StartedAssumption DEF DO!InsertCategory, DOGone, DO!documents,
             DO!TypeOK, DO!HandlersTypeOK, DOInv
<1>6. ASSUME NEW r \in Requests, NEW c \in Rows, DO!BeginRemoveCategory(r, c)
      PROVE  DO!TypeOK'
  <2> HIDE DEF DO!TypeOK, DO!HandlersTypeOK, DO!Numbers, DO!DocumentRow, DO!VersionRow,
           DO!CategoryRow, DO!Running,
               DO!documents, DO!Found, DO!Present, DO!At, DO!Start, DO!Once, DO!Goto, DO!Finish,
               DO!Absent, DO!Gone, DO!Idle
  <2>1. [pc |-> "hasDocuments", on |-> c] \in DO!Running
        BY DEF DO!Running
  <2> QED BY <1>6, <2>1, StartedAssumption DEF DO!BeginRemoveCategory, DO!Start, DO!documents,
             DO!TypeOK, DO!HandlersTypeOK, DOInv
<1>7. ASSUME NEW r \in Requests, DO!CheckCategory(r)
      PROVE  DO!TypeOK'
  <2> HIDE DEF DO!TypeOK, DO!HandlersTypeOK, DO!Numbers, DO!DocumentRow, DO!VersionRow,
           DO!CategoryRow, DO!Running,
               DO!documents, DO!Found, DO!Present, DO!At, DO!Start, DO!Once, DO!Goto, DO!Finish,
               DO!Absent, DO!Gone, DO!Idle
  <2>1. DOGone(r)
        BY <1>7, DOWays DEF DOInv
  <2> QED BY <1>7, <2>1, StartedAssumption DEF DO!CheckCategory, DOGone, DO!documents,
             DO!TypeOK, DO!HandlersTypeOK, DOInv
<1>8. ASSUME NEW r \in Requests, DO!Update(r)
      PROVE  DO!TypeOK'
  <2> HIDE DEF DO!TypeOK, DO!HandlersTypeOK, DO!Numbers, DO!DocumentRow, DO!VersionRow,
           DO!CategoryRow, DO!Running,
               DO!documents, DO!Found, DO!Present, DO!At, DO!Start, DO!Once, DO!Goto, DO!Finish,
               DO!Absent, DO!Gone, DO!Idle
  <2>1. DOGone(r)
        BY <1>8, DOWays DEF DOInv
  <2>2. DOUpdated(r)
        BY <1>8, DOUpdate
  <2> QED BY <1>8, <2>1, <2>2, StartedAssumption DEF DO!Update, DOGone, DOUpdated, DO!documents,
             DO!TypeOK, DO!HandlersTypeOK, DOInv
<1>9. ASSUME NEW r \in Requests, DO!Upload(r)
      PROVE  DO!TypeOK'
  <2> HIDE DEF DO!TypeOK, DO!HandlersTypeOK, DO!Numbers, DO!DocumentRow, DO!VersionRow,
           DO!CategoryRow, DO!Running,
               DO!documents, DO!Found, DO!Present, DO!At, DO!Start, DO!Once, DO!Goto, DO!Finish,
               DO!Absent, DO!Gone, DO!Idle
  <2>1. DOGone(r)
        BY <1>9, DOWays DEF DOInv
  <2>2. request[r].on \in Parts /\ request[r].n \in DO!Numbers /\ request[r].file \in Contents
        BY <1>9, DOTyped, StartedAssumption DEF DO!Upload, DO!At, DOInv, DOBounded, DO!Numbers,
           DO!TypeOK, DO!HandlersTypeOK
  <2>3. [stored[request[r].on] EXCEPT ![request[r].n] = request[r].file] \in [DO!Numbers -> Contents \cup {None}]
        BY <2>2 DEF DOInv, DO!TypeOK
  <2>4. stored' \in [Parts -> [DO!Numbers -> Contents \cup {None}]]
        BY <1>9, <2>2, <2>3 DEF DO!Upload, DOInv, DO!TypeOK
  <2> QED BY <1>9, <2>1, <2>4, StartedAssumption DEF DO!Upload, DOGone, DO!documents, DO!TypeOK,
             DO!HandlersTypeOK, DOInv
<1>10. ASSUME NEW r \in Requests, DO!InsertDocument(r)
      PROVE  DO!TypeOK'
  <2> HIDE DEF DO!TypeOK, DO!HandlersTypeOK, DO!Numbers, DO!DocumentRow, DO!VersionRow,
           DO!CategoryRow, DO!Running,
               DO!documents, DO!Found, DO!Present, DO!At, DO!Start, DO!Once, DO!Goto, DO!Finish,
               DO!Absent, DO!Gone, DO!Idle
  <2>1. DOGone(r)
        BY <1>10, DOWays DEF DOInv
  <2>2. request[r].on \in Parts /\ request[r].category \in Rows \cup {None} /\ started >= 1
        BY <1>10, DOTyped DEF DO!InsertDocument, DO!At, DOInv, DOBounded, DO!TypeOK,
           DO!HandlersTypeOK
  <2>3. [status |-> "ACTIVE", current |-> 1, category |-> request[r].category] \in DO!DocumentRow
        BY <2>2, StartedAssumption DEF DO!DocumentRow, DO!Numbers, DOInv, DO!TypeOK,
           DO!HandlersTypeOK
  <2>4. doc' \in [Parts -> DO!DocumentRow \cup {DO!Absent}] /\ late' \subseteq Parts
        BY <1>10, <2>2, <2>3 DEF DO!InsertDocument, DO!Late, DOInv, DO!TypeOK
  <2> QED BY <1>10, <2>1, <2>4, StartedAssumption DEF DO!InsertDocument, DOGone, DO!documents,
             DO!TypeOK, DO!HandlersTypeOK, DOInv
<1>11. ASSUME NEW r \in Requests, DO!InsertVersion(r)
      PROVE  DO!TypeOK'
  <2> HIDE DEF DO!TypeOK, DO!HandlersTypeOK, DO!Numbers, DO!DocumentRow, DO!VersionRow,
           DO!CategoryRow, DO!Running,
               DO!documents, DO!Found, DO!Present, DO!At, DO!Start, DO!Once, DO!Goto, DO!Finish,
               DO!Absent, DO!Gone, DO!Idle
  <2>1. DOGone(r)
        BY <1>11, DOWays DEF DOInv
  <2>2. request[r].on \in Parts /\ request[r].n \in DO!Numbers /\ request[r].file \in Contents
        BY <1>11, DOTyped, StartedAssumption DEF DO!InsertVersion, DO!At, DOInv, DOBounded,
           DO!Numbers, DO!TypeOK, DO!HandlersTypeOK
  <2>3. Append(versions[request[r].on], [number |-> request[r].n, gave |-> request[r].file]) \in Seq(DO!VersionRow)
        BY <2>2, DOOneMore DEF DO!VersionRow, DOInv, DO!TypeOK
  <2>4. versions' \in [Parts -> Seq(DO!VersionRow)]
        BY <1>11, <2>2, <2>3 DEF DO!InsertVersion, DOInv, DO!TypeOK
  <2> QED BY <1>11, <2>1, <2>4, StartedAssumption DEF DO!InsertVersion, DOGone, DO!documents,
             DO!TypeOK, DO!HandlersTypeOK, DOInv
<1>12. ASSUME NEW r \in Requests, DO!UpdatePointer(r)
      PROVE  DO!TypeOK'
  <2> HIDE DEF DO!TypeOK, DO!HandlersTypeOK, DO!Numbers, DO!DocumentRow, DO!VersionRow,
           DO!CategoryRow, DO!Running,
               DO!documents, DO!Found, DO!Present, DO!At, DO!Start, DO!Once, DO!Goto, DO!Finish,
               DO!Absent, DO!Gone, DO!Idle
  <2>1. DOGone(r)
        BY <1>12, DOWays DEF DOInv
  <2>2. DOPoints(r)
        BY <1>12, DOPoint
  <2> QED BY <1>12, <2>1, <2>2, StartedAssumption DEF DO!UpdatePointer, DOGone, DOPoints,
             DO!documents, DO!TypeOK, DO!HandlersTypeOK, DOInv
<1>13. ASSUME NEW r \in Requests, DO!HasDocuments(r)
      PROVE  DO!TypeOK'
  <2> HIDE DEF DO!TypeOK, DO!HandlersTypeOK, DO!Numbers, DO!DocumentRow, DO!VersionRow,
           DO!CategoryRow, DO!Running,
               DO!documents, DO!Found, DO!Present, DO!At, DO!Start, DO!Once, DO!Goto, DO!Finish,
               DO!Absent, DO!Gone, DO!Idle
  <2>1. DOGone(r)
        BY <1>13, DOWays DEF DOInv
  <2> QED BY <1>13, <2>1, StartedAssumption DEF DO!HasDocuments, DOGone, DO!documents,
             DO!TypeOK, DO!HandlersTypeOK, DOInv
<1>14. ASSUME NEW r \in Requests, DO!DeleteCategory(r)
      PROVE  DO!TypeOK'
  <2> HIDE DEF DO!TypeOK, DO!HandlersTypeOK, DO!Numbers, DO!DocumentRow, DO!VersionRow,
           DO!CategoryRow, DO!Running,
               DO!documents, DO!Found, DO!Present, DO!At, DO!Start, DO!Once, DO!Goto, DO!Finish,
               DO!Absent, DO!Gone, DO!Idle
  <2>1. DOGone(r)
        BY <1>14, DOWays DEF DOInv
  <2>2. DOStrips(r)
        BY <1>14, DOStrip
  <2> QED BY <1>14, <2>1, <2>2, StartedAssumption DEF DO!DeleteCategory, DOGone, DOStrips,
             DO!documents, DO!TypeOK, DO!HandlersTypeOK, DOInv
<1>15. ASSUME NEW r \in Requests, DO!Abort(r)
      PROVE  DO!TypeOK'
  <2> HIDE DEF DO!TypeOK, DO!HandlersTypeOK, DO!Numbers, DO!DocumentRow, DO!VersionRow,
           DO!CategoryRow, DO!Running,
               DO!documents, DO!Found, DO!Present, DO!At, DO!Start, DO!Once, DO!Goto, DO!Finish,
               DO!Absent, DO!Gone, DO!Idle
  <2>1. DOGone(r)
        BY <1>15, DOWays DEF DOInv
  <2>2. unpointed' \subseteq Parts
        BY <1>15, DOTyped DEF DO!Abort, DO!At, DOInv, DO!TypeOK
  <2> QED BY <1>15, <2>1, <2>2, StartedAssumption DEF DO!Abort, DOGone, DO!documents, DO!TypeOK,
             DO!HandlersTypeOK, DOInv
<1>16. CASE UNCHANGED DO!vars
      BY <1>16 DEF DO!vars
<1> HIDE DEF DO!TypeOK, DO!HandlersTypeOK, DO!Numbers, DO!DocumentRow, DO!VersionRow,
         DO!CategoryRow, DO!Running,
             DO!documents, DO!Found, DO!Present, DO!At, DO!Start, DO!Once, DO!Goto, DO!Finish,
             DO!Absent, DO!Gone, DO!Idle,
             DOInv
<1> QED BY <1>1, <1>2, <1>3, <1>4, <1>5, <1>6, <1>7, <1>8, <1>9, <1>10, <1>11, <1>12, <1>13,
           <1>14, <1>15, <1>16 DEF DO!Next

\* Every step keeps the versions, the files and the categories.
LEMMA DORestStep ==
    ASSUME DOInv, [DO!Next]_DO!vars
    PROVE  DOAlone' /\ DOBounded' /\ DOBegun' /\ DOPlace' /\ DOVersions' /\ DOLate' /\ DOFree' /\ DO!FilesKept' /\ DO!CodesDiffer'
<1> USE DEF DO!TypeOK, DO!HandlersTypeOK, DO!Numbers, DO!DocumentRow, DO!VersionRow,
        DO!CategoryRow, DO!Running,
            DO!documents, DO!Found, DO!Present, DO!At, DO!Start, DO!Once, DO!Goto, DO!Finish,
            DO!Absent, DO!Gone, DO!Idle,
            DOInv, DO!Handled
<1>1. ASSUME NEW r \in Requests, NEW d \in Parts, NEW f \in Contents,
             NEW x \in Rows \cup {None}, DO!BeginCreate(r, d, f, x)
      PROVE  DOAlone' /\ DOBounded' /\ DOBegun' /\ DOPlace' /\ DOVersions' /\ DOLate' /\ DOFree' /\ DO!FilesKept' /\ DO!CodesDiffer'
  <2> HIDE DEF DO!TypeOK, DO!HandlersTypeOK, DO!Numbers, DO!DocumentRow, DO!VersionRow,
           DO!CategoryRow, DO!Running,
               DO!documents, DO!Found, DO!Present, DO!At, DO!Start, DO!Once, DO!Goto, DO!Finish,
               DO!Absent, DO!Gone, DO!Idle,
               DO!Handled
  <2>1. DOBegins(r, [pc |-> IF x = None THEN "upload" ELSE "checkCategory", op |-> "create", on |-> d, n |-> 1, file |-> f, category |-> x])
        BY <1>1, DOBegin DEF DO!BeginCreate, DOInv
  <2>2. doc[d] = DO!Absent /\ ~DO!Found(d) /\ ~DO!Present(doc[d]) /\ (\A q \in Requests : request[q] # DO!Idle => request[q].on # d)
        BY <1>1, DORows DEF DO!BeginCreate, DO!Handled, DO!Found
  <2>21. DOAlone'
        BY <1>1, <2>1, <2>2, DOTyped DEF DOAlone, DOCreating, DOBegins, DOInv, DO!At, DO!Idle,
           DO!Found, DO!BeginCreate
  <2>22. DOBounded'
    <3>1. \A e \in Parts : DO!Found(e) => doc[e].current \in Nat /\ doc[e].current <= started
          BY DORows DEF DOInv, DOBounded
    <3>2. \A q \in Requests : DOCreating(q) \/ DOVersioning(q) => request[q].n \in Nat /\ request[q].n <= started
          BY DOTyped DEF DOInv, DOBounded
    <3>3. \A q \in Requests \ {r} : request'[q] = request[q] /\ (DOCreating(q)' <=> DOCreating(q)) /\ (DOVersioning(q)' <=> DOVersioning(q))
          BY <2>1 DEF DOBegins, DOCreating, DOVersioning
    <3>4. (DOCreating(r) \/ DOVersioning(r))' => request'[r].n <= started + 1
          BY <1>1, <2>1, <3>1 DEF DO!BeginCreate, DOBegins, DOCreating, DOVersioning
    <3>5. started' = started + 1 /\ started \in Nat /\ doc' = doc
          BY <2>1 DEF DOBegins
    <3>6. \A e \in Parts : DO!Found(e)' => DO!Found(e) /\ doc'[e].current <= started + 1
          BY <3>1, <3>5 DEF DO!Found
    <3>7. \A q \in Requests \ {r} : (DOCreating(q) \/ DOVersioning(q))' => request'[q].n <= started + 1
          BY <3>2, <3>3, <3>5
    <3> QED BY <3>4, <3>5, <3>6, <3>7 DEF DOBounded
  <2>23. DOBegun'
        BY <1>1, <2>1, <2>2, DOTyped DEF DOBegun, DOBegunBy, DOAlone, DOCreating, DOVersioning,
           DOUpdating, DOBegins, DOInv, DO!At, DO!Idle, DO!Found, DO!BeginCreate
  <2>24. DOPlace'
    <3>1. UNCHANGED <<doc, versions, stored, unpointed>> /\ raced \subseteq raced'
          BY <2>1 DEF DOBegins
    <3>2. DOPlaceOf(r)'
          BY <1>1, <2>1, <2>2, <3>1 DEF DO!BeginCreate, DOBegins, DOPlaceOf, DOInv, DOVersions,
             DOVersionsOf, DOPending, DOCreating, DOVersioning, DO!At, DO!Idle
    <3>3. ASSUME NEW q \in Requests \ {r}
          PROVE  DOPlaceOf(q)'
      <4>1. request'[q] = request[q] /\ DOPlaceOf(q)
            BY <2>1 DEF DOBegins, DOInv, DOPlace
      <4> QED BY <3>1, <4>1 DEF DOPlaceOf, DOCreating, DOVersioning, DO!At
    <3> QED BY <3>2, <3>3 DEF DOPlace
  <2>25. DOVersions'
        BY <1>1, <2>1, <2>2, DOTyped DEF DOVersions, DOVersionsOf, DOPlace, DOPlaceOf, DOAlone,
           DOBegun, DOBegunBy, DOPending, DOCreating, DOVersioning, DOBegins, DOInv, DO!At,
           DO!Idle, DO!Found, DO!BeginCreate
  <2>26. DOLate'
        BY <1>1, <2>1, <2>2, DOTyped DEF DOLate, DO!CategoryInUseStays, DO!InUse, DO!AboutToGo,
           DO!Late, DOBegins, DOInv, DO!At, DO!Idle, DO!Found, DO!BeginCreate
  <2>27. DOFree'
        BY <1>1, <2>1, <2>2, DOTyped DEF DOFree, DOAlone, DOBegins, DOInv, DO!At, DO!Idle,
           DO!Found, DO!BeginCreate
  <2>28. DO!FilesKept'
        BY <1>1, <2>1, <2>2, DOTyped DEF DO!FilesKept, DOPlace, DOPlaceOf, DOBegun, DOBegunBy,
           DOVersions, DOVersionsOf, DOCreating, DOVersioning, DOBegins, DOInv, DO!At, DO!Idle,
           DO!Found, DO!BeginCreate
  <2>29. DO!CodesDiffer'
        BY <1>1, <2>1, <2>2, DOTyped DEF DO!CodesDiffer, DOFree, DOAlone, DOBegins, DOInv,
           DO!At, DO!Idle, DO!Found, DO!BeginCreate
  <2> QED BY <2>21, <2>22, <2>23, <2>24, <2>25, <2>26, <2>27, <2>28, <2>29
<1>2. ASSUME NEW r \in Requests, NEW d \in Parts, NEW f \in Contents, DO!BeginUpload(r, d, f)
      PROVE  DOAlone' /\ DOBounded' /\ DOBegun' /\ DOPlace' /\ DOVersions' /\ DOLate' /\ DOFree' /\ DO!FilesKept' /\ DO!CodesDiffer'
  <2> HIDE DEF DO!TypeOK, DO!HandlersTypeOK, DO!Numbers, DO!DocumentRow, DO!VersionRow,
           DO!CategoryRow, DO!Running,
               DO!documents, DO!Found, DO!Present, DO!At, DO!Start, DO!Once, DO!Goto, DO!Finish,
               DO!Absent, DO!Gone, DO!Idle,
               DO!Handled
  <2>1. DOBegins(r, [pc |-> "upload", op |-> "version", on |-> d, n |-> doc[d].current + 1, file |-> f])
        BY <1>2, DOBegin DEF DO!BeginUpload, DOInv
  <2>21. DOAlone'
        BY <1>2, <2>1, DOTyped DEF DOAlone, DOCreating, DOBegins, DOInv, DO!At, DO!Idle,
           DO!Found, DO!BeginUpload
  <2>22. DOBounded'
    <3>1. \A e \in Parts : DO!Found(e) => doc[e].current \in Nat /\ doc[e].current <= started
          BY DORows DEF DOInv, DOBounded
    <3>2. \A q \in Requests : DOCreating(q) \/ DOVersioning(q) => request[q].n \in Nat /\ request[q].n <= started
          BY DOTyped DEF DOInv, DOBounded
    <3>3. \A q \in Requests \ {r} : request'[q] = request[q] /\ (DOCreating(q)' <=> DOCreating(q)) /\ (DOVersioning(q)' <=> DOVersioning(q))
          BY <2>1 DEF DOBegins, DOCreating, DOVersioning
    <3>4. (DOCreating(r) \/ DOVersioning(r))' => request'[r].n <= started + 1
          BY <1>2, <2>1, <3>1 DEF DO!BeginUpload, DOBegins, DOCreating, DOVersioning
    <3>5. started' = started + 1 /\ started \in Nat /\ doc' = doc
          BY <2>1 DEF DOBegins
    <3>6. \A e \in Parts : DO!Found(e)' => DO!Found(e) /\ doc'[e].current <= started + 1
          BY <3>1, <3>5 DEF DO!Found
    <3>7. \A q \in Requests \ {r} : (DOCreating(q) \/ DOVersioning(q))' => request'[q].n <= started + 1
          BY <3>2, <3>3, <3>5
    <3> QED BY <3>4, <3>5, <3>6, <3>7 DEF DOBounded
  <2>23. DOBegun'
        BY <1>2, <2>1, DOTyped DEF DOBegun, DOBegunBy, DOAlone, DOCreating, DOVersioning,
           DOUpdating, DOBegins, DOInv, DO!At, DO!Idle, DO!Found, DO!BeginUpload
  <2>24. DOPlace'
    <3>1. UNCHANGED <<doc, versions, stored, unpointed>> /\ raced \subseteq raced'
          BY <2>1 DEF DOBegins
    <3>2. DOPlaceOf(r)'
          BY <1>2, <2>1, <3>1 DEF DO!BeginUpload, DOBegins, DOPlaceOf, DOInv, DOVersions,
             DOVersionsOf, DOPending, DOCreating, DOVersioning, DO!At, DO!Idle
    <3>3. ASSUME NEW q \in Requests \ {r}
          PROVE  DOPlaceOf(q)'
      <4>1. request'[q] = request[q] /\ DOPlaceOf(q)
            BY <2>1 DEF DOBegins, DOInv, DOPlace
      <4> QED BY <3>1, <4>1 DEF DOPlaceOf, DOCreating, DOVersioning, DO!At
    <3> QED BY <3>2, <3>3 DEF DOPlace
  <2>25. DOVersions'
        BY <1>2, <2>1, DOTyped DEF DOVersions, DOVersionsOf, DOPlace, DOPlaceOf, DOAlone,
           DOBegun, DOBegunBy, DOPending, DOCreating, DOVersioning, DOBegins, DOInv, DO!At,
           DO!Idle, DO!Found, DO!BeginUpload
  <2>26. DOLate'
        BY <1>2, <2>1, DOTyped DEF DOLate, DO!CategoryInUseStays, DO!InUse, DO!AboutToGo,
           DO!Late, DOBegins, DOInv, DO!At, DO!Idle, DO!Found, DO!BeginUpload
  <2>27. DOFree'
        BY <1>2, <2>1, DOTyped DEF DOFree, DOAlone, DOBegins, DOInv, DO!At, DO!Idle, DO!Found,
           DO!BeginUpload
  <2>28. DO!FilesKept'
        BY <1>2, <2>1, DOTyped DEF DO!FilesKept, DOPlace, DOPlaceOf, DOBegun, DOBegunBy,
           DOVersions, DOVersionsOf, DOCreating, DOVersioning, DOBegins, DOInv, DO!At, DO!Idle,
           DO!Found, DO!BeginUpload
  <2>29. DO!CodesDiffer'
        BY <1>2, <2>1, DOTyped DEF DO!CodesDiffer, DOFree, DOAlone, DOBegins, DOInv, DO!At,
           DO!Idle, DO!Found, DO!BeginUpload
  <2> QED BY <2>21, <2>22, <2>23, <2>24, <2>25, <2>26, <2>27, <2>28, <2>29
<1>3. ASSUME NEW r \in Requests, NEW d \in Parts, NEW x \in Rows \cup {None},
             NEW s \in {"ACTIVE", "INACTIVE", "KEEP"}, DO!BeginUpdate(r, d, x, s)
      PROVE  DOAlone' /\ DOBounded' /\ DOBegun' /\ DOPlace' /\ DOVersions' /\ DOLate' /\ DOFree' /\ DO!FilesKept' /\ DO!CodesDiffer'
  <2> HIDE DEF DO!TypeOK, DO!HandlersTypeOK, DO!Numbers, DO!DocumentRow, DO!VersionRow,
           DO!CategoryRow, DO!Running,
               DO!documents, DO!Found, DO!Present, DO!At, DO!Start, DO!Once, DO!Goto, DO!Finish,
               DO!Absent, DO!Gone, DO!Idle,
               DO!Handled
  <2>1. DOBegins(r, [pc |-> IF x = None THEN "update" ELSE "checkCategory", op |-> "update", on |-> d, category |-> x, status |-> s])
        BY <1>3, DOBegin DEF DO!BeginUpdate, DOInv
  <2>21. DOAlone'
        BY <1>3, <2>1, DOTyped DEF DOAlone, DOCreating, DOBegins, DOInv, DO!At, DO!Idle,
           DO!Found, DO!BeginUpdate
  <2>22. DOBounded'
    <3>1. \A e \in Parts : DO!Found(e) => doc[e].current \in Nat /\ doc[e].current <= started
          BY DORows DEF DOInv, DOBounded
    <3>2. \A q \in Requests : DOCreating(q) \/ DOVersioning(q) => request[q].n \in Nat /\ request[q].n <= started
          BY DOTyped DEF DOInv, DOBounded
    <3>3. \A q \in Requests \ {r} : request'[q] = request[q] /\ (DOCreating(q)' <=> DOCreating(q)) /\ (DOVersioning(q)' <=> DOVersioning(q))
          BY <2>1 DEF DOBegins, DOCreating, DOVersioning
    <3>4. (DOCreating(r) \/ DOVersioning(r))' => request'[r].n <= started + 1
          BY <1>3, <2>1, <3>1 DEF DO!BeginUpdate, DOBegins, DOCreating, DOVersioning
    <3>5. started' = started + 1 /\ started \in Nat /\ doc' = doc
          BY <2>1 DEF DOBegins
    <3>6. \A e \in Parts : DO!Found(e)' => DO!Found(e) /\ doc'[e].current <= started + 1
          BY <3>1, <3>5 DEF DO!Found
    <3>7. \A q \in Requests \ {r} : (DOCreating(q) \/ DOVersioning(q))' => request'[q].n <= started + 1
          BY <3>2, <3>3, <3>5
    <3> QED BY <3>4, <3>5, <3>6, <3>7 DEF DOBounded
  <2>23. DOBegun'
        BY <1>3, <2>1, DOTyped DEF DOBegun, DOBegunBy, DOAlone, DOCreating, DOVersioning,
           DOUpdating, DOBegins, DOInv, DO!At, DO!Idle, DO!Found, DO!BeginUpdate
  <2>24. DOPlace'
    <3>1. UNCHANGED <<doc, versions, stored, unpointed>> /\ raced \subseteq raced'
          BY <2>1 DEF DOBegins
    <3>2. DOPlaceOf(r)'
          BY <1>3, <2>1, <3>1 DEF DO!BeginUpdate, DOBegins, DOPlaceOf, DOInv, DOVersions,
             DOVersionsOf, DOPending, DOCreating, DOVersioning, DO!At, DO!Idle
    <3>3. ASSUME NEW q \in Requests \ {r}
          PROVE  DOPlaceOf(q)'
      <4>1. request'[q] = request[q] /\ DOPlaceOf(q)
            BY <2>1 DEF DOBegins, DOInv, DOPlace
      <4> QED BY <3>1, <4>1 DEF DOPlaceOf, DOCreating, DOVersioning, DO!At
    <3> QED BY <3>2, <3>3 DEF DOPlace
  <2>25. DOVersions'
        BY <1>3, <2>1, DOTyped DEF DOVersions, DOVersionsOf, DOPlace, DOPlaceOf, DOAlone,
           DOBegun, DOBegunBy, DOPending, DOCreating, DOVersioning, DOBegins, DOInv, DO!At,
           DO!Idle, DO!Found, DO!BeginUpdate
  <2>26. DOLate'
        BY <1>3, <2>1, DOTyped DEF DOLate, DO!CategoryInUseStays, DO!InUse, DO!AboutToGo,
           DO!Late, DOBegins, DOInv, DO!At, DO!Idle, DO!Found, DO!BeginUpdate
  <2>27. DOFree'
        BY <1>3, <2>1, DOTyped DEF DOFree, DOAlone, DOBegins, DOInv, DO!At, DO!Idle, DO!Found,
           DO!BeginUpdate
  <2>28. DO!FilesKept'
        BY <1>3, <2>1, DOTyped DEF DO!FilesKept, DOPlace, DOPlaceOf, DOBegun, DOBegunBy,
           DOVersions, DOVersionsOf, DOCreating, DOVersioning, DOBegins, DOInv, DO!At, DO!Idle,
           DO!Found, DO!BeginUpdate
  <2>29. DO!CodesDiffer'
        BY <1>3, <2>1, DOTyped DEF DO!CodesDiffer, DOFree, DOAlone, DOBegins, DOInv, DO!At,
           DO!Idle, DO!Found, DO!BeginUpdate
  <2> QED BY <2>21, <2>22, <2>23, <2>24, <2>25, <2>26, <2>27, <2>28, <2>29
<1>4. ASSUME NEW r \in Requests, NEW k \in Others, DO!BeginCreateCategory(r, k)
      PROVE  DOAlone' /\ DOBounded' /\ DOBegun' /\ DOPlace' /\ DOVersions' /\ DOLate' /\ DOFree' /\ DO!FilesKept' /\ DO!CodesDiffer'
  <2> HIDE DEF DO!TypeOK, DO!HandlersTypeOK, DO!Numbers, DO!DocumentRow, DO!VersionRow,
           DO!CategoryRow, DO!Running,
               DO!documents, DO!Found, DO!Present, DO!At, DO!Start, DO!Once, DO!Goto, DO!Finish,
               DO!Absent, DO!Gone, DO!Idle,
               DO!Handled
  <2>1. DOBegins(r, [pc |-> "insertCategory", on |-> k])
        BY <1>4, DOBegin DEF DO!BeginCreateCategory, DOInv
  <2>21. DOAlone'
        BY <1>4, <2>1, DOTyped DEF DOAlone, DOCreating, DOBegins, DOInv, DO!At, DO!Idle,
           DO!Found, DO!BeginCreateCategory
  <2>22. DOBounded'
    <3>1. \A e \in Parts : DO!Found(e) => doc[e].current \in Nat /\ doc[e].current <= started
          BY DORows DEF DOInv, DOBounded
    <3>2. \A q \in Requests : DOCreating(q) \/ DOVersioning(q) => request[q].n \in Nat /\ request[q].n <= started
          BY DOTyped DEF DOInv, DOBounded
    <3>3. \A q \in Requests \ {r} : request'[q] = request[q] /\ (DOCreating(q)' <=> DOCreating(q)) /\ (DOVersioning(q)' <=> DOVersioning(q))
          BY <2>1 DEF DOBegins, DOCreating, DOVersioning
    <3>4. (DOCreating(r) \/ DOVersioning(r))' => request'[r].n <= started + 1
          BY <1>4, <2>1, <3>1 DEF DO!BeginCreateCategory, DOBegins, DOCreating, DOVersioning
    <3>5. started' = started + 1 /\ started \in Nat /\ doc' = doc
          BY <2>1 DEF DOBegins
    <3>6. \A e \in Parts : DO!Found(e)' => DO!Found(e) /\ doc'[e].current <= started + 1
          BY <3>1, <3>5 DEF DO!Found
    <3>7. \A q \in Requests \ {r} : (DOCreating(q) \/ DOVersioning(q))' => request'[q].n <= started + 1
          BY <3>2, <3>3, <3>5
    <3> QED BY <3>4, <3>5, <3>6, <3>7 DEF DOBounded
  <2>23. DOBegun'
        BY <1>4, <2>1, DOTyped DEF DOBegun, DOBegunBy, DOAlone, DOCreating, DOVersioning,
           DOUpdating, DOBegins, DOInv, DO!At, DO!Idle, DO!Found, DO!BeginCreateCategory
  <2>24. DOPlace'
    <3>1. UNCHANGED <<doc, versions, stored, unpointed>> /\ raced \subseteq raced'
          BY <2>1 DEF DOBegins
    <3>2. DOPlaceOf(r)'
          BY <1>4, <2>1, <3>1 DEF DO!BeginCreateCategory, DOBegins, DOPlaceOf, DOInv,
             DOVersions, DOVersionsOf, DOPending, DOCreating, DOVersioning, DO!At, DO!Idle
    <3>3. ASSUME NEW q \in Requests \ {r}
          PROVE  DOPlaceOf(q)'
      <4>1. request'[q] = request[q] /\ DOPlaceOf(q)
            BY <2>1 DEF DOBegins, DOInv, DOPlace
      <4> QED BY <3>1, <4>1 DEF DOPlaceOf, DOCreating, DOVersioning, DO!At
    <3> QED BY <3>2, <3>3 DEF DOPlace
  <2>25. DOVersions'
        BY <1>4, <2>1, DOTyped DEF DOVersions, DOVersionsOf, DOPlace, DOPlaceOf, DOAlone,
           DOBegun, DOBegunBy, DOPending, DOCreating, DOVersioning, DOBegins, DOInv, DO!At,
           DO!Idle, DO!Found, DO!BeginCreateCategory
  <2>26. DOLate'
        BY <1>4, <2>1, DOTyped DEF DOLate, DO!CategoryInUseStays, DO!InUse, DO!AboutToGo,
           DO!Late, DOBegins, DOInv, DO!At, DO!Idle, DO!Found, DO!BeginCreateCategory
  <2>27. DOFree'
        BY <1>4, <2>1, DOTyped DEF DOFree, DOAlone, DOBegins, DOInv, DO!At, DO!Idle, DO!Found,
           DO!BeginCreateCategory
  <2>28. DO!FilesKept'
        BY <1>4, <2>1, DOTyped DEF DO!FilesKept, DOPlace, DOPlaceOf, DOBegun, DOBegunBy,
           DOVersions, DOVersionsOf, DOCreating, DOVersioning, DOBegins, DOInv, DO!At, DO!Idle,
           DO!Found, DO!BeginCreateCategory
  <2>29. DO!CodesDiffer'
        BY <1>4, <2>1, DOTyped DEF DO!CodesDiffer, DOFree, DOAlone, DOBegins, DOInv, DO!At,
           DO!Idle, DO!Found, DO!BeginCreateCategory
  <2> QED BY <2>21, <2>22, <2>23, <2>24, <2>25, <2>26, <2>27, <2>28, <2>29
<1>5. ASSUME NEW r \in Requests, NEW c \in Rows, DO!InsertCategory(r, c)
      PROVE  DOAlone' /\ DOBounded' /\ DOBegun' /\ DOPlace' /\ DOVersions' /\ DOLate' /\ DOFree' /\ DO!FilesKept' /\ DO!CodesDiffer'
  <2> HIDE DEF DO!TypeOK, DO!HandlersTypeOK, DO!Numbers, DO!DocumentRow, DO!VersionRow,
           DO!CategoryRow, DO!Running,
               DO!documents, DO!Found, DO!Present, DO!At, DO!Start, DO!Once, DO!Goto, DO!Finish,
               DO!Absent, DO!Gone, DO!Idle,
               DO!Handled
  <2>1. DOStays(r) /\ request[r] # DO!Idle
        BY <1>5, DOStayed DEF DOInv
  <2>2. DOBegunBy(r)' /\ DOPlaceOf(r)'
        BY <1>5, DOWays, DOIdle DEF DOInv
  <2>3. ~DOPending(r)
        BY <1>5 DEF DO!InsertCategory, DOPending, DO!At
  <2>11. DOAlone' /\ DOBounded' /\ DOBegun' /\ DOPlace' /\ DOVersions' /\ DO!FilesKept'
        BY <1>5, <2>1, <2>2, <2>3, DOSame DEF DO!InsertCategory, DO!documents, DO!Found
  <2>12. DOLate' /\ DOFree' /\ DO!CodesDiffer'
    <3>1. /\ category'[c] = [code |-> request[r].on] /\ \A e \in Rows \ {c} : category'[e] = category[e]
          /\ UNCHANGED <<doc, versions, stored, unpointed, late, stripped>> /\ DO!At(r, "insertCategory")
          BY <1>5 DEF DO!InsertCategory, DOInv, DO!TypeOK
    <3>2. category'[c].code = request[r].on /\ UNCHANGED raced
          BY <2>1, <3>1 DEF DOStays
    <3>3. \A q \in Requests : DO!At(q, "insertCategory")' => q # r /\ request'[q] = request[q] /\ DO!At(q, "insertCategory")
          BY <1>5, <2>1, DOWays DEF DOStays, DOOver, DOInv, DO!At, DO!Idle
    <3>4. \A q \in Requests : DO!At(q, "deleteCategory")' => request'[q] = request[q] /\ DO!At(q, "deleteCategory")
          BY <1>5, <2>1, DOWays DEF DOStays, DOOver, DOInv, DO!At, DO!Idle
    <3>5. DOLate'
          BY <3>1, <3>4 DEF DOInv, DOLate, DO!CategoryInUseStays, DO!InUse, DO!Found
    <3>6. \A q \in Requests : DO!At(q, "insertCategory") /\ request[q].on = request[r].on /\ request[q].on \notin raced => q = r
          BY <2>1, <3>1 DEF DOInv, DOAlone, DO!At, DO!Idle
    <3>7. DOFree'
          BY <3>1, <3>2, <3>3, <3>6 DEF DOInv, DOFree
    <3>8. DO!CodesDiffer'
          BY <3>1, <3>2 DEF DOInv, DOFree, DO!CodesDiffer
    <3> QED BY <3>5, <3>7, <3>8
  <2> QED BY <2>11, <2>12
<1>6. ASSUME NEW r \in Requests, NEW c \in Rows, DO!BeginRemoveCategory(r, c)
      PROVE  DOAlone' /\ DOBounded' /\ DOBegun' /\ DOPlace' /\ DOVersions' /\ DOLate' /\ DOFree' /\ DO!FilesKept' /\ DO!CodesDiffer'
  <2> HIDE DEF DO!TypeOK, DO!HandlersTypeOK, DO!Numbers, DO!DocumentRow, DO!VersionRow,
           DO!CategoryRow, DO!Running,
               DO!documents, DO!Found, DO!Present, DO!At, DO!Start, DO!Once, DO!Goto, DO!Finish,
               DO!Absent, DO!Gone, DO!Idle,
               DO!Handled
  <2>1. DOBegins(r, [pc |-> "hasDocuments", on |-> c])
        BY <1>6, DOBegin DEF DO!BeginRemoveCategory, DOInv
  <2>21. DOAlone'
        BY <1>6, <2>1, DOTyped DEF DOAlone, DOCreating, DOBegins, DOInv, DO!At, DO!Idle,
           DO!Found, DO!BeginRemoveCategory
  <2>22. DOBounded'
    <3>1. \A e \in Parts : DO!Found(e) => doc[e].current \in Nat /\ doc[e].current <= started
          BY DORows DEF DOInv, DOBounded
    <3>2. \A q \in Requests : DOCreating(q) \/ DOVersioning(q) => request[q].n \in Nat /\ request[q].n <= started
          BY DOTyped DEF DOInv, DOBounded
    <3>3. \A q \in Requests \ {r} : request'[q] = request[q] /\ (DOCreating(q)' <=> DOCreating(q)) /\ (DOVersioning(q)' <=> DOVersioning(q))
          BY <2>1 DEF DOBegins, DOCreating, DOVersioning
    <3>4. (DOCreating(r) \/ DOVersioning(r))' => request'[r].n <= started + 1
          BY <1>6, <2>1, <3>1 DEF DO!BeginRemoveCategory, DOBegins, DOCreating, DOVersioning
    <3>5. started' = started + 1 /\ started \in Nat /\ doc' = doc
          BY <2>1 DEF DOBegins
    <3>6. \A e \in Parts : DO!Found(e)' => DO!Found(e) /\ doc'[e].current <= started + 1
          BY <3>1, <3>5 DEF DO!Found
    <3>7. \A q \in Requests \ {r} : (DOCreating(q) \/ DOVersioning(q))' => request'[q].n <= started + 1
          BY <3>2, <3>3, <3>5
    <3> QED BY <3>4, <3>5, <3>6, <3>7 DEF DOBounded
  <2>23. DOBegun'
        BY <1>6, <2>1, DOTyped DEF DOBegun, DOBegunBy, DOAlone, DOCreating, DOVersioning,
           DOUpdating, DOBegins, DOInv, DO!At, DO!Idle, DO!Found, DO!BeginRemoveCategory
  <2>24. DOPlace'
    <3>1. UNCHANGED <<doc, versions, stored, unpointed>> /\ raced \subseteq raced'
          BY <2>1 DEF DOBegins
    <3>2. DOPlaceOf(r)'
          BY <1>6, <2>1, <3>1 DEF DO!BeginRemoveCategory, DOBegins, DOPlaceOf, DOInv,
             DOVersions, DOVersionsOf, DOPending, DOCreating, DOVersioning, DO!At, DO!Idle
    <3>3. ASSUME NEW q \in Requests \ {r}
          PROVE  DOPlaceOf(q)'
      <4>1. request'[q] = request[q] /\ DOPlaceOf(q)
            BY <2>1 DEF DOBegins, DOInv, DOPlace
      <4> QED BY <3>1, <4>1 DEF DOPlaceOf, DOCreating, DOVersioning, DO!At
    <3> QED BY <3>2, <3>3 DEF DOPlace
  <2>25. DOVersions'
        BY <1>6, <2>1, DOTyped DEF DOVersions, DOVersionsOf, DOPlace, DOPlaceOf, DOAlone,
           DOBegun, DOBegunBy, DOPending, DOCreating, DOVersioning, DOBegins, DOInv, DO!At,
           DO!Idle, DO!Found, DO!BeginRemoveCategory
  <2>26. DOLate'
        BY <1>6, <2>1, DOTyped DEF DOLate, DO!CategoryInUseStays, DO!InUse, DO!AboutToGo,
           DO!Late, DOBegins, DOInv, DO!At, DO!Idle, DO!Found, DO!BeginRemoveCategory
  <2>27. DOFree'
        BY <1>6, <2>1, DOTyped DEF DOFree, DOAlone, DOBegins, DOInv, DO!At, DO!Idle, DO!Found,
           DO!BeginRemoveCategory
  <2>28. DO!FilesKept'
        BY <1>6, <2>1, DOTyped DEF DO!FilesKept, DOPlace, DOPlaceOf, DOBegun, DOBegunBy,
           DOVersions, DOVersionsOf, DOCreating, DOVersioning, DOBegins, DOInv, DO!At, DO!Idle,
           DO!Found, DO!BeginRemoveCategory
  <2>29. DO!CodesDiffer'
        BY <1>6, <2>1, DOTyped DEF DO!CodesDiffer, DOFree, DOAlone, DOBegins, DOInv, DO!At,
           DO!Idle, DO!Found, DO!BeginRemoveCategory
  <2> QED BY <2>21, <2>22, <2>23, <2>24, <2>25, <2>26, <2>27, <2>28, <2>29
<1>7. ASSUME NEW r \in Requests, DO!CheckCategory(r)
      PROVE  DOAlone' /\ DOBounded' /\ DOBegun' /\ DOPlace' /\ DOVersions' /\ DOLate' /\ DOFree' /\ DO!FilesKept' /\ DO!CodesDiffer'
  <2> HIDE DEF DO!TypeOK, DO!HandlersTypeOK, DO!Numbers, DO!DocumentRow, DO!VersionRow,
           DO!CategoryRow, DO!Running,
               DO!documents, DO!Found, DO!Present, DO!At, DO!Start, DO!Once, DO!Goto, DO!Finish,
               DO!Absent, DO!Gone, DO!Idle,
               DO!Handled
  <2>1. DOStays(r) /\ request[r] # DO!Idle
        BY <1>7, DOStayed DEF DOInv
  <2>2. DOBegunBy(r)' /\ DOPlaceOf(r)'
    <3>1. CASE DOOver(r)
          BY <3>1, DOIdle
    <3>2. CASE DOGoes(r, DONextPc(r))
      <4>1. DO!At(r, "checkCategory") /\ DOBegunBy(r) /\ DOPlaceOf(r) /\ UNCHANGED DO!documents
            BY <1>7 DEF DO!CheckCategory, DOInv, DOBegun, DOPlace
      <4>2. request'[r].pc \in {"upload", "update"}
            BY <3>2, <4>1 DEF DOGoes, DONextPc, DO!At
      <4>3. DOCreating(r)' => DOCreating(r)
            BY <2>1 DEF DOStays
      <4>4. ~DOVersioning(r)' /\ (DOUpdating(r)' => DOUpdating(r)) /\ request'[r].on = request[r].on
            BY <2>1, <3>2, <4>1 DEF DOStays, DOGoes, DOVersioning, DO!At
      <4> QED BY <2>1, <4>1, <4>2, <4>3, <4>4 DEF DOBegunBy, DOPlaceOf, DO!documents, DOStays,
                 DO!Found, DO!At
    <3> QED BY <1>7, <3>1, <3>2, DOWays DEF DOInv
  <2>3. ~DOPending(r)
        BY <1>7 DEF DO!CheckCategory, DOPending, DO!At
  <2>11. DOAlone' /\ DOBounded' /\ DOBegun' /\ DOPlace' /\ DOVersions' /\ DO!FilesKept'
        BY <1>7, <2>1, <2>2, <2>3, DOSame DEF DO!CheckCategory, DO!documents, DO!Found
  <2>12. DOLate' /\ DOFree' /\ DO!CodesDiffer'
    <3>1. DO!At(r, "hasDocuments") /\ DO!At(r, "deleteCategory")' => DO!InUse(request[r].on) = {}
          BY <1>7 DEF DO!CheckCategory, DO!At
    <3> QED BY <1>7, <2>1, <3>1, DOElse, NoneAssumption DEF DO!CheckCategory, DO!documents,
               DO!Found, DO!At, DOInv, DO!TypeOK
  <2> QED BY <2>11, <2>12
<1>8. ASSUME NEW r \in Requests, DO!Update(r)
      PROVE  DOAlone' /\ DOBounded' /\ DOBegun' /\ DOPlace' /\ DOVersions' /\ DOLate' /\ DOFree' /\ DO!FilesKept' /\ DO!CodesDiffer'
  <2> HIDE DEF DO!TypeOK, DO!HandlersTypeOK, DO!Numbers, DO!DocumentRow, DO!VersionRow,
           DO!CategoryRow, DO!Running,
               DO!documents, DO!Found, DO!Present, DO!At, DO!Start, DO!Once, DO!Goto, DO!Finish,
               DO!Absent, DO!Gone, DO!Idle,
               DO!Handled
  <2>1. DOStays(r) /\ request[r] # DO!Idle
        BY <1>8, DOStayed DEF DOInv
  <2>2. DOBegunBy(r)' /\ DOPlaceOf(r)'
        BY <1>8, DOWays, DOIdle DEF DOInv
  <2>3. ~DOPending(r)
        BY <1>8 DEF DO!Update, DOPending, DO!At
  <2>4. DOUpdated(r)
        BY <1>8, DOUpdate
  <2>11. DOAlone' /\ DOBounded' /\ DOBegun' /\ DOPlace' /\ DOVersions' /\ DO!FilesKept'
        BY <1>8, <2>1, <2>2, <2>3, <2>4, DOSame DEF DOUpdated, DO!Update, DO!documents, DO!Found
  <2>12. DOLate' /\ DOFree' /\ DO!CodesDiffer'
    <3>1. DO!At(r, "hasDocuments") /\ DO!At(r, "deleteCategory")' => DO!InUse(request[r].on) = {}
          BY <1>8 DEF DO!Update, DO!At
    <3> QED BY <1>8, <2>1, <2>4, <3>1, DOElse, NoneAssumption DEF DO!Update, DO!documents,
               DO!Found, DO!At, DOUpdated
  <2> QED BY <2>11, <2>12
<1>9. ASSUME NEW r \in Requests, DO!Upload(r)
      PROVE  DOAlone' /\ DOBounded' /\ DOBegun' /\ DOPlace' /\ DOVersions' /\ DOLate' /\ DOFree' /\ DO!FilesKept' /\ DO!CodesDiffer'
  <2> HIDE DEF DO!TypeOK, DO!HandlersTypeOK, DO!Numbers, DO!DocumentRow, DO!VersionRow,
           DO!CategoryRow, DO!Running,
               DO!documents, DO!Found, DO!Present, DO!At, DO!Start, DO!Once, DO!Goto, DO!Finish,
               DO!Absent, DO!Gone, DO!Idle,
               DO!Handled
  <2>1. DOStays(r) /\ request[r] # DO!Idle
        BY <1>9, DOStayed DEF DOInv
  <2>2. PICK x, n : x = request[r].on /\ n = request[r].n
        OBVIOUS
  <2>3. x \in Parts /\ n \in DO!Numbers /\ request[r].file \in Contents /\ (DOCreating(r) \/ DOVersioning(r)) /\ DO!At(r, "upload")
        BY <1>9, <2>2, DOTyped, StartedAssumption DEF DO!Upload, DO!At, DOInv, DOBounded,
           DO!Numbers, DO!TypeOK, DO!HandlersTypeOK
  <2>4. /\ stored'[x][n] = request[r].file /\ request[r].file # None
        /\ \A m \in DO!Numbers \ {n} : stored'[x][m] = stored[x][m]
        /\ \A d \in Parts \ {x} : stored'[d] = stored[d]
        /\ UNCHANGED <<doc, versions, category, unpointed, late, stripped>>
        BY <1>9, <2>2, <2>3, NoneAssumption DEF DO!Upload, DOInv, DO!TypeOK
  <2>5. DOVersionsOf(x)' /\ (DO!Present(doc'[x]) => doc'[x].current <= started')
    <3>1. \A q \in Requests : DOPending(q) => DOPending(q)' /\ request'[q].on = request[q].on
          BY <2>1, <2>3 DEF DOStays, DOPending, DO!At
    <3> QED BY <2>1, <2>3, <2>4, <3>1 DEF DOInv, DOVersions, DOVersionsOf, DOBounded, DOStays,
               DO!Found
  <2>6. DOFilesOf(x)'
    <3>1. DOFilesOf(x) /\ DOVersionsOf(x) /\ DOPlaceOf(r) /\ \A i \in DOMAIN versions[x] : versions[x][i].number \in DO!Numbers
      <4>1. versions[x] \in Seq(DO!VersionRow)
            BY <2>3 DEF DOInv, DO!TypeOK
      <4>2. \A i \in DOMAIN versions[x] : versions[x][i] \in DO!VersionRow
            BY <4>1
      <4> QED BY <2>3, <4>2 DEF DOInv, DO!FilesKept, DOFilesOf, DOVersions, DOPlace,
                 DO!VersionRow
    <3>2. \A i \in DOMAIN versions[x] : i \in 1..Len(versions[x]) /\ Len(versions[x]) \in Nat
          BY <2>3 DEF DOInv, DO!TypeOK
    <3>3. x \notin raced \cup unpointed => \A i \in DOMAIN versions[x] : versions[x][i].number # n
          BY <2>2, <2>3, <3>1, <3>2 DEF DOVersionsOf, DOPlaceOf, DO!At
    <3>4. raced' = raced
          BY <2>1 DEF DOStays
    <3> QED BY <2>4, <3>1, <3>3, <3>4 DEF DOFilesOf
  <2>7. DOBegunBy(r)' /\ DOPlaceOf(r)'
    <3>1. DOBegunBy(r) /\ DOPlaceOf(r) /\ DOGoes(r, DONextPc(r))
          BY <1>9, DOWays DEF DOInv, DOBegun, DOPlace
    <3>2. request'[r].pc \in {"insertDocument", "insertVersion"} /\ (DOCreating(r) => ~DO!At(r, "insertVersion")')
              /\ request'[r].on = x /\ request'[r].n = n /\ request'[r].file = request[r].file
          BY <2>2, <2>3, <3>1 DEF DOGoes, DONextPc, DO!At, DOCreating
    <3>3. (DOCreating(r)' => DOCreating(r)) /\ (DOVersioning(r)' => DOVersioning(r)) /\ (DOUpdating(r)' => DOUpdating(r))
              /\ raced' = raced
          BY <2>1 DEF DOStays
    <3>4. DOBegunBy(r)'
          BY <2>2, <2>3, <2>4, <3>1, <3>2, <3>3 DEF DOBegunBy, DO!Found, DO!At
    <3>5. DOPlaceOf(r)'
          BY <2>2, <2>3, <2>4, <3>1, <3>2, <3>3 DEF DOPlaceOf, DO!At
    <3> QED BY <3>4, <3>5
  <2>11. DOAlone' /\ DOBounded' /\ DOBegun' /\ DOPlace' /\ DOVersions' /\ DO!FilesKept'
        BY <2>1, <2>2, <2>3, <2>4, <2>5, <2>6, <2>7, DOLocal DEF DO!Found
  <2>12. DOLate' /\ DOFree' /\ DO!CodesDiffer'
    <3>1. ~DO!At(r, "hasDocuments")
          BY <1>9 DEF DO!Upload, DO!At
    <3> QED BY <2>1, <2>2, <2>3, <2>4, <2>5, <2>6, <2>7, <3>1, DOElse, NoneAssumption
               DEF DO!Found, DO!Late
  <2> QED BY <2>11, <2>12
<1>10. ASSUME NEW r \in Requests, DO!InsertDocument(r)
      PROVE  DOAlone' /\ DOBounded' /\ DOBegun' /\ DOPlace' /\ DOVersions' /\ DOLate' /\ DOFree' /\ DO!FilesKept' /\ DO!CodesDiffer'
  <2> HIDE DEF DO!TypeOK, DO!HandlersTypeOK, DO!Numbers, DO!DocumentRow, DO!VersionRow,
           DO!CategoryRow, DO!Running,
               DO!documents, DO!Found, DO!Present, DO!At, DO!Start, DO!Once, DO!Goto, DO!Finish,
               DO!Absent, DO!Gone, DO!Idle,
               DO!Handled
  <2>1. DOStays(r) /\ request[r] # DO!Idle
        BY <1>10, DOStayed DEF DOInv
  <2>2. PICK x, n : x = request[r].on /\ n = request[r].n
        OBVIOUS
  <2>3. x \in Parts /\ n = 1 /\ DOCreating(r) /\ DO!At(r, "insertDocument") /\ ~DO!Found(x) /\ started >= 1 /\ started' = started
            /\ raced' = raced /\ request[r].category \in Rows \cup {None}
        BY <1>10, <2>1, <2>2, DOTyped DEF DO!InsertDocument, DO!At, DOInv, DOBounded, DOBegun,
           DOBegunBy, DOStays, DO!TypeOK, DO!HandlersTypeOK
  <2>4. UNCHANGED <<versions, stored, category, unpointed, stripped>> /\ late \subseteq late'
        /\ \A d \in Parts \ {x} : doc'[d] = doc[d]
        BY <1>10, <2>2, <2>3 DEF DO!InsertDocument, DO!Late, DOInv, DO!TypeOK
  <2>5. \/ DOOver(r) /\ UNCHANGED <<doc, late>>
        \/ /\ DOGoes(r, DONextPc(r)) /\ DO!Present(doc'[x]) /\ doc'[x].current = 1
           /\ doc'[x].category = request[r].category /\ late' = DO!Late(x, request[r].category)
    <3>1. CASE DOOver(r) /\ UNCHANGED <<doc, late>>
          BY <3>1
    <3>2. CASE DOGoes(r, DONextPc(r)) /\ ~DOOver(r)
      <4>1. request[r].category = None \/ DO!Present(category[request[r].category])
            BY <1>10, <3>2, DOEnd, <2>1 DEF DO!InsertDocument, DOInv
      <4>2. doc' = [doc EXCEPT ![x] = [status |-> "ACTIVE", current |-> 1, category |-> request[r].category]]
                /\ late' = DO!Late(x, request[r].category)
            BY <1>10, <2>2, <4>1 DEF DO!InsertDocument
      <4>3. doc'[x] = [status |-> "ACTIVE", current |-> 1, category |-> request[r].category]
            BY <2>3, <4>2 DEF DOInv, DO!TypeOK
      <4>4. doc'[x] \in DO!DocumentRow
            BY <2>3, <4>3, StartedAssumption DEF DO!DocumentRow, DO!Numbers, DOInv, DO!TypeOK,
               DO!HandlersTypeOK
      <4> QED BY <3>2, <4>2, <4>3, <4>4, DORows
    <3> QED BY <1>10, <3>1, <3>2, DOWays DEF DOInv, DOGoes, DOOver
  <2>6. DOVersionsOf(x)' /\ DOFilesOf(x)' /\ (DO!Present(doc'[x]) => doc'[x].current <= started')
    <3>1. versions[x] = <<>> /\ DOVersionsOf(x)
          BY <2>3 DEF DOInv, DOVersions, DOVersionsOf
    <3>2. DOFilesOf(x)'
          BY <2>4, <3>1 DEF DOFilesOf
    <3>3. DOGoes(r, DONextPc(r)) => DOPending(r)' /\ request'[r].on = x
          BY <2>2, <2>3 DEF DOGoes, DONextPc, DOPending, DOCreating, DO!At
    <3>4. DOVersionsOf(x)'
          BY <2>3, <2>4, <2>5, <3>1, <3>3 DEF DOVersionsOf, DO!Found
    <3> QED BY <2>3, <2>5, <3>2, <3>4 DEF DO!Found
  <2>7. DOBegunBy(r)' /\ DOPlaceOf(r)'
    <3>1. CASE DOOver(r)
          BY <3>1, DOIdle
    <3>2. CASE ~DOOver(r)
      <4>1. DOBegunBy(r) /\ DOPlaceOf(r) /\ DOGoes(r, DONextPc(r)) /\ DO!Present(doc'[x]) /\ doc'[x].current = 1
            BY <2>5, <3>2 DEF DOInv, DOBegun, DOPlace
      <4>2. DO!At(r, "insertVersion")' /\ request'[r].on = x /\ request'[r].n = n /\ request'[r].file = request[r].file
                   /\ ~DOVersioning(r)' /\ ~DOUpdating(r)'
            BY <2>2, <2>3, <4>1 DEF DOGoes, DONextPc, DO!At, DOCreating, DOVersioning,
               DOUpdating
      <4>3. DOBegunBy(r)'
            BY <2>2, <2>3, <2>4, <4>1, <4>2 DEF DOBegunBy, DO!Found, DO!At
      <4>4. DOPlaceOf(r)'
            BY <2>2, <2>3, <2>4, <4>1, <4>2 DEF DOPlaceOf, DO!At
      <4> QED BY <4>3, <4>4
    <3> QED BY <3>1, <3>2
  <2>11. DOAlone' /\ DOBounded' /\ DOBegun' /\ DOPlace' /\ DOVersions' /\ DO!FilesKept'
        BY <2>1, <2>2, <2>3, <2>4, <2>5, <2>6, <2>7, DOLocal DEF DO!Found
  <2>12. DOLate' /\ DOFree' /\ DO!CodesDiffer'
    <3>1. ~DO!At(r, "hasDocuments")
          BY <1>10 DEF DO!InsertDocument, DO!At
    <3> QED BY <2>1, <2>2, <2>3, <2>4, <2>5, <2>6, <2>7, <3>1, DOElse, NoneAssumption
               DEF DO!Found, DO!Late
  <2> QED BY <2>11, <2>12
<1>11. ASSUME NEW r \in Requests, DO!InsertVersion(r)
      PROVE  DOAlone' /\ DOBounded' /\ DOBegun' /\ DOPlace' /\ DOVersions' /\ DOLate' /\ DOFree' /\ DO!FilesKept' /\ DO!CodesDiffer'
  <2> HIDE DEF DO!TypeOK, DO!HandlersTypeOK, DO!Numbers, DO!DocumentRow, DO!VersionRow,
           DO!CategoryRow, DO!Running,
               DO!documents, DO!Found, DO!Present, DO!At, DO!Start, DO!Once, DO!Goto, DO!Finish,
               DO!Absent, DO!Gone, DO!Idle,
               DO!Handled
  <2>1. DOStays(r) /\ request[r] # DO!Idle
        BY <1>11, DOStayed DEF DOInv
  <2>2. PICK x, n : x = request[r].on /\ n = request[r].n
        OBVIOUS
  <2>3. x \in Parts /\ n \in DO!Numbers /\ request[r].file \in Contents /\ (DOCreating(r) \/ DOVersioning(r)) /\ DO!At(r, "insertVersion")
            /\ started' = started /\ raced' = raced /\ DOBegunBy(r) /\ DOPlaceOf(r) /\ DOVersionsOf(x) /\ DOFilesOf(x)
    <3>1. DO!At(r, "insertVersion") /\ started' = started /\ raced' = raced
          BY <1>11, <2>1 DEF DO!InsertVersion, DOStays
    <3>2. x \in Parts /\ n \in DO!Numbers /\ request[r].file \in Contents /\ (DOCreating(r) \/ DOVersioning(r))
      <4>1. DO!TypeOK /\ request[r].pc = "insertVersion"
            BY <3>1 DEF DO!At, DOInv
      <4>2. DOCreating(r) \/ DOVersioning(r)
            BY <4>1, DOTyped
      <4>3. x \in Parts /\ n \in Nat /\ n >= 1 /\ request[r].file \in Contents
            BY <2>2, <4>1, <4>2, DOTyped
      <4>4. n <= started /\ started \in 0..DOStarted
            BY <2>2, <4>1, <4>2 DEF DOInv, DOBounded, DO!TypeOK, DO!HandlersTypeOK
      <4> QED BY <4>2, <4>3, <4>4, StartedAssumption DEF DO!Numbers
    <3> QED BY <2>1, <2>2, <3>1, <3>2 DEF DOInv, DOBegun, DOPlace, DOVersions, DO!FilesKept,
               DOFilesOf
  <2>4. PICK row : row = [number |-> n, gave |-> request[r].file]
        OBVIOUS
  <2>5. /\ UNCHANGED <<doc, stored, category, unpointed, late, stripped>>
        /\ versions'[x] = Append(versions[x], row) /\ \A d \in Parts \ {x} : versions'[d] = versions[d]
        /\ versions[x] \in Seq(DO!VersionRow) /\ row \in DO!VersionRow /\ row.number = n /\ row.gave = request[r].file
        BY <1>11, <2>2, <2>3, <2>4 DEF DO!InsertVersion, DO!VersionRow, DOInv, DO!TypeOK
  <2>6. /\ Len(versions[x]) \in Nat /\ Len(versions'[x]) = Len(versions[x]) + 1
        /\ DOMAIN versions[x] = 1..Len(versions[x]) /\ DOMAIN versions'[x] = 1..(Len(versions[x]) + 1)
        /\ \A i \in DOMAIN versions[x] : versions'[x][i] = versions[x][i]
        /\ versions'[x][Len(versions[x]) + 1] = row
        BY <2>5, DOOneMore
  <2>7. DO!Found(x) /\ stored[x][n] # None
        BY <2>2, <2>3 DEF DOBegunBy, DO!At
  <2>8. x \notin raced \cup unpointed => stored[x][n] = request[r].file /\ n = Len(versions[x]) + 1
                                          /\ (DOCreating(r) => doc[x].current = 1 /\ versions[x] = <<>> /\ n = 1)
        BY <2>2, <2>3, DOTyped DEF DOPlaceOf, DO!At, DOInv
  <2>9. \/ DOCreating(r) /\ DOOver(r)
        \/ DOVersioning(r) /\ DOGoes(r, DONextPc(r)) /\ DO!At(r, "updatePointer")' /\ request'[r].on = x /\ request'[r].n = n
              /\ ~DOCreating(r)' /\ ~DOUpdating(r)' /\ DOPending(r)'
        BY <1>11, <2>2, <2>3, DOWays DEF DOInv, DOGoes, DONextPc, DOCreating, DOVersioning,
           DOUpdating, DOPending, DO!At
  <2>10. /\ DOVersionsOf(x)' /\ DOFilesOf(x)' /\ (DO!Present(doc'[x]) => doc'[x].current <= started')
         /\ DOBegunBy(r)' /\ DOPlaceOf(r)'
    <3>1. DO!Present(doc'[x]) => doc'[x].current <= started'
          BY <2>3, <2>5 DEF DOInv, DOBounded, DO!Found
    <3>2. DOFilesOf(x)'
          BY <2>3, <2>5, <2>6, <2>7, <2>8 DEF DOFilesOf
    <3>3. ASSUME x \notin raced \cup unpointed
          PROVE  \A i \in DOMAIN versions'[x] : versions'[x][i].number = i
          BY <2>3, <2>5, <2>6, <2>8, <3>3 DEF DOVersionsOf
    <3>4. ASSUME x \notin raced \cup unpointed, ~DOPending(r)' \/ request'[r].on # x
          PROVE  doc'[x].current = Len(versions'[x])
          BY <2>5, <2>6, <2>8, <2>9, <3>4
    <3>5. DOVersionsOf(x)'
          BY <2>3, <2>5, <2>7, <3>3, <3>4 DEF DOVersionsOf, DO!Found
    <3>6. DOBegunBy(r)' /\ DOPlaceOf(r)'
      <4>1. CASE DOOver(r)
            BY <4>1, DOIdle
      <4>2. CASE ~DOOver(r)
        <5>1. DOVersioning(r) /\ DO!At(r, "updatePointer")' /\ request'[r].on = x /\ request'[r].n = n
                  /\ ~DOCreating(r)' /\ ~DOUpdating(r)'
              BY <2>9, <4>2
        <5>2. DOBegunBy(r)'
              BY <2>5, <2>7, <5>1 DEF DOBegunBy, DO!Found, DO!At
        <5>3. DOPlaceOf(r)'
              BY <2>3, <2>5, <2>6, <2>8, <5>1 DEF DOPlaceOf, DO!At
        <5> QED BY <5>2, <5>3
      <4> QED BY <4>1, <4>2
    <3> QED BY <3>1, <3>2, <3>5, <3>6
  <2>11. DOAlone' /\ DOBounded' /\ DOBegun' /\ DOPlace' /\ DOVersions' /\ DO!FilesKept'
        BY <2>1, <2>2, <2>3, <2>4, <2>5, <2>6, <2>7, <2>8, <2>9, <2>10, DOLocal DEF DO!Found
  <2>12. DOLate' /\ DOFree' /\ DO!CodesDiffer'
    <3>1. ~DO!At(r, "hasDocuments")
          BY <1>11 DEF DO!InsertVersion, DO!At
    <3> QED BY <2>1, <2>2, <2>3, <2>4, <2>5, <2>6, <2>7, <2>8, <2>9, <2>10, <3>1, DOElse,
               NoneAssumption DEF DO!Found, DO!Late
  <2> QED BY <2>11, <2>12
<1>12. ASSUME NEW r \in Requests, DO!UpdatePointer(r)
      PROVE  DOAlone' /\ DOBounded' /\ DOBegun' /\ DOPlace' /\ DOVersions' /\ DOLate' /\ DOFree' /\ DO!FilesKept' /\ DO!CodesDiffer'
  <2> HIDE DEF DO!TypeOK, DO!HandlersTypeOK, DO!Numbers, DO!DocumentRow, DO!VersionRow,
           DO!CategoryRow, DO!Running,
               DO!documents, DO!Found, DO!Present, DO!At, DO!Start, DO!Once, DO!Goto, DO!Finish,
               DO!Absent, DO!Gone, DO!Idle,
               DO!Handled
  <2>1. DOStays(r) /\ request[r] # DO!Idle
        BY <1>12, DOStayed DEF DOInv
  <2>2. PICK x, n : x = request[r].on /\ n = request[r].n
        OBVIOUS
  <2>3. DOPoints(r) /\ DOOver(r) /\ DOVersioning(r) /\ DO!At(r, "updatePointer") /\ started' = started /\ raced' = raced /\ n <= started
            /\ UNCHANGED <<versions, stored, category, unpointed, late, stripped>> /\ x \in Parts
        BY <1>12, <2>1, <2>2, DOPoint, DOWays, DOTyped DEF DO!UpdatePointer, DOPoints, DO!At,
           DOStays, DOInv, DOBounded
  <2>4. DOBegunBy(r)' /\ DOPlaceOf(r)'
        BY <2>3, DOIdle
  <2>5. DOFilesOf(x)' /\ (DO!Present(doc'[x]) => doc'[x].current <= started')
        BY <2>2, <2>3 DEF DOInv, DO!FilesKept, DOFilesOf, DOPoints
  <2>6. DOVersionsOf(x) /\ DOPlaceOf(r) /\ Len(versions[x]) \in Nat
        BY <2>3 DEF DOInv, DOVersions, DOPlace, DO!TypeOK
  <2>7. x \notin raced \cup unpointed => n = Len(versions[x])
        BY <2>2, <2>3, <2>6 DEF DOPlaceOf
  <2>8. DOVersionsOf(x)'
        BY <2>2, <2>3, <2>6, <2>7 DEF DOVersionsOf, DOPoints, DO!Found
  <2>11. DOAlone' /\ DOBounded' /\ DOBegun' /\ DOPlace' /\ DOVersions' /\ DO!FilesKept'
        BY <2>1, <2>2, <2>3, <2>4, <2>5, <2>6, <2>7, <2>8, DOLocal DEF DO!Found, DOPoints
  <2>12. DOLate' /\ DOFree' /\ DO!CodesDiffer'
    <3>1. ~DO!At(r, "hasDocuments")
          BY <1>12 DEF DO!UpdatePointer, DO!At
    <3> QED BY <2>1, <2>2, <2>3, <2>4, <2>5, <2>6, <2>7, <2>8, <3>1, DOElse, NoneAssumption
               DEF DO!Found, DO!Late, DOPoints
  <2> QED BY <2>11, <2>12
<1>13. ASSUME NEW r \in Requests, DO!HasDocuments(r)
      PROVE  DOAlone' /\ DOBounded' /\ DOBegun' /\ DOPlace' /\ DOVersions' /\ DOLate' /\ DOFree' /\ DO!FilesKept' /\ DO!CodesDiffer'
  <2> HIDE DEF DO!TypeOK, DO!HandlersTypeOK, DO!Numbers, DO!DocumentRow, DO!VersionRow,
           DO!CategoryRow, DO!Running,
               DO!documents, DO!Found, DO!Present, DO!At, DO!Start, DO!Once, DO!Goto, DO!Finish,
               DO!Absent, DO!Gone, DO!Idle,
               DO!Handled
  <2>1. DOStays(r) /\ request[r] # DO!Idle
        BY <1>13, DOStayed DEF DOInv
  <2>2. DOBegunBy(r)' /\ DOPlaceOf(r)'
    <3>1. CASE DOOver(r)
          BY <3>1, DOIdle
    <3>2. CASE DOGoes(r, DONextPc(r))
      <4>1. request'[r].pc = "deleteCategory"
            BY <1>13, <3>2 DEF DOGoes, DONextPc, DO!At, DO!HasDocuments
      <4> QED BY <4>1 DEF DOBegunBy, DOPlaceOf, DOCreating, DOVersioning, DOUpdating, DO!At
    <3> QED BY <1>13, <3>1, <3>2, DOWays DEF DOInv
  <2>3. ~DOPending(r)
        BY <1>13 DEF DO!HasDocuments, DOPending, DO!At
  <2>11. DOAlone' /\ DOBounded' /\ DOBegun' /\ DOPlace' /\ DOVersions' /\ DO!FilesKept'
        BY <1>13, <2>1, <2>2, <2>3, DOSame DEF DO!HasDocuments, DO!documents, DO!Found
  <2>12. DOLate' /\ DOFree' /\ DO!CodesDiffer'
    <3>1. DO!At(r, "hasDocuments") /\ DO!At(r, "deleteCategory")' => DO!InUse(request[r].on) = {}
          BY <1>13, DOWays DEF DOOver, DOInv, DO!At, DO!Idle
    <3> QED BY <1>13, <2>1, <3>1, DOElse, NoneAssumption DEF DO!HasDocuments, DO!documents,
               DO!Found, DO!At
  <2> QED BY <2>11, <2>12
<1>14. ASSUME NEW r \in Requests, DO!DeleteCategory(r)
      PROVE  DOAlone' /\ DOBounded' /\ DOBegun' /\ DOPlace' /\ DOVersions' /\ DOLate' /\ DOFree' /\ DO!FilesKept' /\ DO!CodesDiffer'
  <2> HIDE DEF DO!TypeOK, DO!HandlersTypeOK, DO!Numbers, DO!DocumentRow, DO!VersionRow,
           DO!CategoryRow, DO!Running,
               DO!documents, DO!Found, DO!Present, DO!At, DO!Start, DO!Once, DO!Goto, DO!Finish,
               DO!Absent, DO!Gone, DO!Idle,
               DO!Handled
  <2>1. DOStays(r) /\ request[r] # DO!Idle
        BY <1>14, DOStayed DEF DOInv
  <2>2. DOBegunBy(r)' /\ DOPlaceOf(r)'
        BY <1>14, DOWays, DOIdle DEF DOInv
  <2>3. ~DOPending(r)
        BY <1>14 DEF DO!DeleteCategory, DOPending, DO!At
  <2>4. DOStrips(r)
        BY <1>14, DOStrip
  <2>11. DOAlone' /\ DOBounded' /\ DOBegun' /\ DOPlace' /\ DOVersions' /\ DO!FilesKept'
        BY <1>14, <2>1, <2>2, <2>3, <2>4, DOSame DEF DOStrips, DO!DeleteCategory, DO!documents,
           DO!Found
  <2>12. DOLate' /\ DOFree' /\ DO!CodesDiffer'
    <3>1. DO!At(r, "deleteCategory") /\ late' = late /\ UNCHANGED raced
          BY <1>14, <2>1 DEF DO!DeleteCategory, DOStays
    <3>2. \A c \in Rows : DO!Present(category'[c]) => DO!Present(category[c]) /\ category'[c] = category[c]
          BY <2>4 DEF DOStrips
    <3>3. \A q \in Requests : DO!At(q, "deleteCategory")' => request'[q] = request[q] /\ DO!At(q, "deleteCategory")
          BY <1>14, <2>1, DOWays DEF DOStays, DOOver, DOInv, DO!At, DO!Idle
    <3>4. \A q \in Requests : DO!At(q, "insertCategory")' => request'[q] = request[q] /\ DO!At(q, "insertCategory")
          BY <1>14, <2>1, DOWays DEF DOStays, DOOver, DOInv, DO!At, DO!Idle
    <3>5. stripped' \subseteq late'
          BY <2>4, <3>1 DEF DOStrips, DOInv, DOLate, DO!CategoryInUseStays
    <3>6. ASSUME NEW q \in Requests, DO!At(q, "deleteCategory")', NEW d \in Parts, DO!Present(doc'[d]),
                 doc'[d].category = request'[q].on
          PROVE  d \in late'
      <4>1. DO!At(q, "deleteCategory") /\ request'[q].on = request[q].on /\ request[q].on \in Rows
            BY <3>3, <3>6, DOTyped DEF DOInv, DO!At
      <4>2. DO!Found(d) /\ doc[d].category = request[q].on
            BY <2>4, <3>6, <4>1, NoneAssumption DEF DOStrips
      <4> QED BY <3>1, <4>1, <4>2 DEF DOInv, DOLate, DO!InUse
    <3>7. DOLate'
          BY <3>5, <3>6 DEF DOLate, DO!CategoryInUseStays, DO!InUse, DO!Found
    <3>8. DOFree'
          BY <3>1, <3>2, <3>4 DEF DOInv, DOFree
    <3>9. DO!CodesDiffer'
          BY <3>1, <3>2 DEF DOInv, DO!CodesDiffer
    <3> QED BY <3>7, <3>8, <3>9
  <2> QED BY <2>11, <2>12
<1>15. ASSUME NEW r \in Requests, DO!Abort(r)
      PROVE  DOAlone' /\ DOBounded' /\ DOBegun' /\ DOPlace' /\ DOVersions' /\ DOLate' /\ DOFree' /\ DO!FilesKept' /\ DO!CodesDiffer'
  <2> HIDE DEF DO!TypeOK, DO!HandlersTypeOK, DO!Numbers, DO!DocumentRow, DO!VersionRow,
           DO!CategoryRow, DO!Running,
               DO!documents, DO!Found, DO!Present, DO!At, DO!Start, DO!Once, DO!Goto, DO!Finish,
               DO!Absent, DO!Gone, DO!Idle,
               DO!Handled
  <2>1. DOStays(r) /\ request[r] # DO!Idle
        BY <1>15, DOStayed DEF DOInv
  <2>2. DOBegunBy(r)' /\ DOPlaceOf(r)'
        BY <1>15, DOWays, DOIdle DEF DOInv
  <2>3. DOPending(r) => request[r].on \in unpointed'
        BY <1>15 DEF DO!Abort, DOPending, DO!At
  <2>11. DOAlone' /\ DOBounded' /\ DOBegun' /\ DOPlace' /\ DOVersions' /\ DO!FilesKept'
        BY <1>15, <2>1, <2>2, <2>3, DOSame DEF DO!Abort, DO!documents, DO!Found
  <2>12. DOLate' /\ DOFree' /\ DO!CodesDiffer'
    <3>1. DO!At(r, "hasDocuments") /\ DO!At(r, "deleteCategory")' => DO!InUse(request[r].on) = {}
          BY <1>15, DOWays DEF DOOver, DOInv, DO!At, DO!Idle
    <3> QED BY <1>15, <2>1, <3>1, DOElse, NoneAssumption DEF DO!Abort, DO!documents, DO!Found,
               DO!At
  <2> QED BY <2>11, <2>12
<1>16. CASE UNCHANGED DO!vars
  <2> HIDE DEF DO!TypeOK, DO!HandlersTypeOK, DO!Numbers, DO!DocumentRow, DO!VersionRow,
           DO!CategoryRow, DO!Running, DO!documents, DO!Found, DO!Present, DO!At, DO!Start,
           DO!Once, DO!Goto, DO!Finish, DO!Absent, DO!Gone, DO!Idle, DO!Handled
  <2>1. DOAlone'
        BY <1>16 DEF DO!vars, DOAlone, DOCreating, DOInv, DO!Found, DO!Present, DO!Absent,
           DO!Gone, DO!At
  <2>2. DOBounded'
        BY <1>16 DEF DO!vars, DOBounded, DOCreating, DOVersioning, DOInv, DO!Found, DO!Present,
           DO!Absent, DO!Gone, DO!At
  <2>3. DOBegun'
        BY <1>16 DEF DO!vars, DOBegun, DOBegunBy, DOAlone, DOCreating, DOVersioning, DOUpdating,
           DOInv, DO!Found, DO!Present, DO!Absent, DO!Gone, DO!At
  <2>4. DOPlace'
        BY <1>16 DEF DO!vars, DOPlace, DOPlaceOf, DOAlone, DOBegun, DOBegunBy, DOVersions,
           DOVersionsOf, DOPending, DOCreating, DOVersioning, DOInv, DO!Found, DO!Present,
           DO!Absent, DO!Gone, DO!At
  <2>5. DOVersions'
        BY <1>16 DEF DO!vars, DOVersions, DOVersionsOf, DOPlace, DOPlaceOf, DOAlone, DOBegun,
           DOBegunBy, DOPending, DOCreating, DOVersioning, DOInv, DO!Found, DO!Present,
           DO!Absent, DO!Gone, DO!At
  <2>6. DOLate'
        BY <1>16 DEF DO!vars, DOLate, DO!CategoryInUseStays, DO!InUse, DO!AboutToGo, DO!Late,
           DOInv, DO!Found, DO!Present, DO!Absent, DO!Gone, DO!At
  <2>7. DOFree'
        BY <1>16 DEF DO!vars, DOFree, DOAlone, DOInv, DO!Found, DO!Present, DO!Absent, DO!Gone,
           DO!At
  <2>8. DO!FilesKept'
        BY <1>16 DEF DO!vars, DO!FilesKept, DOPlace, DOPlaceOf, DOBegun, DOBegunBy, DOVersions,
           DOVersionsOf, DOCreating, DOVersioning, DOInv, DO!Found, DO!Present, DO!Absent,
           DO!Gone, DO!At
  <2>9. DO!CodesDiffer'
        BY <1>16 DEF DO!vars, DO!CodesDiffer, DOFree, DOAlone, DOInv, DO!Found, DO!Present,
           DO!Absent, DO!Gone, DO!At
  <2> QED BY <2>1, <2>2, <2>3, <2>4, <2>5, <2>6, <2>7, <2>8, <2>9
<1> HIDE DEF DO!TypeOK, DO!HandlersTypeOK, DO!Numbers, DO!DocumentRow, DO!VersionRow,
         DO!CategoryRow, DO!Running,
             DO!documents, DO!Found, DO!Present, DO!At, DO!Start, DO!Once, DO!Goto, DO!Finish,
             DO!Absent, DO!Gone, DO!Idle,
             DOInv, DO!Handled
<1> QED BY <1>1, <1>2, <1>3, <1>4, <1>5, <1>6, <1>7, <1>8, <1>9, <1>10, <1>11, <1>12, <1>13,
           <1>14, <1>15, <1>16 DEF DO!Next

\* What the invariant says of the versions.
LEMMA DONumbered == DOInv => DO!VersionsNumbered /\ DO!FilesKept /\ DO!CategoryInUseStays /\ DO!CodesDiffer
<1> SUFFICES ASSUME DOInv, NEW d \in Parts \ (raced \cup unpointed), DO!Found(d), ~DO!Handled(d)
             PROVE  /\ \A i \in DOMAIN versions[d] : versions[d][i].number = i
                    /\ doc[d].current = Len(versions[d])
    BY DEF DO!VersionsNumbered, DOInv, DOLate
<1>1. \A r \in Requests : DOPending(r) => request[r].on # d
      BY DEF DO!Handled, DOPending, DO!At, DO!Idle
<1> QED BY <1>1 DEF DOInv, DOVersions, DOVersionsOf

\* Every step keeps the invariant.
LEMMA DOInvStep == ASSUME DOInv, [DO!Next]_DO!vars PROVE DOInv'
BY DOTypeStep, DORestStep DEF DOInv

\* The number of elements is that of the library.
LEMMA CHCardinality == \A S : CH!Cardinality(S) = Cardinality(S)
BY Zenon DEF Cardinality, CH!Cardinality

(***************************************************************************)
(* Checklists.                                                             *)
(***************************************************************************)

CHRecalculating(r) == request[r].pc \in {"readItems", "writeProgress"}

\* Two handlers of one checklist or folder are remembered.
CHAlone ==
    \A q, r \in Requests :
        request[q] # CH!Idle /\ request[r] # CH!Idle /\ request[q].on = request[r].on
            /\ request[q].on \notin raced => q = r

\* The items there are belong to checklists there are, and a handler holds an
\* item of its own.
CHItems ==
    /\ \A i \in Rows : CH!Present(listed[i]) => CH!Found(listed[i].of)
    /\ \A r \in Requests : request[r].pc \in {"updateItem", "deleteItem"} =>
           listed[request[r].i] # CH!Absent /\ (CH!Present(listed[request[r].i]) => listed[request[r].i].of = request[r].on)

\* The progress is that of the items unless it is being recalculated, and what
\* is about to be written is that of the items.
CHCounts ==
    \A k \in Parts \ (raced \cup uncounted) :
        /\ CH!Found(k) /\ ~(\E r \in Requests : CHRecalculating(r) /\ request[r].on = k) =>
               checklist[k] = CH!Progress(CH!ItemsOf(k))
        /\ \A r \in Requests : CH!At(r, "writeProgress") /\ request[r].on = k => request[r].row = CH!Progress(CH!ItemsOf(k))

\* What a path says of a folder below another.
CHBelow(row) ==
    row.parent # None =>
        /\ folder[row.parent] # CH!Absent
        /\ CH!FolderFound(row.parent) => row.path = Append(folder[row.parent].path, row.path[Len(row.path)])

\* A folder about to be inserted is not there, and is inserted once.
CHFolders ==
    /\ \A f \in Rows : CH!FolderFound(f) => CHBelow(folder[f]) /\ folder[f].parent # f
    /\ \A r \in Requests : CH!At(r, "insertFolder") =>
           /\ folder[request[r].on] = CH!Absent /\ CHBelow(request[r].row)
           /\ \A q \in Requests : CH!At(q, "insertFolder") /\ request[q].on = request[r].on => q = r

\* A folder about to be deleted was there.
CHDeletes == \A r \in Requests : CH!At(r, "deleteFolder") => folder[request[r].on] # CH!Absent

CHInv == CH!TypeOK /\ CHAlone /\ CHItems /\ CHCounts /\ CHFolders /\ CHDeletes

\* There are no checklists and no folders at first.
LEMMA CHStart == CH!Init => CHInv
<1> SUFFICES ASSUME CH!Init PROVE CHInv
    OBVIOUS
<1>1. CH!TypeOK
      BY MaxStartedAssumption DEF CH!Init, CH!HandlersInit, CH!TypeOK, CH!HandlersTypeOK
<1>2. \A r \in Requests : request[r] = CH!Idle /\ request[r].pc = "idle"
      BY DEF CH!Init, CH!HandlersInit, CH!Idle
<1>3. /\ \A k \in Parts : ~CH!Found(k)
      /\ \A i \in Rows : ~CH!Present(listed[i])
      /\ \A f \in Rows : ~CH!FolderFound(f)
      BY DEF CH!Init, CH!Found, CH!FolderFound, CH!Present
<1> QED BY <1>1, <1>2, <1>3 DEF CHInv, CHAlone, CHItems, CHCounts, CHFolders, CHDeletes, CH!At

\* A row that is there is not absent, and what it says.
LEMMA CHRows ==
    /\ \A x \in CH!ChecklistRow \cup CH!ItemRow \cup CH!FolderRow : CH!Present(x)
    /\ ~CH!Present(CH!Absent) /\ ~CH!Present(CH!Gone) /\ CH!Absent # CH!Gone
    /\ CH!TypeOK => \A k \in Parts : CH!Found(k) => checklist[k] \in CH!ChecklistRow
    /\ CH!TypeOK => \A i \in Rows : CH!Present(listed[i]) => listed[i] \in CH!ItemRow /\ listed[i].of \in Parts
    /\ CH!TypeOK => \A f \in Rows : CH!FolderFound(f) =>
           /\ folder[f] \in CH!FolderRow /\ folder[f].parent \in Rows \cup {None} /\ folder[f].path \in Seq(Contents)
BY DEF CH!ChecklistRow, CH!ItemRow, CH!FolderRow, CH!Absent, CH!Gone, CH!Present, CH!Found,
   CH!FolderFound, CH!TypeOK

\* A name more.
LEMMA CHOneMore ==
    ASSUME NEW s \in Seq(Contents), NEW m \in Contents
    PROVE  /\ Append(s, m) \in Seq(Contents) /\ <<m>> \in Seq(Contents)
           /\ Append(s, m) = Append(s, Append(s, m)[Len(Append(s, m))])
OBVIOUS

\* What a handler is about.
LEMMA CHOn ==
    CH!TypeOK => \A r \in Requests :
        /\ request[r].pc \in {"deleteChecklist", "insertItem", "readItems", "findItem", "updateItem", "deleteItem",
                              "writeProgress"} => request[r].on \in Parts
        /\ request[r].pc \in {"findItem", "updateItem", "deleteItem"} =>
               request[r].i \in Rows /\ request[r].status \in CH!ItemStatuses
        /\ CH!At(r, "findItem") => request[r].op \in {"updateItem", "deleteItem"}
        /\ CH!At(r, "writeProgress") => request[r].row \in CH!ChecklistRow
        /\ request[r].pc \in {"insertFolder", "updateFolder", "deleteFolder"} => request[r].on \in Rows
        /\ CH!At(r, "insertFolder") => request[r].row \in CH!FolderRow
        /\ CH!At(r, "updateFolder") => request[r].name \in Contents
<1> SUFFICES ASSUME CH!TypeOK, NEW r \in Requests
             PROVE
        /\ request[r].pc \in {"deleteChecklist", "insertItem", "readItems", "findItem", "updateItem", "deleteItem",
                              "writeProgress"} => request[r].on \in Parts
        /\ request[r].pc \in {"findItem", "updateItem", "deleteItem"} =>
               request[r].i \in Rows /\ request[r].status \in CH!ItemStatuses
        /\ CH!At(r, "findItem") => request[r].op \in {"updateItem", "deleteItem"}
        /\ CH!At(r, "writeProgress") => request[r].row \in CH!ChecklistRow
        /\ request[r].pc \in {"insertFolder", "updateFolder", "deleteFolder"} => request[r].on \in Rows
        /\ CH!At(r, "insertFolder") => request[r].row \in CH!FolderRow
        /\ CH!At(r, "updateFolder") => request[r].name \in Contents
    OBVIOUS
<1>1. request[r] \in CH!Running \cup {CH!Idle}
      BY DEF CH!TypeOK, CH!HandlersTypeOK
<1> QED BY <1>1 DEF CH!Running, CH!Idle, CH!At

\* The progress of items.
LEMMA CHProgress ==
    ASSUME NEW S \in SUBSET Rows
    PROVE  /\ CH!Progress(S) \in CH!ChecklistRow
           /\ S = {} => CH!Progress(S) = [status |-> "PENDING", totalItems |-> 0, completedItems |-> 0]
<1> DEFINE done == {i \in S : listed[i].status \in CH!DoneStatuses}
<1>1. IsFiniteSet(S) /\ IsFiniteSet(done) /\ CH!Cardinality(S) <= CH!Cardinality(Rows) /\ CH!Cardinality(done) <= CH!Cardinality(Rows)
      BY FiniteAssumption, CHCardinality, FS_Subset
<1>2. CH!Cardinality(S) \in Nat /\ CH!Cardinality(done) \in Nat /\ CH!Cardinality(Rows) \in Nat
      BY <1>1, FiniteAssumption, CHCardinality, FS_CardinalityType
<1>3. S = {} => done = {} /\ CH!Cardinality(done) = 0 /\ CH!Cardinality(S) = 0
      BY CHCardinality, FS_EmptySet
<1>4. PICK t, n : t = CH!Cardinality(S) /\ n = CH!Cardinality(done)
      OBVIOUS
<1>5. PICK s : s = CASE t > 0 /\ n = t -> "COMPLETE" [] n > 0 /\ n < t -> "IN_PROGRESS" [] OTHER -> "PENDING"
      OBVIOUS
<1>6. CH!Progress(S) = [totalItems |-> t, completedItems |-> n, status |-> s]
      BY <1>4, <1>5 DEF CH!Progress
<1>7. t \in CH!Counts /\ n \in CH!Counts /\ s \in CH!ChecklistStatuses
      BY <1>1, <1>2, <1>4, <1>5 DEF CH!Counts, CH!ChecklistStatuses
<1>8. S = {} => t = 0 /\ n = 0 /\ s = "PENDING"
      BY <1>3, <1>4, <1>5
<1> QED BY <1>6, <1>7, <1>8 DEF CH!ChecklistRow

\* The progress looks at nothing but which items there are and their status.
LEMMA CHProgressSame ==
    ASSUME NEW S, \A i \in S : listed'[i] = listed[i]
    PROVE  CH!Progress(S)' = CH!Progress(S)
<1>1. {i \in S : listed'[i].status \in CH!DoneStatuses} = {i \in S : listed[i].status \in CH!DoneStatuses}
      OBVIOUS
<1> QED BY <1>1 DEF CH!Progress

\* The items of a checklist whose items stay.
LEMMA CHItemsSame ==
    ASSUME NEW k, \A i \in Rows : (CH!Present(listed'[i]) /\ listed'[i].of = k) \/ (CH!Present(listed[i]) /\ listed[i].of = k) =>
                                      listed'[i] = listed[i]
    PROVE  CH!ItemsOf(k)' = CH!ItemsOf(k) /\ CH!Progress(CH!ItemsOf(k))' = CH!Progress(CH!ItemsOf(k))
<1>1. CH!ItemsOf(k)' = CH!ItemsOf(k)
      BY DEF CH!ItemsOf
<1>2. \A i \in CH!ItemsOf(k) : listed'[i] = listed[i]
      BY DEF CH!ItemsOf
<1>3. PICK S : S = CH!ItemsOf(k)
      OBVIOUS
<1>4. CH!Progress(S)' = CH!Progress(S)
      BY <1>2, <1>3, CHProgressSame
<1>5. CH!Progress(CH!ItemsOf(k))' = CH!Progress(S)'
      BY <1>1, <1>3 DEF CH!Progress
<1> QED BY <1>1, <1>3, <1>4, <1>5

\* A handler goes on or is over.
CHStays(r) ==
    /\ UNCHANGED <<started, raced>>
    /\ \A q \in Requests \ {r} : request'[q] = request[q]
    /\ request'[r] # CH!Idle => request[r] # CH!Idle /\ request'[r].on = request[r].on
    /\ request' \in [Requests -> CH!Running \cup {CH!Idle}]
    /\ request'[r].pc \in {"idle", "readItems", "updateItem", "deleteItem", "writeProgress"}

\* A handler that goes on keeps its operation and leaves the others alone.
LEMMA CHGo ==
    ASSUME CH!TypeOK, NEW r \in Requests, request[r] # CH!Idle, NEW h \in CH!Running, h.on = request[r].on, CH!Goto(r, h),
           h.pc \in {"readItems", "updateItem", "deleteItem", "writeProgress"}
    PROVE  CHStays(r) /\ request'[r] = h
BY DEF CH!TypeOK, CH!HandlersTypeOK, CH!Goto, CHStays

\* So does one that ends.
LEMMA CHEnd ==
    ASSUME CH!TypeOK, NEW r \in Requests, request[r] # CH!Idle, CH!Finish(r)
    PROVE  CHStays(r) /\ request'[r] = CH!Idle
<1>1. CH!Idle.pc = "idle"
      BY DEF CH!Idle
<1>2. request'[r] = CH!Idle
      BY DEF CH!TypeOK, CH!HandlersTypeOK, CH!Finish, CH!Goto
<1> QED BY <1>1, <1>2 DEF CH!TypeOK, CH!HandlersTypeOK, CH!Finish, CH!Goto, CHStays

\* How a handler goes on.
LEMMA CHWays ==
    ASSUME CH!TypeOK, NEW r \in Requests
    PROVE  /\ \/ CH!DeleteChecklist(r) \/ CH!WriteProgress(r) \/ CH!InsertFolder(r) \/ CH!UpdateFolder(r)
              \/ CH!DeleteFolder(r) \/ CH!Abort(r)
              => CHStays(r) /\ request[r] # CH!Idle /\ request'[r] = CH!Idle
           /\ \A i \in Rows : CH!InsertItem(r, i) =>
                  /\ CHStays(r) /\ request[r] # CH!Idle
                  /\ IF CH!Found(request[r].on) THEN request'[r] = [pc |-> "readItems", on |-> request[r].on]
                     ELSE request'[r] = CH!Idle
           /\ CH!FindItem(r) =>
                  /\ CHStays(r) /\ request[r] # CH!Idle
                  /\ IF request[r].i \in CH!ItemsOf(request[r].on)
                     THEN request'[r] = [pc |-> request[r].op, on |-> request[r].on, i |-> request[r].i,
                                         status |-> request[r].status]
                     ELSE request'[r] = CH!Idle
           /\ CH!UpdateItem(r) \/ CH!DeleteItem(r) =>
                  /\ CHStays(r) /\ request[r] # CH!Idle
                  /\ request'[r] = [pc |-> "readItems", on |-> request[r].on]
           /\ CH!ReadItems(r) =>
                  /\ CHStays(r) /\ request[r] # CH!Idle
                  /\ request'[r] = [pc |-> "writeProgress", on |-> request[r].on, row |-> CH!Progress(CH!ItemsOf(request[r].on))]
<1>1. \A pc : pc # "idle" /\ CH!At(r, pc) => request[r] # CH!Idle
      BY DEF CH!At, CH!Idle
<1>2. \/ CH!DeleteChecklist(r) \/ CH!WriteProgress(r) \/ CH!InsertFolder(r) \/ CH!UpdateFolder(r)
      \/ CH!DeleteFolder(r) \/ CH!Abort(r)
      => CHStays(r) /\ request[r] # CH!Idle /\ request'[r] = CH!Idle
      BY <1>1, CHEnd DEF CH!DeleteChecklist, CH!WriteProgress, CH!InsertFolder, CH!UpdateFolder,
         CH!DeleteFolder, CH!Abort, CH!Stop
<1>3. \A k \in Parts : [pc |-> "readItems", on |-> k] \in CH!Running
      BY DEF CH!Running
<1>4. ASSUME NEW i \in Rows, CH!InsertItem(r, i)
      PROVE  /\ CHStays(r) /\ request[r] # CH!Idle
             /\ IF CH!Found(request[r].on) THEN request'[r] = [pc |-> "readItems", on |-> request[r].on]
                ELSE request'[r] = CH!Idle
  <2>1. CH!At(r, "insertItem") /\ request[r] # CH!Idle /\ request[r].on \in Parts
        BY <1>1, <1>4, CHOn DEF CH!InsertItem, CH!At
  <2>2. CASE CH!Found(request[r].on)
        BY <1>3, <1>4, <2>1, <2>2, CHGo DEF CH!InsertItem
  <2>3. CASE ~CH!Found(request[r].on)
        BY <1>4, <2>1, <2>3, CHEnd DEF CH!InsertItem
  <2> QED BY <2>1, <2>2, <2>3
<1>5. ASSUME CH!FindItem(r)
      PROVE  /\ CHStays(r) /\ request[r] # CH!Idle
             /\ IF request[r].i \in CH!ItemsOf(request[r].on)
                THEN request'[r] = [pc |-> request[r].op, on |-> request[r].on, i |-> request[r].i,
                                    status |-> request[r].status]
                ELSE request'[r] = CH!Idle
  <2>1. CH!At(r, "findItem") /\ request[r] # CH!Idle /\ request[r].on \in Parts /\ request[r].i \in Rows
               /\ request[r].op \in {"updateItem", "deleteItem"} /\ request[r].status \in CH!ItemStatuses
        BY <1>1, <1>5, CHOn DEF CH!FindItem, CH!At
  <2>2. CASE request[r].i \in CH!ItemsOf(request[r].on)
    <3>1. [pc |-> request[r].op, on |-> request[r].on, i |-> request[r].i, status |-> request[r].status] \in CH!Running
          BY <2>1 DEF CH!Running
    <3> QED BY <1>5, <2>1, <2>2, <3>1, CHGo DEF CH!FindItem
  <2>3. CASE request[r].i \notin CH!ItemsOf(request[r].on)
        BY <1>5, <2>1, <2>3, CHEnd DEF CH!FindItem
  <2> QED BY <2>1, <2>2, <2>3
<1>6. CH!UpdateItem(r) \/ CH!DeleteItem(r) =>
          /\ CHStays(r) /\ request[r] # CH!Idle
          /\ request'[r] = [pc |-> "readItems", on |-> request[r].on]
  <2>1. CH!UpdateItem(r) \/ CH!DeleteItem(r) => request[r] # CH!Idle /\ request[r].on \in Parts
        BY <1>1, CHOn DEF CH!UpdateItem, CH!DeleteItem, CH!At
  <2> QED BY <1>3, <2>1, CHGo DEF CH!UpdateItem, CH!DeleteItem
<1>7. ASSUME CH!ReadItems(r)
      PROVE  /\ CHStays(r) /\ request[r] # CH!Idle
             /\ request'[r] = [pc |-> "writeProgress", on |-> request[r].on, row |-> CH!Progress(CH!ItemsOf(request[r].on))]
  <2>1. request[r] # CH!Idle /\ request[r].on \in Parts
        BY <1>1, <1>7, CHOn DEF CH!ReadItems, CH!At
  <2>2. CH!Progress(CH!ItemsOf(request[r].on)) \in CH!ChecklistRow
        BY CHProgress DEF CH!ItemsOf
  <2>3. [pc |-> "writeProgress", on |-> request[r].on, row |-> CH!Progress(CH!ItemsOf(request[r].on))] \in CH!Running
        BY <2>1, <2>2 DEF CH!Running
  <2> QED BY <1>7, <2>1, <2>3, CHGo DEF CH!ReadItems
<1> QED BY <1>2, <1>4, <1>5, <1>6, <1>7

\* A handler begins.
CHBegins(r, h) ==
    /\ request[r] = CH!Idle /\ request'[r] = h
    /\ \A q \in Requests \ {r} : request'[q] = request[q]
    /\ raced \subseteq raced'
    /\ (\E q \in Requests : request[q] # CH!Idle /\ request[q].on = h.on) => h.on \in raced'
    /\ UNCHANGED <<checklist, listed, folder, uncounted>>

\* A handler begins and meets those on the same operation.
LEMMA CHBegin ==
    ASSUME CH!TypeOK, NEW r \in Requests, NEW h, CH!Start(r, h), UNCHANGED CH!management
    PROVE  CHBegins(r, h)
BY MaxStartedAssumption DEF CH!TypeOK, CH!HandlersTypeOK, CH!Start, CH!Handled, CH!management,
   CHBegins

\* However a handler goes on or begins, two of one checklist are remembered.
LEMMA CHStayAlone ==
    ASSUME CHInv, NEW r \in Requests, CHStays(r)
    PROVE  CHAlone'
BY DEF CHInv, CHAlone, CHStays

\* A begun handler is alone on its operation, or the operation is remembered.
LEMMA CHBeginAlone ==
    ASSUME CHInv, NEW r \in Requests, NEW h, CHBegins(r, h)
    PROVE  CHAlone'
BY DEF CHInv, CHAlone, CHBegins

\* What a step that leaves the checklists and their items keeps.
LEMMA CHChecklistsKept ==
    ASSUME CHInv, UNCHANGED <<checklist, listed>>, uncounted \subseteq uncounted', raced \subseteq raced',
           \A q \in Requests :
               /\ request'[q].pc \in {"updateItem", "deleteItem", "writeProgress"} => request'[q] = request[q]
               /\ CHRecalculating(q) => (CHRecalculating(q)' /\ request'[q].on = request[q].on) \/ request[q].on \in uncounted'
    PROVE  CHItems' /\ CHCounts'
<1>1. CHItems'
      BY DEF CHInv, CHItems, CH!Found
<1>2. \A k : CH!ItemsOf(k)' = CH!ItemsOf(k) /\ CH!Progress(CH!ItemsOf(k))' = CH!Progress(CH!ItemsOf(k))
      BY CHItemsSame
<1>3. CHCounts'
  <2> SUFFICES ASSUME NEW k \in Parts \ (raced' \cup uncounted')
               PROVE  /\ CH!Found(k)' /\ ~(\E q \in Requests : CHRecalculating(q)' /\ request'[q].on = k) =>
                             checklist'[k] = CH!Progress(CH!ItemsOf(k))'
                      /\ \A q \in Requests : CH!At(q, "writeProgress")' /\ request'[q].on = k =>
                             request'[q].row = CH!Progress(CH!ItemsOf(k))'
      BY DEF CHCounts
  <2>0. k \in Parts \ (raced \cup uncounted)
        OBVIOUS
  <2>4. /\ CH!Found(k) /\ ~(\E q \in Requests : CHRecalculating(q) /\ request[q].on = k) => checklist[k] = CH!Progress(CH!ItemsOf(k))
        /\ \A q \in Requests : CH!At(q, "writeProgress") /\ request[q].on = k => request[q].row = CH!Progress(CH!ItemsOf(k))
        BY <2>0 DEF CHInv, CHCounts
  <2>1. k \in Parts \ (raced \cup uncounted) /\ CH!Progress(CH!ItemsOf(k))' = CH!Progress(CH!ItemsOf(k)) /\ checklist'[k] = checklist[k]
            /\ (CH!Found(k)' <=> CH!Found(k))
        BY <1>2 DEF CH!Found
  <2>2. \A q \in Requests : CHRecalculating(q) /\ request[q].on = k => CHRecalculating(q)' /\ request'[q].on = k
        OBVIOUS
  <2>3. \A q \in Requests : CH!At(q, "writeProgress")' => request'[q] = request[q] /\ CH!At(q, "writeProgress")
        BY DEF CH!At
  <2>5. CH!Found(k)' /\ ~(\E q \in Requests : CHRecalculating(q)' /\ request'[q].on = k) => checklist'[k] = CH!Progress(CH!ItemsOf(k))'
        BY <2>1, <2>2, <2>4
  <2>6. \A q \in Requests : CH!At(q, "writeProgress")' /\ request'[q].on = k => request'[q].row = CH!Progress(CH!ItemsOf(k))'
        BY <2>1, <2>3, <2>4
  <2> QED BY <2>5, <2>6
<1> QED BY <1>1, <1>3

\* What a step that leaves the folders keeps.
LEMMA CHFoldersKept ==
    ASSUME CHInv, UNCHANGED folder, \A q \in Requests : CH!At(q, "insertFolder")' => request'[q] = request[q]
    PROVE  CHFolders'
<1>1. \A f \in Rows : CH!FolderFound(f)' => CH!FolderFound(f) /\ CHBelow(folder[f])' /\ folder'[f].parent # f
      BY DEF CHInv, CHFolders, CHBelow, CH!FolderFound
<1>2. \A r \in Requests : CH!At(r, "insertFolder")' => CH!At(r, "insertFolder") /\ request'[r] = request[r]
      BY DEF CH!At
<1>3. \A r \in Requests : CH!At(r, "insertFolder") => CHBelow(request[r].row) /\ folder[request[r].on] = CH!Absent
      BY DEF CHInv, CHFolders
<1>4. \A r \in Requests : CH!At(r, "insertFolder")' => CHBelow(request[r].row)' /\ folder'[request'[r].on] = CH!Absent
      BY <1>2, <1>3 DEF CHBelow, CH!FolderFound
<1>5. \A r, q \in Requests : CH!At(r, "insertFolder")' /\ CH!At(q, "insertFolder")' /\ request'[q].on = request'[r].on => q = r
      BY <1>2 DEF CHInv, CHFolders
<1> QED BY <1>1, <1>4, <1>5 DEF CHFolders

\* A handler that begins touches nothing.
LEMMA CHBeginKept ==
    ASSUME CHInv, NEW r \in Requests, NEW h, CHBegins(r, h),
           h.pc \notin {"updateItem", "deleteItem", "writeProgress", "readItems", "idle"}
    PROVE  /\ CHItems' /\ CHCounts' /\ (h.pc # "insertFolder" => CHFolders')
           /\ (h.pc = "deleteFolder" => folder[h.on] # CH!Absent) => CHDeletes'
<1>1. request[r].pc = "idle" /\ request'[r] = h /\ (\A q \in Requests \ {r} : request'[q] = request[q])
          /\ UNCHANGED <<checklist, listed, folder, uncounted>> /\ raced \subseteq raced'
      BY DEF CHBegins, CH!Idle
<1>2. \A q \in Requests :
          /\ request'[q].pc \in {"updateItem", "deleteItem", "writeProgress"} => request'[q] = request[q]
          /\ CHRecalculating(q) => (CHRecalculating(q)' /\ request'[q].on = request[q].on) \/ request[q].on \in uncounted'
      BY <1>1 DEF CHRecalculating
<1>3. CHItems' /\ CHCounts'
      BY <1>1, <1>2, CHChecklistsKept
<1>4. h.pc # "insertFolder" => CHFolders'
      BY <1>1, CHFoldersKept DEF CH!At
<1>5. (h.pc = "deleteFolder" => folder[h.on] # CH!Absent) => CHDeletes'
      BY <1>1 DEF CHInv, CHDeletes, CH!At
<1> QED BY <1>3, <1>4, <1>5

\* A handler that goes on and leaves the checklists, or the folders.
LEMMA CHStayKept ==
    ASSUME CHInv, NEW r \in Requests, CHStays(r)
    PROVE  /\ /\ UNCHANGED <<checklist, listed>> /\ uncounted \subseteq uncounted'
              /\ CHRecalculating(r) => request[r].on \in uncounted'
              /\ request'[r].pc \notin {"updateItem", "deleteItem", "writeProgress"}
              => CHItems' /\ CHCounts'
           /\ UNCHANGED folder => CHFolders'
           /\ (\A f \in Rows : folder[f] # CH!Absent => folder'[f] # CH!Absent) => CHDeletes'
<1>1. \A q \in Requests \ {r} : request'[q] = request[q]
      BY DEF CHStays
<1>2. ASSUME UNCHANGED <<checklist, listed>>, uncounted \subseteq uncounted', CHRecalculating(r) => request[r].on \in uncounted',
             request'[r].pc \notin {"updateItem", "deleteItem", "writeProgress"}
      PROVE  CHItems' /\ CHCounts'
  <2>1. \A q \in Requests :
            /\ request'[q].pc \in {"updateItem", "deleteItem", "writeProgress"} => request'[q] = request[q]
            /\ CHRecalculating(q) => (CHRecalculating(q)' /\ request'[q].on = request[q].on) \/ request[q].on \in uncounted'
        BY <1>1, <1>2 DEF CHRecalculating
  <2> QED BY <1>2, <2>1, CHChecklistsKept DEF CHStays
<1>3. UNCHANGED folder => CHFolders'
      BY <1>1, CHFoldersKept DEF CHStays, CH!At
<1>4. (\A f \in Rows : folder[f] # CH!Absent => folder'[f] # CH!Absent) => CHDeletes'
  <2>1. \A q \in Requests : CH!At(q, "deleteFolder")' => request'[q] = request[q] /\ CH!At(q, "deleteFolder") /\ request[q].on \in Rows
        BY <1>1, CHOn DEF CHStays, CH!At, CHInv
  <2> QED BY <2>1 DEF CHInv, CHDeletes
<1> QED BY <1>2, <1>3, <1>4

\* What a step must do to the items to keep them in their checklists.
LEMMA CHItemsKept ==
    ASSUME CHInv, NEW r \in Requests, CHStays(r),
           \A j \in Rows :
               /\ CH!Present(listed'[j]) => CH!Found(listed[j].of)'
               /\ listed[j] # CH!Absent => listed'[j] # CH!Absent
               /\ CH!Present(listed'[j]) /\ listed[j] # CH!Absent => CH!Present(listed[j]) /\ listed'[j].of = listed[j].of,
           request'[r].pc \in {"updateItem", "deleteItem"} =>
               /\ listed'[request'[r].i] # CH!Absent
               /\ CH!Present(listed'[request'[r].i]) => listed'[request'[r].i].of = request'[r].on
    PROVE  CHItems'
<1>1. \A q \in Requests \ {r} : request'[q] = request[q]
      BY DEF CHStays
<1>2. ASSUME NEW q \in Requests \ {r}, request'[q].pc \in {"updateItem", "deleteItem"}
      PROVE  /\ listed'[request'[q].i] # CH!Absent
             /\ CH!Present(listed'[request'[q].i]) => listed'[request'[q].i].of = request'[q].on
  <2>1. request[q].pc \in {"updateItem", "deleteItem"} /\ request[q].i \in Rows
        BY <1>1, <1>2, CHOn DEF CHInv
  <2>2. listed[request[q].i] # CH!Absent /\ (CH!Present(listed[request[q].i]) => listed[request[q].i].of = request[q].on)
        BY <2>1 DEF CHInv, CHItems
  <2> QED BY <1>1, <2>1, <2>2
<1> QED BY <1>2 DEF CHItems

\* A step of one handler that changes items of its checklist, or the checklist,
\* keeps the counts of the others.
LEMMA CHOthers ==
    ASSUME CHInv, NEW r \in Requests, NEW k, k = request[r].on, CHStays(r), UNCHANGED uncounted, request[r] # CH!Idle,
           \A i \in Rows : listed'[i] # listed[i] => (CH!Present(listed'[i]) => listed'[i].of = k) /\ (CH!Present(listed[i]) => listed[i].of = k),
           \A e \in Parts \ {k} : checklist'[e] = checklist[e],
           k \in Parts \ (raced \cup uncounted) =>
               /\ CH!Found(k)' /\ ~CHRecalculating(r)' => checklist'[k] = CH!Progress(CH!ItemsOf(k))'
               /\ CH!At(r, "writeProgress")' => request'[r].row = CH!Progress(CH!ItemsOf(k))'
    PROVE  CHCounts'
<1> SUFFICES ASSUME NEW e \in Parts \ (raced \cup uncounted)
             PROVE  /\ CH!Found(e)' /\ ~(\E q \in Requests : CHRecalculating(q)' /\ request'[q].on = e) =>
                           checklist'[e] = CH!Progress(CH!ItemsOf(e))'
                    /\ \A q \in Requests : CH!At(q, "writeProgress")' /\ request'[q].on = e =>
                           request'[q].row = CH!Progress(CH!ItemsOf(e))'
    BY DEF CHCounts, CHStays
<1>1. CASE e = k
  <2>1. \A q \in Requests \ {r} : request'[q] = request[q] /\ (request[q] # CH!Idle => request[q].on # k)
        BY <1>1 DEF CHInv, CHAlone, CHStays
  <2>2. \A q \in Requests : (CHRecalculating(q) => request[q] # CH!Idle) /\ (CH!At(q, "writeProgress") => request[q] # CH!Idle)
        BY DEF CHRecalculating, CH!At, CH!Idle
  <2>3. \A q \in Requests \ {r} : CH!At(q, "writeProgress")' => request'[q].on # k
        BY <2>1, <2>2 DEF CH!At
  <2>4. CHRecalculating(r)' => request'[r].on = k
        BY DEF CHStays, CHRecalculating, CH!Idle
  <2> QED BY <1>1, <2>3, <2>4
<1>2. CASE e # k
  <2>1. CH!ItemsOf(e)' = CH!ItemsOf(e) /\ CH!Progress(CH!ItemsOf(e))' = CH!Progress(CH!ItemsOf(e)) /\ checklist'[e] = checklist[e]
        BY <1>2, CHItemsSame
  <2>2. \A q \in Requests \ {r} : request'[q] = request[q]
        BY DEF CHStays
  <2>3. CHRecalculating(r)' \/ CH!At(r, "writeProgress")' => request'[r].on = k
        BY DEF CHStays, CHRecalculating, CH!At, CH!Idle
  <2>4. \A q \in Requests : (CHRecalculating(q)' /\ request'[q].on = e) <=> (CHRecalculating(q) /\ request[q].on = e)
        BY <1>2, <2>2, <2>3 DEF CHRecalculating
  <2> QED BY <1>2, <2>1, <2>2, <2>3, <2>4 DEF CHInv, CHCounts, CH!Found, CH!At
<1> QED BY <1>1, <1>2

\* A path is that of the parent and a name more.
LEMMA CHPath ==
    ASSUME CHInv, NEW p \in Rows \cup {None}, NEW m \in Contents, p # None => CH!FolderFound(p)
    PROVE  CHBelow([parent |-> p, name |-> m, path |-> CH!PathUnder(p, m)])
<1>1. CASE p = None
      BY <1>1 DEF CHBelow
<1>2. CASE p # None
  <2>1. folder[p].path \in Seq(Contents) /\ folder[p] # CH!Absent
        BY <1>2, CHRows DEF CHInv, CH!FolderFound
  <2>2. CH!PathUnder(p, m) = Append(folder[p].path, m)
        BY <1>2 DEF CH!PathUnder
  <2>3. CH!PathUnder(p, m) = Append(folder[p].path, CH!PathUnder(p, m)[Len(CH!PathUnder(p, m))])
        BY <2>1, <2>2, CHOneMore
  <2> QED BY <2>1, <2>3 DEF CHBelow
<1> QED BY <1>1, <1>2

\* A folder is inserted, renamed or deleted: what the others are below stays.
LEMMA CHFoldersMove ==
    ASSUME CHInv, NEW f \in Rows, NEW row, folder' = [folder EXCEPT ![f] = row], row # CH!Absent,
           CH!Present(row) => CHBelow(row) /\ row.parent \in Rows \cup {None} /\ row.parent # f /\ (CH!FolderFound(f) => row.path = folder[f].path)
                                  /\ (~CH!FolderFound(f) => folder[f] = CH!Absent),
           \A q \in Requests : CH!At(q, "insertFolder")' => request'[q] = request[q] /\ request[q].on # f
    PROVE  CHFolders'
<1>1. folder'[f] = row /\ \A g \in Rows \ {f} : folder'[g] = folder[g]
      BY DEF CHInv, CH!TypeOK
<1>2. \A g \in Rows : folder[g] # CH!Absent => folder'[g] # CH!Absent
      BY <1>1
<1>3. ASSUME NEW row2, CHBelow(row2), row2.parent \in Rows \cup {None}
      PROVE  CHBelow(row2)'
  <2>1. CASE row2.parent = None
        BY <2>1 DEF CHBelow
  <2>2. CASE row2.parent \in Rows \ {f} /\ row2.parent # None
        BY <1>1, <1>3, <2>2 DEF CHBelow, CH!FolderFound
  <2>3. CASE row2.parent = f /\ row2.parent # None
        BY <1>1, <1>2, <1>3, <2>3 DEF CHBelow, CH!FolderFound
  <2> QED BY <1>3, <2>1, <2>2, <2>3
<1>4. ASSUME NEW g \in Rows, CH!FolderFound(g)'
      PROVE  CHBelow(folder[g])' /\ folder'[g].parent # g
  <2>1. PICK row2 : row2 = folder'[g]
        OBVIOUS
  <2>2. CHBelow(row2) /\ row2.parent \in Rows \cup {None} /\ row2.parent # g
    <3>1. CASE g = f
          BY <1>1, <1>4, <2>1, <3>1 DEF CH!FolderFound
    <3>2. CASE g # f
          BY <1>1, <1>4, <2>1, <3>2, CHRows DEF CH!FolderFound, CHInv, CHFolders
    <3> QED BY <3>1, <3>2
  <2>3. CHBelow(row2)'
        BY <1>3, <2>2
  <2> QED BY <2>1, <2>2, <2>3 DEF CHBelow
<1>5. ASSUME NEW q \in Requests, CH!At(q, "insertFolder")'
      PROVE  /\ folder'[request'[q].on] = CH!Absent /\ CHBelow(request[q].row)'
             /\ \A p \in Requests : CH!At(p, "insertFolder")' /\ request'[p].on = request'[q].on => p = q
  <2>1. \A p \in Requests : CH!At(p, "insertFolder")' => CH!At(p, "insertFolder") /\ request'[p] = request[p] /\ request[p].on # f
        BY DEF CH!At
  <2>2. request[q].on \in Rows /\ request[q].row \in CH!FolderRow
        BY <1>5, <2>1, CHOn DEF CHInv, CH!At
  <2>3. PICK row2 : row2 = request[q].row
        OBVIOUS
  <2>4. CHBelow(row2) /\ row2.parent \in Rows \cup {None}
        BY <1>5, <2>1, <2>2, <2>3 DEF CHInv, CHFolders, CH!FolderRow
  <2>5. CHBelow(row2)'
        BY <1>3, <2>4
  <2>6. CHBelow(request[q].row)'
        BY <1>5, <2>1, <2>3, <2>5 DEF CHBelow
  <2> QED BY <1>1, <1>5, <2>1, <2>2, <2>6 DEF CHInv, CHFolders
<1> QED BY <1>4, <1>5 DEF CHFolders

\* Every step keeps the types.
LEMMA CHTypeStep ==
    ASSUME CHInv, [CH!Next]_CH!vars
    PROVE  CH!TypeOK'
<1> USE MaxStartedAssumption DEF CH!TypeOK, CH!HandlersTypeOK, CH!ChecklistRow, CH!ItemRow,
        CH!FolderRow, CH!Running, CH!ChecklistStatuses, CH!ItemStatuses,
            CH!management, CH!Found, CH!FolderFound, CH!Present, CH!At, CH!Start, CH!Once,
            CH!Goto, CH!Finish, CH!Absent, CH!Gone, CH!Idle,
            CHInv
<1>1. ASSUME NEW r \in Requests, NEW k \in Parts, CH!CreateChecklist(r, k)
      PROVE  CH!TypeOK'
  <2> HIDE DEF CH!TypeOK, CH!HandlersTypeOK, CH!ChecklistRow, CH!ItemRow, CH!FolderRow,
           CH!Running, CH!ChecklistStatuses, CH!ItemStatuses,
               CH!management, CH!Found, CH!FolderFound, CH!Present, CH!At, CH!Start, CH!Once,
               CH!Goto, CH!Finish, CH!Absent, CH!Gone, CH!Idle
  <2>1. [status |-> "PENDING", totalItems |-> 0, completedItems |-> 0] \in CH!ChecklistRow
        BY CHProgress
  <2> QED BY <1>1, <2>1, MaxStartedAssumption DEF CH!CreateChecklist, CH!Once, CH!TypeOK,
             CH!HandlersTypeOK, CHInv
<1>2. ASSUME NEW r \in Requests, NEW k \in Parts, CH!BeginDeleteChecklist(r, k)
      PROVE  CH!TypeOK'
  <2> HIDE DEF CH!TypeOK, CH!HandlersTypeOK, CH!ChecklistRow, CH!ItemRow, CH!FolderRow,
           CH!Running, CH!ChecklistStatuses, CH!ItemStatuses,
               CH!management, CH!Found, CH!FolderFound, CH!Present, CH!At, CH!Start, CH!Once,
               CH!Goto, CH!Finish, CH!Absent, CH!Gone, CH!Idle
  <2>1. [pc |-> "deleteChecklist", on |-> k] \in CH!Running
        BY DEF CH!Running, CH!ItemStatuses
  <2> QED BY <1>2, <2>1, MaxStartedAssumption DEF CH!BeginDeleteChecklist, CH!Start,
             CH!management, CH!TypeOK, CH!HandlersTypeOK, CHInv
<1>3. ASSUME NEW r \in Requests, NEW k \in Parts, CH!BeginAddItem(r, k)
      PROVE  CH!TypeOK'
  <2> HIDE DEF CH!TypeOK, CH!HandlersTypeOK, CH!ChecklistRow, CH!ItemRow, CH!FolderRow,
           CH!Running, CH!ChecklistStatuses, CH!ItemStatuses,
               CH!management, CH!Found, CH!FolderFound, CH!Present, CH!At, CH!Start, CH!Once,
               CH!Goto, CH!Finish, CH!Absent, CH!Gone, CH!Idle
  <2>1. [pc |-> "insertItem", on |-> k] \in CH!Running
        BY DEF CH!Running, CH!ItemStatuses
  <2> QED BY <1>3, <2>1, MaxStartedAssumption DEF CH!BeginAddItem, CH!Start, CH!management,
             CH!TypeOK, CH!HandlersTypeOK, CHInv
<1>4. ASSUME NEW r \in Requests, NEW k \in Parts, NEW i \in Rows, CH!BeginRemoveItem(r, k, i)
      PROVE  CH!TypeOK'
  <2> HIDE DEF CH!TypeOK, CH!HandlersTypeOK, CH!ChecklistRow, CH!ItemRow, CH!FolderRow,
           CH!Running, CH!ChecklistStatuses, CH!ItemStatuses,
               CH!management, CH!Found, CH!FolderFound, CH!Present, CH!At, CH!Start, CH!Once,
               CH!Goto, CH!Finish, CH!Absent, CH!Gone, CH!Idle
  <2>1. [pc |-> "findItem", op |-> "deleteItem", on |-> k, i |-> i, status |-> "REQUIRED"] \in CH!Running
        BY DEF CH!Running, CH!ItemStatuses
  <2> QED BY <1>4, <2>1, MaxStartedAssumption DEF CH!BeginRemoveItem, CH!Start, CH!management,
             CH!TypeOK, CH!HandlersTypeOK, CHInv
<1>5. ASSUME NEW r \in Requests, NEW k \in Parts, NEW i \in Rows, NEW s \in CH!ItemStatuses,
             CH!BeginUpdateItem(r, k, i, s)
      PROVE  CH!TypeOK'
  <2> HIDE DEF CH!TypeOK, CH!HandlersTypeOK, CH!ChecklistRow, CH!ItemRow, CH!FolderRow,
           CH!Running, CH!ChecklistStatuses, CH!ItemStatuses,
               CH!management, CH!Found, CH!FolderFound, CH!Present, CH!At, CH!Start, CH!Once,
               CH!Goto, CH!Finish, CH!Absent, CH!Gone, CH!Idle
  <2>1. [pc |-> "findItem", op |-> "updateItem", on |-> k, i |-> i, status |-> s] \in CH!Running
        BY DEF CH!Running, CH!ItemStatuses
  <2> QED BY <1>5, <2>1, MaxStartedAssumption DEF CH!BeginUpdateItem, CH!Start, CH!management,
             CH!TypeOK, CH!HandlersTypeOK, CHInv
<1>6. ASSUME NEW r \in Requests, NEW i \in Rows, CH!InsertItem(r, i)
      PROVE  CH!TypeOK'
  <2> HIDE DEF CH!TypeOK, CH!HandlersTypeOK, CH!ChecklistRow, CH!ItemRow, CH!FolderRow,
           CH!Running, CH!ChecklistStatuses, CH!ItemStatuses,
               CH!management, CH!Found, CH!FolderFound, CH!Present, CH!At, CH!Start, CH!Once,
               CH!Goto, CH!Finish, CH!Absent, CH!Gone, CH!Idle
  <2>1. CHStays(r)
        BY <1>6, CHWays DEF CHInv
  <2>2. request[r].on \in Parts
        BY <1>6, CHOn DEF CH!InsertItem, CH!At, CHInv
  <2>3. [of |-> request[r].on, status |-> "REQUIRED"] \in CH!ItemRow
        BY <2>2 DEF CH!ItemRow, CH!ItemStatuses
  <2> QED BY <1>6, <2>1, <2>3 DEF CH!InsertItem, CHStays, CH!management, CH!TypeOK,
             CH!HandlersTypeOK, CHInv
<1>7. ASSUME NEW r \in Requests, NEW f \in Rows, CH!BeginDeleteFolder(r, f)
      PROVE  CH!TypeOK'
  <2> HIDE DEF CH!TypeOK, CH!HandlersTypeOK, CH!ChecklistRow, CH!ItemRow, CH!FolderRow,
           CH!Running, CH!ChecklistStatuses, CH!ItemStatuses,
               CH!management, CH!Found, CH!FolderFound, CH!Present, CH!At, CH!Start, CH!Once,
               CH!Goto, CH!Finish, CH!Absent, CH!Gone, CH!Idle
  <2>1. [pc |-> "deleteFolder", on |-> f] \in CH!Running
        BY DEF CH!Running, CH!ItemStatuses
  <2> QED BY <1>7, <2>1, MaxStartedAssumption DEF CH!BeginDeleteFolder, CH!Start, CH!management,
             CH!TypeOK, CH!HandlersTypeOK, CHInv
<1>8. ASSUME NEW r \in Requests, NEW f \in Rows, NEW m \in Contents, CH!BeginUpdateFolder(r, f, m)
      PROVE  CH!TypeOK'
  <2> HIDE DEF CH!TypeOK, CH!HandlersTypeOK, CH!ChecklistRow, CH!ItemRow, CH!FolderRow,
           CH!Running, CH!ChecklistStatuses, CH!ItemStatuses,
               CH!management, CH!Found, CH!FolderFound, CH!Present, CH!At, CH!Start, CH!Once,
               CH!Goto, CH!Finish, CH!Absent, CH!Gone, CH!Idle
  <2>1. [pc |-> "updateFolder", on |-> f, name |-> m] \in CH!Running
        BY DEF CH!Running, CH!ItemStatuses
  <2> QED BY <1>8, <2>1, MaxStartedAssumption DEF CH!BeginUpdateFolder, CH!Start, CH!management,
             CH!TypeOK, CH!HandlersTypeOK, CHInv
<1>9. ASSUME NEW r \in Requests, NEW f \in Rows, NEW p \in Rows \cup {None},
             NEW m \in Contents, CH!BeginCreateFolder(r, f, p, m)
      PROVE  CH!TypeOK'
  <2> HIDE DEF CH!TypeOK, CH!HandlersTypeOK, CH!ChecklistRow, CH!ItemRow, CH!FolderRow,
           CH!Running, CH!ChecklistStatuses, CH!ItemStatuses,
               CH!management, CH!Found, CH!FolderFound, CH!Present, CH!At, CH!Start, CH!Once,
               CH!Goto, CH!Finish, CH!Absent, CH!Gone, CH!Idle
  <2>5. CH!PathUnder(p, m) \in Seq(Contents)
        BY <1>9, CHRows, CHOneMore DEF CH!BeginCreateFolder, CHInv, CH!PathUnder
  <2>6. [parent |-> p, name |-> m, path |-> CH!PathUnder(p, m)] \in CH!FolderRow
        BY <2>5 DEF CH!FolderRow
  <2>1. [pc |-> "insertFolder", on |-> f, row |-> [parent |-> p, name |-> m, path |-> CH!PathUnder(p, m)]] \in CH!Running
        BY <2>6 DEF CH!Running
  <2> QED BY <1>9, <2>1, MaxStartedAssumption DEF CH!BeginCreateFolder, CH!Start, CH!management,
             CH!TypeOK, CH!HandlersTypeOK, CHInv
<1>10. ASSUME NEW r \in Requests, CH!DeleteChecklist(r)
      PROVE  CH!TypeOK'
  <2> HIDE DEF CH!TypeOK, CH!HandlersTypeOK, CH!ChecklistRow, CH!ItemRow, CH!FolderRow,
           CH!Running, CH!ChecklistStatuses, CH!ItemStatuses,
               CH!management, CH!Found, CH!FolderFound, CH!Present, CH!At, CH!Start, CH!Once,
               CH!Goto, CH!Finish, CH!Absent, CH!Gone, CH!Idle
  <2>1. CHStays(r)
        BY <1>10, CHWays DEF CHInv
  <2> QED BY <1>10, <2>1 DEF CH!DeleteChecklist, CHStays, CH!management, CH!TypeOK,
             CH!HandlersTypeOK, CHInv
<1>11. ASSUME NEW r \in Requests, CH!FindItem(r)
      PROVE  CH!TypeOK'
  <2> HIDE DEF CH!TypeOK, CH!HandlersTypeOK, CH!ChecklistRow, CH!ItemRow, CH!FolderRow,
           CH!Running, CH!ChecklistStatuses, CH!ItemStatuses,
               CH!management, CH!Found, CH!FolderFound, CH!Present, CH!At, CH!Start, CH!Once,
               CH!Goto, CH!Finish, CH!Absent, CH!Gone, CH!Idle
  <2>1. CHStays(r)
        BY <1>11, CHWays DEF CHInv
  <2> QED BY <1>11, <2>1 DEF CH!FindItem, CHStays, CH!management, CH!TypeOK, CH!HandlersTypeOK,
             CHInv
<1>12. ASSUME NEW r \in Requests, CH!UpdateItem(r)
      PROVE  CH!TypeOK'
  <2> HIDE DEF CH!TypeOK, CH!HandlersTypeOK, CH!ChecklistRow, CH!ItemRow, CH!FolderRow,
           CH!Running, CH!ChecklistStatuses, CH!ItemStatuses,
               CH!management, CH!Found, CH!FolderFound, CH!Present, CH!At, CH!Start, CH!Once,
               CH!Goto, CH!Finish, CH!Absent, CH!Gone, CH!Idle
  <2>1. CHStays(r)
        BY <1>12, CHWays DEF CHInv
  <2>2. request[r].i \in Rows /\ request[r].status \in CH!ItemStatuses
        BY <1>12, CHOn DEF CH!UpdateItem, CH!At, CHInv
  <2>3. CH!Present(listed[request[r].i]) => [listed[request[r].i] EXCEPT !.status = request[r].status] \in CH!ItemRow
        BY <2>2, CHRows DEF CHInv, CH!ItemRow
  <2> QED BY <1>12, <2>1, <2>2, <2>3 DEF CH!UpdateItem, CHStays, CH!management, CH!TypeOK,
             CH!HandlersTypeOK, CHInv
<1>13. ASSUME NEW r \in Requests, CH!DeleteItem(r)
      PROVE  CH!TypeOK'
  <2> HIDE DEF CH!TypeOK, CH!HandlersTypeOK, CH!ChecklistRow, CH!ItemRow, CH!FolderRow,
           CH!Running, CH!ChecklistStatuses, CH!ItemStatuses,
               CH!management, CH!Found, CH!FolderFound, CH!Present, CH!At, CH!Start, CH!Once,
               CH!Goto, CH!Finish, CH!Absent, CH!Gone, CH!Idle
  <2>1. CHStays(r)
        BY <1>13, CHWays DEF CHInv
  <2> QED BY <1>13, <2>1 DEF CH!DeleteItem, CHStays, CH!management, CH!TypeOK,
             CH!HandlersTypeOK, CHInv
<1>14. ASSUME NEW r \in Requests, CH!ReadItems(r)
      PROVE  CH!TypeOK'
  <2> HIDE DEF CH!TypeOK, CH!HandlersTypeOK, CH!ChecklistRow, CH!ItemRow, CH!FolderRow,
           CH!Running, CH!ChecklistStatuses, CH!ItemStatuses,
               CH!management, CH!Found, CH!FolderFound, CH!Present, CH!At, CH!Start, CH!Once,
               CH!Goto, CH!Finish, CH!Absent, CH!Gone, CH!Idle
  <2>1. CHStays(r)
        BY <1>14, CHWays DEF CHInv
  <2> QED BY <1>14, <2>1 DEF CH!ReadItems, CHStays, CH!management, CH!TypeOK, CH!HandlersTypeOK,
             CHInv
<1>15. ASSUME NEW r \in Requests, CH!WriteProgress(r)
      PROVE  CH!TypeOK'
  <2> HIDE DEF CH!TypeOK, CH!HandlersTypeOK, CH!ChecklistRow, CH!ItemRow, CH!FolderRow,
           CH!Running, CH!ChecklistStatuses, CH!ItemStatuses,
               CH!management, CH!Found, CH!FolderFound, CH!Present, CH!At, CH!Start, CH!Once,
               CH!Goto, CH!Finish, CH!Absent, CH!Gone, CH!Idle
  <2>1. CHStays(r)
        BY <1>15, CHWays DEF CHInv
  <2>2. request[r].row \in CH!ChecklistRow
        BY <1>15, CHOn DEF CH!WriteProgress, CHInv
  <2> QED BY <1>15, <2>1, <2>2 DEF CH!WriteProgress, CHStays, CH!management, CH!TypeOK,
             CH!HandlersTypeOK, CHInv
<1>16. ASSUME NEW r \in Requests, CH!InsertFolder(r)
      PROVE  CH!TypeOK'
  <2> HIDE DEF CH!TypeOK, CH!HandlersTypeOK, CH!ChecklistRow, CH!ItemRow, CH!FolderRow,
           CH!Running, CH!ChecklistStatuses, CH!ItemStatuses,
               CH!management, CH!Found, CH!FolderFound, CH!Present, CH!At, CH!Start, CH!Once,
               CH!Goto, CH!Finish, CH!Absent, CH!Gone, CH!Idle
  <2>1. CHStays(r)
        BY <1>16, CHWays DEF CHInv
  <2>2. request[r].row \in CH!FolderRow
        BY <1>16, CHOn DEF CH!InsertFolder, CHInv
  <2> QED BY <1>16, <2>1, <2>2 DEF CH!InsertFolder, CHStays, CH!management, CH!TypeOK,
             CH!HandlersTypeOK, CHInv
<1>17. ASSUME NEW r \in Requests, CH!UpdateFolder(r)
      PROVE  CH!TypeOK'
  <2> HIDE DEF CH!TypeOK, CH!HandlersTypeOK, CH!ChecklistRow, CH!ItemRow, CH!FolderRow,
           CH!Running, CH!ChecklistStatuses, CH!ItemStatuses,
               CH!management, CH!Found, CH!FolderFound, CH!Present, CH!At, CH!Start, CH!Once,
               CH!Goto, CH!Finish, CH!Absent, CH!Gone, CH!Idle
  <2>1. CHStays(r)
        BY <1>17, CHWays DEF CHInv
  <2>2. request[r].on \in Rows /\ request[r].name \in Contents
        BY <1>17, CHOn DEF CH!UpdateFolder, CH!At, CHInv
  <2>3. CH!FolderFound(request[r].on) => [folder[request[r].on] EXCEPT !.name = request[r].name] \in CH!FolderRow
        BY <2>2, CHRows DEF CHInv, CH!FolderRow
  <2> QED BY <1>17, <2>1, <2>2, <2>3 DEF CH!UpdateFolder, CHStays, CH!management, CH!TypeOK,
             CH!HandlersTypeOK, CHInv
<1>18. ASSUME NEW r \in Requests, CH!DeleteFolder(r)
      PROVE  CH!TypeOK'
  <2> HIDE DEF CH!TypeOK, CH!HandlersTypeOK, CH!ChecklistRow, CH!ItemRow, CH!FolderRow,
           CH!Running, CH!ChecklistStatuses, CH!ItemStatuses,
               CH!management, CH!Found, CH!FolderFound, CH!Present, CH!At, CH!Start, CH!Once,
               CH!Goto, CH!Finish, CH!Absent, CH!Gone, CH!Idle
  <2>1. CHStays(r)
        BY <1>18, CHWays DEF CHInv
  <2> QED BY <1>18, <2>1 DEF CH!DeleteFolder, CHStays, CH!management, CH!TypeOK,
             CH!HandlersTypeOK, CHInv
<1>19. ASSUME NEW r \in Requests, CH!Abort(r)
      PROVE  CH!TypeOK'
  <2> HIDE DEF CH!TypeOK, CH!HandlersTypeOK, CH!ChecklistRow, CH!ItemRow, CH!FolderRow,
           CH!Running, CH!ChecklistStatuses, CH!ItemStatuses,
               CH!management, CH!Found, CH!FolderFound, CH!Present, CH!At, CH!Start, CH!Once,
               CH!Goto, CH!Finish, CH!Absent, CH!Gone, CH!Idle
  <2>1. CHStays(r)
        BY <1>19, CHWays DEF CHInv
  <2>2. uncounted' \subseteq Parts
        BY <1>19, CHOn DEF CH!Abort, CHInv, CH!TypeOK
  <2> QED BY <1>19, <2>1, <2>2 DEF CH!Abort, CHStays, CH!management, CH!TypeOK,
             CH!HandlersTypeOK, CHInv
<1>20. CASE UNCHANGED CH!vars
      BY <1>20 DEF CH!vars
<1> HIDE DEF CH!TypeOK, CH!HandlersTypeOK, CH!ChecklistRow, CH!ItemRow, CH!FolderRow,
         CH!Running, CH!ChecklistStatuses, CH!ItemStatuses,
             CH!management, CH!Found, CH!FolderFound, CH!Present, CH!At, CH!Start, CH!Once,
             CH!Goto, CH!Finish, CH!Absent, CH!Gone, CH!Idle,
             CHInv
<1> QED BY <1>1, <1>2, <1>3, <1>4, <1>5, <1>6, <1>7, <1>8, <1>9, <1>10, <1>11, <1>12, <1>13,
           <1>14, <1>15, <1>16, <1>17, <1>18, <1>19, <1>20 DEF CH!Next

\* Every step keeps the progress and the paths.
LEMMA CHRestStep ==
    ASSUME CHInv, [CH!Next]_CH!vars
    PROVE  CHAlone' /\ CHItems' /\ CHCounts' /\ CHFolders' /\ CHDeletes'
<1> USE DEF CH!TypeOK, CH!HandlersTypeOK, CH!ChecklistRow, CH!ItemRow, CH!FolderRow, CH!Running,
        CH!ChecklistStatuses, CH!ItemStatuses,
            CH!management, CH!Found, CH!FolderFound, CH!Present, CH!At, CH!Start, CH!Once,
            CH!Goto, CH!Finish, CH!Absent, CH!Gone, CH!Idle,
            CHInv, CH!Handled
<1>1. ASSUME NEW r \in Requests, NEW k \in Parts, CH!CreateChecklist(r, k)
      PROVE  CHAlone' /\ CHItems' /\ CHCounts' /\ CHFolders' /\ CHDeletes'
  <2> HIDE DEF CH!TypeOK, CH!HandlersTypeOK, CH!ChecklistRow, CH!ItemRow, CH!FolderRow,
           CH!Running, CH!ChecklistStatuses, CH!ItemStatuses,
               CH!management, CH!Found, CH!FolderFound, CH!Present, CH!At, CH!Start, CH!Once,
               CH!Goto, CH!Finish, CH!Absent, CH!Gone, CH!Idle,
               CH!Handled
  <2>1. /\ UNCHANGED <<request, listed, folder, uncounted>> /\ raced \subseteq raced' /\ checklist[k] = CH!Absent
        /\ checklist'[k] = [status |-> "PENDING", totalItems |-> 0, completedItems |-> 0]
        /\ \A e \in Parts \ {k} : checklist'[e] = checklist[e]
        BY <1>1 DEF CH!CreateChecklist, CH!Once, CHInv, CH!TypeOK
  <2>11. CHAlone'
        BY <2>1 DEF CHInv, CHAlone
  <2>12. CHItems' /\ CHCounts'
    <3>1. CH!ItemsOf(k) = {} /\ ~CH!Found(k) /\ checklist'[k] = CH!Progress(CH!ItemsOf(k)) /\ CH!Present(checklist'[k])
          BY <2>1, CHRows, CHProgress DEF CHInv, CHItems, CH!ItemsOf, CH!Found
    <3>2. \A e : CH!ItemsOf(e)' = CH!ItemsOf(e) /\ CH!Progress(CH!ItemsOf(e))' = CH!Progress(CH!ItemsOf(e))
          BY <2>1, CHItemsSame
    <3>3. \A e \in Parts : CH!Found(e) => CH!Found(e)'
          BY <2>1, <3>1 DEF CH!Found
    <3>4. CHItems'
          BY <2>1, <3>3, CHRows DEF CHInv, CHItems
    <3>5. CHCounts'
      <4> SUFFICES ASSUME NEW e \in Parts \ (raced' \cup uncounted')
                   PROVE  /\ CH!Found(e)' /\ ~(\E q \in Requests : CHRecalculating(q)' /\ request'[q].on = e) =>
                                 checklist'[e] = CH!Progress(CH!ItemsOf(e))'
                          /\ \A q \in Requests : CH!At(q, "writeProgress")' /\ request'[q].on = e =>
                                 request'[q].row = CH!Progress(CH!ItemsOf(e))'
          BY DEF CHCounts
      <4>1. /\ CH!Found(e) /\ ~(\E q \in Requests : CHRecalculating(q) /\ request[q].on = e) => checklist[e] = CH!Progress(CH!ItemsOf(e))
            /\ \A q \in Requests : CH!At(q, "writeProgress") /\ request[q].on = e => request[q].row = CH!Progress(CH!ItemsOf(e))
            BY <2>1 DEF CHInv, CHCounts
      <4> QED BY <2>1, <3>1, <3>2, <4>1 DEF CH!Found, CHRecalculating, CH!At
    <3> QED BY <3>4, <3>5
  <2>13. CHFolders'
        BY <2>1, CHFoldersKept DEF CH!At
  <2>14. CHDeletes'
        BY <2>1 DEF CHInv, CHDeletes, CH!At
  <2> QED BY <2>11, <2>12, <2>13, <2>14
<1>2. ASSUME NEW r \in Requests, NEW k \in Parts, CH!BeginDeleteChecklist(r, k)
      PROVE  CHAlone' /\ CHItems' /\ CHCounts' /\ CHFolders' /\ CHDeletes'
  <2> HIDE DEF CH!TypeOK, CH!HandlersTypeOK, CH!ChecklistRow, CH!ItemRow, CH!FolderRow,
           CH!Running, CH!ChecklistStatuses, CH!ItemStatuses,
               CH!management, CH!Found, CH!FolderFound, CH!Present, CH!At, CH!Start, CH!Once,
               CH!Goto, CH!Finish, CH!Absent, CH!Gone, CH!Idle,
               CH!Handled
  <2>1. CHBegins(r, [pc |-> "deleteChecklist", on |-> k])
        BY <1>2, CHBegin DEF CH!BeginDeleteChecklist, CHInv
  <2>11. CHAlone'
        BY <2>1, CHBeginAlone
  <2>12. CHItems' /\ CHCounts' /\ CHDeletes' /\ CHFolders'
        BY <1>2, <2>1, CHBeginKept, CHRows DEF CH!BeginDeleteChecklist, CH!FolderFound
  <2>13. CHFolders'
        BY <2>12
  <2>14. CHDeletes'
        BY <2>12
  <2> QED BY <2>11, <2>12, <2>13, <2>14
<1>3. ASSUME NEW r \in Requests, NEW k \in Parts, CH!BeginAddItem(r, k)
      PROVE  CHAlone' /\ CHItems' /\ CHCounts' /\ CHFolders' /\ CHDeletes'
  <2> HIDE DEF CH!TypeOK, CH!HandlersTypeOK, CH!ChecklistRow, CH!ItemRow, CH!FolderRow,
           CH!Running, CH!ChecklistStatuses, CH!ItemStatuses,
               CH!management, CH!Found, CH!FolderFound, CH!Present, CH!At, CH!Start, CH!Once,
               CH!Goto, CH!Finish, CH!Absent, CH!Gone, CH!Idle,
               CH!Handled
  <2>1. CHBegins(r, [pc |-> "insertItem", on |-> k])
        BY <1>3, CHBegin DEF CH!BeginAddItem, CHInv
  <2>11. CHAlone'
        BY <2>1, CHBeginAlone
  <2>12. CHItems' /\ CHCounts' /\ CHDeletes' /\ CHFolders'
        BY <1>3, <2>1, CHBeginKept, CHRows DEF CH!BeginAddItem, CH!FolderFound
  <2>13. CHFolders'
        BY <2>12
  <2>14. CHDeletes'
        BY <2>12
  <2> QED BY <2>11, <2>12, <2>13, <2>14
<1>4. ASSUME NEW r \in Requests, NEW k \in Parts, NEW i \in Rows, CH!BeginRemoveItem(r, k, i)
      PROVE  CHAlone' /\ CHItems' /\ CHCounts' /\ CHFolders' /\ CHDeletes'
  <2> HIDE DEF CH!TypeOK, CH!HandlersTypeOK, CH!ChecklistRow, CH!ItemRow, CH!FolderRow,
           CH!Running, CH!ChecklistStatuses, CH!ItemStatuses,
               CH!management, CH!Found, CH!FolderFound, CH!Present, CH!At, CH!Start, CH!Once,
               CH!Goto, CH!Finish, CH!Absent, CH!Gone, CH!Idle,
               CH!Handled
  <2>1. CHBegins(r, [pc |-> "findItem", op |-> "deleteItem", on |-> k, i |-> i, status |-> "REQUIRED"])
        BY <1>4, CHBegin DEF CH!BeginRemoveItem, CHInv
  <2>11. CHAlone'
        BY <2>1, CHBeginAlone
  <2>12. CHItems' /\ CHCounts' /\ CHDeletes' /\ CHFolders'
        BY <1>4, <2>1, CHBeginKept, CHRows DEF CH!BeginRemoveItem, CH!FolderFound
  <2>13. CHFolders'
        BY <2>12
  <2>14. CHDeletes'
        BY <2>12
  <2> QED BY <2>11, <2>12, <2>13, <2>14
<1>5. ASSUME NEW r \in Requests, NEW k \in Parts, NEW i \in Rows, NEW s \in CH!ItemStatuses,
             CH!BeginUpdateItem(r, k, i, s)
      PROVE  CHAlone' /\ CHItems' /\ CHCounts' /\ CHFolders' /\ CHDeletes'
  <2> HIDE DEF CH!TypeOK, CH!HandlersTypeOK, CH!ChecklistRow, CH!ItemRow, CH!FolderRow,
           CH!Running, CH!ChecklistStatuses, CH!ItemStatuses,
               CH!management, CH!Found, CH!FolderFound, CH!Present, CH!At, CH!Start, CH!Once,
               CH!Goto, CH!Finish, CH!Absent, CH!Gone, CH!Idle,
               CH!Handled
  <2>1. CHBegins(r, [pc |-> "findItem", op |-> "updateItem", on |-> k, i |-> i, status |-> s])
        BY <1>5, CHBegin DEF CH!BeginUpdateItem, CHInv
  <2>11. CHAlone'
        BY <2>1, CHBeginAlone
  <2>12. CHItems' /\ CHCounts' /\ CHDeletes' /\ CHFolders'
        BY <1>5, <2>1, CHBeginKept, CHRows DEF CH!BeginUpdateItem, CH!FolderFound
  <2>13. CHFolders'
        BY <2>12
  <2>14. CHDeletes'
        BY <2>12
  <2> QED BY <2>11, <2>12, <2>13, <2>14
<1>6. ASSUME NEW r \in Requests, NEW i \in Rows, CH!InsertItem(r, i)
      PROVE  CHAlone' /\ CHItems' /\ CHCounts' /\ CHFolders' /\ CHDeletes'
  <2> HIDE DEF CH!TypeOK, CH!HandlersTypeOK, CH!ChecklistRow, CH!ItemRow, CH!FolderRow,
           CH!Running, CH!ChecklistStatuses, CH!ItemStatuses,
               CH!management, CH!Found, CH!FolderFound, CH!Present, CH!At, CH!Start, CH!Once,
               CH!Goto, CH!Finish, CH!Absent, CH!Gone, CH!Idle,
               CH!Handled
  <2>1. CHStays(r) /\ request[r] # CH!Idle
        BY <1>6, CHWays DEF CHInv
  <2>2. PICK k : k = request[r].on
        OBVIOUS
  <2>3. k \in Parts /\ CH!At(r, "insertItem") /\ UNCHANGED <<checklist, uncounted>> /\ listed[i] = CH!Absent
            /\ \A q \in Requests \ {r} : request'[q] = request[q]
        BY <1>6, <2>1, <2>2, CHOn DEF CH!InsertItem, CHInv, CHStays, CH!At
  <2>11. CHAlone'
        BY <2>1, CHStayAlone
  <2>12. CHItems' /\ CHCounts'
    <3>1. CASE CH!Found(k)
      <4>1. listed'[i] = [of |-> k, status |-> "REQUIRED"] /\ \A j \in Rows \ {i} : listed'[j] = listed[j]
            BY <1>6, <2>2, <3>1 DEF CH!InsertItem, CHInv, CH!TypeOK
      <4>2. listed'[i] # CH!Absent /\ listed'[i].of = k /\ CH!Present(listed'[i]) /\ ~CH!Present(listed[i])
            BY <2>3, <4>1, CHRows DEF CH!Absent, CH!Gone, CH!Present
      <4>3. request'[r].pc = "readItems"
        <5>1. CH!Found(request[r].on)
              BY <2>2, <3>1
        <5>2. request'[r] = [pc |-> "readItems", on |-> request[r].on]
              BY <1>6, <5>1, CHWays DEF CHInv
        <5> QED BY <5>2
      <4>4. CHItems'
        <5>1. \A j \in Rows : CH!Present(listed[j]) => CH!Found(listed[j].of)
              BY DEF CHInv, CHItems
        <5>2. \A e : CH!Found(e)' <=> CH!Found(e)
              BY <2>3 DEF CH!Found
        <5>3. \A j \in Rows :
                 /\ CH!Present(listed'[j]) => CH!Found(listed[j].of)'
                 /\ listed[j] # CH!Absent => listed'[j] # CH!Absent
                 /\ CH!Present(listed'[j]) /\ listed[j] # CH!Absent => CH!Present(listed[j]) /\ listed'[j].of = listed[j].of
              BY <2>3, <3>1, <4>1, <4>2, <5>1, <5>2
        <5> QED BY <2>1, <4>3, <5>3, CHItemsKept
      <4>5. CHCounts'
        <5>1. CHRecalculating(r)' /\ ~CH!At(r, "writeProgress")'
              BY <4>3 DEF CHRecalculating, CH!At
        <5>2. \A j \in Rows : listed'[j] # listed[j] => (CH!Present(listed'[j]) => listed'[j].of = k) /\ (CH!Present(listed[j]) => listed[j].of = k)
              BY <4>1, <4>2
        <5> QED BY <2>1, <2>2, <2>3, <5>1, <5>2, CHOthers
      <4> QED BY <4>4, <4>5
    <3>2. CASE ~CH!Found(k)
      <4>1. UNCHANGED <<listed, checklist>> /\ request'[r] = CH!Idle /\ uncounted' = uncounted /\ raced' = raced
            BY <1>6, <2>1, <2>2, <2>3, <3>2, CHWays DEF CH!InsertItem, CHInv, CHStays
      <4>2. ~CHRecalculating(r) /\ request'[r].pc \notin {"updateItem", "deleteItem", "writeProgress"}
            BY <2>3, <4>1 DEF CHRecalculating, CH!At, CH!Idle
      <4> QED BY <2>1, <4>1, <4>2, CHStayKept
    <3> QED BY <3>1, <3>2
  <2>13. CHFolders'
    <3>1. UNCHANGED folder
          BY <1>6 DEF CH!InsertItem, CH!management
    <3> QED BY <2>1, <3>1, CHStayKept
  <2>14. CHDeletes'
    <3>1. UNCHANGED folder
          BY <1>6 DEF CH!InsertItem, CH!management
    <3> QED BY <2>1, <3>1, CHStayKept
  <2> QED BY <2>11, <2>12, <2>13, <2>14
<1>7. ASSUME NEW r \in Requests, NEW f \in Rows, CH!BeginDeleteFolder(r, f)
      PROVE  CHAlone' /\ CHItems' /\ CHCounts' /\ CHFolders' /\ CHDeletes'
  <2> HIDE DEF CH!TypeOK, CH!HandlersTypeOK, CH!ChecklistRow, CH!ItemRow, CH!FolderRow,
           CH!Running, CH!ChecklistStatuses, CH!ItemStatuses,
               CH!management, CH!Found, CH!FolderFound, CH!Present, CH!At, CH!Start, CH!Once,
               CH!Goto, CH!Finish, CH!Absent, CH!Gone, CH!Idle,
               CH!Handled
  <2>1. CHBegins(r, [pc |-> "deleteFolder", on |-> f])
        BY <1>7, CHBegin DEF CH!BeginDeleteFolder, CHInv
  <2>11. CHAlone'
        BY <2>1, CHBeginAlone
  <2>12. CHItems' /\ CHCounts' /\ CHDeletes' /\ CHFolders'
        BY <1>7, <2>1, CHBeginKept, CHRows DEF CH!BeginDeleteFolder, CH!FolderFound
  <2>13. CHFolders'
        BY <2>12
  <2>14. CHDeletes'
        BY <2>12
  <2> QED BY <2>11, <2>12, <2>13, <2>14
<1>8. ASSUME NEW r \in Requests, NEW f \in Rows, NEW m \in Contents, CH!BeginUpdateFolder(r, f, m)
      PROVE  CHAlone' /\ CHItems' /\ CHCounts' /\ CHFolders' /\ CHDeletes'
  <2> HIDE DEF CH!TypeOK, CH!HandlersTypeOK, CH!ChecklistRow, CH!ItemRow, CH!FolderRow,
           CH!Running, CH!ChecklistStatuses, CH!ItemStatuses,
               CH!management, CH!Found, CH!FolderFound, CH!Present, CH!At, CH!Start, CH!Once,
               CH!Goto, CH!Finish, CH!Absent, CH!Gone, CH!Idle,
               CH!Handled
  <2>1. CHBegins(r, [pc |-> "updateFolder", on |-> f, name |-> m])
        BY <1>8, CHBegin DEF CH!BeginUpdateFolder, CHInv
  <2>11. CHAlone'
        BY <2>1, CHBeginAlone
  <2>12. CHItems' /\ CHCounts' /\ CHDeletes' /\ CHFolders'
        BY <1>8, <2>1, CHBeginKept, CHRows DEF CH!BeginUpdateFolder, CH!FolderFound
  <2>13. CHFolders'
        BY <2>12
  <2>14. CHDeletes'
        BY <2>12
  <2> QED BY <2>11, <2>12, <2>13, <2>14
<1>9. ASSUME NEW r \in Requests, NEW f \in Rows, NEW p \in Rows \cup {None},
             NEW m \in Contents, CH!BeginCreateFolder(r, f, p, m)
      PROVE  CHAlone' /\ CHItems' /\ CHCounts' /\ CHFolders' /\ CHDeletes'
  <2> HIDE DEF CH!TypeOK, CH!HandlersTypeOK, CH!ChecklistRow, CH!ItemRow, CH!FolderRow,
           CH!Running, CH!ChecklistStatuses, CH!ItemStatuses,
               CH!management, CH!Found, CH!FolderFound, CH!Present, CH!At, CH!Start, CH!Once,
               CH!Goto, CH!Finish, CH!Absent, CH!Gone, CH!Idle,
               CH!Handled
  <2>1. CHBegins(r, [pc |-> "insertFolder", on |-> f, row |-> [parent |-> p, name |-> m, path |-> CH!PathUnder(p, m)]])
        BY <1>9, CHBegin DEF CH!BeginCreateFolder, CHInv
  <2>11. CHAlone'
        BY <2>1, CHBeginAlone
  <2>12. CHItems' /\ CHCounts' /\ CHDeletes'
        BY <1>9, <2>1, CHBeginKept, CHRows DEF CH!BeginCreateFolder, CH!FolderFound
  <2>13. CHFolders'
    <3>1. folder[f] = CH!Absent /\ (\A q \in Requests : request[q] # CH!Idle => request[q].on # f) /\ UNCHANGED folder
          BY <1>9, <2>1 DEF CH!BeginCreateFolder, CH!Handled, CHBegins
    <3>2. PICK row : row = [parent |-> p, name |-> m, path |-> CH!PathUnder(p, m)]
          OBVIOUS
    <3>3. CHBelow(row)
          BY <1>9, <3>2, CHPath DEF CH!BeginCreateFolder
    <3>4. request'[r].pc = "insertFolder" /\ request'[r].on = f /\ request'[r].row = row
          BY <2>1, <3>2 DEF CHBegins
    <3>5. \A q \in Requests \ {r} : CH!At(q, "insertFolder")' => CH!At(q, "insertFolder") /\ request'[q] = request[q] /\ request[q].on # f
          BY <2>1, <3>1 DEF CHBegins, CH!At, CH!Idle
    <3>6. \A row2 : CHBelow(row2)' <=> CHBelow(row2)
          BY <3>1 DEF CHBelow, CH!FolderFound
    <3>7. \A g \in Rows : CH!FolderFound(g)' => CHBelow(folder[g])' /\ folder'[g].parent # g
          BY <3>1 DEF CHInv, CHFolders, CHBelow, CH!FolderFound
    <3>8. \A q \in Requests \ {r} : CH!At(q, "insertFolder")' => CHBelow(request[q].row)' /\ folder'[request'[q].on] = CH!Absent
                                              /\ request'[q].on # f
      <4>1. \A q \in Requests : CH!At(q, "insertFolder") => CHBelow(request[q].row) /\ folder[request[q].on] = CH!Absent
            BY DEF CHInv, CHFolders
      <4> QED BY ZenonT(30), <3>1, <3>5, <4>1 DEF CHBelow, CH!FolderFound
    <3>9. CHBelow(request[r].row)' /\ folder'[request'[r].on] = CH!Absent
          BY <3>1, <3>3, <3>4 DEF CHBelow, CH!FolderFound
    <3>10. \A q, e \in Requests \ {r} : CH!At(q, "insertFolder")' /\ CH!At(e, "insertFolder")' /\ request'[q].on = request'[e].on => q = e
          BY <3>5 DEF CHInv, CHFolders
    <3> QED BY <3>4, <3>7, <3>8, <3>9, <3>10 DEF CHFolders
  <2>14. CHDeletes'
        BY <2>12
  <2> QED BY <2>11, <2>12, <2>13, <2>14
<1>10. ASSUME NEW r \in Requests, CH!DeleteChecklist(r)
      PROVE  CHAlone' /\ CHItems' /\ CHCounts' /\ CHFolders' /\ CHDeletes'
  <2> HIDE DEF CH!TypeOK, CH!HandlersTypeOK, CH!ChecklistRow, CH!ItemRow, CH!FolderRow,
           CH!Running, CH!ChecklistStatuses, CH!ItemStatuses,
               CH!management, CH!Found, CH!FolderFound, CH!Present, CH!At, CH!Start, CH!Once,
               CH!Goto, CH!Finish, CH!Absent, CH!Gone, CH!Idle,
               CH!Handled
  <2>1. CHStays(r) /\ request[r] # CH!Idle
        BY <1>10, CHWays DEF CHInv
  <2>2. PICK k : k = request[r].on
        OBVIOUS
  <2>3. /\ k \in Parts /\ CH!At(r, "deleteChecklist") /\ uncounted' = uncounted /\ request'[r] = CH!Idle
        /\ \A q \in Requests \ {r} : request'[q] = request[q]
        /\ checklist'[k] = CH!Gone /\ \A e \in Parts \ {k} : checklist'[e] = checklist[e]
        /\ \A j \in Rows : listed'[j] = IF j \in CH!ItemsOf(k) THEN CH!Gone ELSE listed[j]
        BY <1>10, <2>1, <2>2, CHOn, CHWays DEF CH!DeleteChecklist, CHInv, CHStays, CH!At,
           CH!TypeOK
  <2>11. CHAlone'
        BY <2>1, CHStayAlone
  <2>12. CHItems' /\ CHCounts'
    <3>1. \A j \in Rows : /\ CH!Present(listed'[j]) => listed'[j] = listed[j] /\ CH!Present(listed[j]) /\ listed[j].of # k
                          /\ listed[j] # CH!Absent => listed'[j] # CH!Absent
                          /\ listed'[j] # listed[j] => CH!Present(listed[j]) /\ listed[j].of = k /\ ~CH!Present(listed'[j])
          BY <2>3, CHRows DEF CH!ItemsOf
    <3>2. ~CH!Found(k)'
          BY <2>3, CHRows DEF CH!Found
    <3>3. CHItems'
      <4>1. \A j \in Rows : CH!Present(listed[j]) => CH!Found(listed[j].of) /\ listed[j].of \in Parts
            BY CHRows DEF CHInv, CHItems
      <4>2. \A e \in Parts \ {k} : CH!Found(e)' <=> CH!Found(e)
            BY <2>3 DEF CH!Found
      <4>3. \A j \in Rows : CH!Present(listed'[j]) => CH!Found(listed[j].of)'
            BY <3>1, <4>1, <4>2
      <4>4. request'[r].pc \notin {"updateItem", "deleteItem"}
            BY <2>3 DEF CH!Idle
      <4> QED BY <2>1, <3>1, <4>3, <4>4, CHItemsKept
    <3>4. CHCounts'
      <4>1. ~CH!At(r, "writeProgress")'
            BY <2>3 DEF CH!At, CH!Idle
      <4> QED BY <2>1, <2>2, <2>3, <3>1, <3>2, <4>1, CHOthers
    <3> QED BY <3>3, <3>4
  <2>13. CHFolders'
    <3>1. UNCHANGED folder
          BY <1>10 DEF CH!DeleteChecklist, CH!management
    <3> QED BY <2>1, <3>1, CHStayKept
  <2>14. CHDeletes'
    <3>1. UNCHANGED folder
          BY <1>10 DEF CH!DeleteChecklist, CH!management
    <3> QED BY <2>1, <3>1, CHStayKept
  <2> QED BY <2>11, <2>12, <2>13, <2>14
<1>11. ASSUME NEW r \in Requests, CH!FindItem(r)
      PROVE  CHAlone' /\ CHItems' /\ CHCounts' /\ CHFolders' /\ CHDeletes'
  <2> HIDE DEF CH!TypeOK, CH!HandlersTypeOK, CH!ChecklistRow, CH!ItemRow, CH!FolderRow,
           CH!Running, CH!ChecklistStatuses, CH!ItemStatuses,
               CH!management, CH!Found, CH!FolderFound, CH!Present, CH!At, CH!Start, CH!Once,
               CH!Goto, CH!Finish, CH!Absent, CH!Gone, CH!Idle,
               CH!Handled
  <2>1. CHStays(r) /\ request[r] # CH!Idle
        BY <1>11, CHWays DEF CHInv
  <2>11. CHAlone'
        BY <2>1, CHStayAlone
  <2>12. CHItems' /\ CHCounts'
    <3>1. UNCHANGED <<checklist, listed, uncounted>>
          BY <1>11 DEF CH!FindItem, CH!management
    <3>2. CHItems'
      <4>1. request'[r].pc \in {"updateItem", "deleteItem"} =>
                request'[r].i \in CH!ItemsOf(request'[r].on)
        <5>1. CASE request[r].i \in CH!ItemsOf(request[r].on)
          <6>1. request'[r] = [pc |-> request[r].op, on |-> request[r].on, i |-> request[r].i, status |-> request[r].status]
                BY <1>11, <5>1, CHWays DEF CHInv
          <6>2. request'[r].i = request[r].i /\ request'[r].on = request[r].on
                BY <6>1
          <6> QED BY <5>1, <6>2
        <5>2. CASE request[r].i \notin CH!ItemsOf(request[r].on)
          <6>1. request'[r] = CH!Idle
                BY <1>11, <5>2, CHWays DEF CHInv
          <6> QED BY <6>1 DEF CH!Idle
        <5> QED BY <5>1, <5>2
      <4>2. request'[r].pc \in {"updateItem", "deleteItem"} =>
               /\ listed'[request'[r].i] # CH!Absent
               /\ CH!Present(listed'[request'[r].i]) => listed'[request'[r].i].of = request'[r].on
            BY <3>1, <4>1, CHRows DEF CH!ItemsOf
      <4>3. \A j \in Rows : CH!Present(listed'[j]) => CH!Found(listed[j].of)'
            BY <3>1 DEF CHInv, CHItems, CH!Found
      <4> QED BY <2>1, <3>1, <4>2, <4>3, CHItemsKept
    <3>3. \A i \in Rows : listed'[i] = listed[i]
          BY <3>1
    <3>4. ~CH!At(r, "writeProgress")' /\ ~CHRecalculating(r) /\ ~CHRecalculating(r)'
      <4>1. ~CHRecalculating(r)
            BY <1>11 DEF CH!FindItem, CH!At, CHRecalculating
      <4>2. CASE request[r].i \in CH!ItemsOf(request[r].on)
        <5>1. request'[r].pc = request[r].op /\ request[r].op \in {"updateItem", "deleteItem"}
          <6>1. request'[r] = [pc |-> request[r].op, on |-> request[r].on, i |-> request[r].i, status |-> request[r].status]
                BY <1>11, <4>2, CHWays DEF CHInv
          <6>2. CH!At(r, "findItem")
                BY <1>11 DEF CH!FindItem
          <6> QED BY <6>1, <6>2, CHOn DEF CHInv
        <5> QED BY <4>1, <5>1 DEF CH!At, CHRecalculating
      <4>3. CASE request[r].i \notin CH!ItemsOf(request[r].on)
        <5>1. request'[r] = CH!Idle
              BY <1>11, <4>3, CHWays DEF CHInv
        <5> QED BY <4>1, <5>1 DEF CH!At, CHRecalculating, CH!Idle
      <4> QED BY <4>2, <4>3
    <3>5. PICK k : k = request[r].on
          OBVIOUS
    <3>6. k \in Parts \ (raced \cup uncounted) /\ CH!Found(k)' => checklist'[k] = CH!Progress(CH!ItemsOf(k))'
      <4>1. \A q \in Requests : CHRecalculating(q) => request[q] # CH!Idle
            BY DEF CHRecalculating, CH!Idle
      <4>2. k \in Parts \ (raced \cup uncounted) => ~(\E q \in Requests : CHRecalculating(q) /\ request[q].on = k)
            BY <2>1, <3>4, <3>5, <4>1 DEF CHInv, CHAlone
      <4>3. CH!Progress(CH!ItemsOf(k))' = CH!Progress(CH!ItemsOf(k))
            BY <3>1, CHItemsSame
      <4> QED BY <3>1, <4>2, <4>3 DEF CHInv, CHCounts, CH!Found
    <3>7. CHCounts'
          BY <2>1, <3>1, <3>3, <3>4, <3>5, <3>6, CHOthers
    <3> QED BY <3>2, <3>7
  <2>13. CHFolders'
    <3>1. UNCHANGED folder
          BY <1>11 DEF CH!FindItem, CH!management
    <3> QED BY <2>1, <3>1, CHStayKept
  <2>14. CHDeletes'
    <3>1. UNCHANGED folder
          BY <1>11 DEF CH!FindItem, CH!management
    <3> QED BY <2>1, <3>1, CHStayKept
  <2> QED BY <2>11, <2>12, <2>13, <2>14
<1>12. ASSUME NEW r \in Requests, CH!UpdateItem(r)
      PROVE  CHAlone' /\ CHItems' /\ CHCounts' /\ CHFolders' /\ CHDeletes'
  <2> HIDE DEF CH!TypeOK, CH!HandlersTypeOK, CH!ChecklistRow, CH!ItemRow, CH!FolderRow,
           CH!Running, CH!ChecklistStatuses, CH!ItemStatuses,
               CH!management, CH!Found, CH!FolderFound, CH!Present, CH!At, CH!Start, CH!Once,
               CH!Goto, CH!Finish, CH!Absent, CH!Gone, CH!Idle,
               CH!Handled
  <2>1. CHStays(r) /\ request[r] # CH!Idle
        BY <1>12, CHWays DEF CHInv
  <2>11. CHAlone'
        BY <2>1, CHStayAlone
  <2>12. CHItems' /\ CHCounts'
    <3>1. UNCHANGED <<checklist, uncounted>> /\ CH!At(r, "updateItem") /\ request'[r].pc = "readItems"
      <4>1. request'[r] = [pc |-> "readItems", on |-> request[r].on]
            BY <1>12, CHWays DEF CHInv
      <4>2. request'[r].pc = "readItems"
            BY <4>1
      <4> QED BY <1>12, <4>2 DEF CH!UpdateItem
    <3>2. PICK k, i : k = request[r].on /\ i = request[r].i
          OBVIOUS
    <3>3. k \in Parts /\ i \in Rows /\ listed[i] # CH!Absent /\ (CH!Present(listed[i]) => listed[i].of = k) /\ request[r].status \in CH!ItemStatuses
          BY <3>1, <3>2, CHOn DEF CHInv, CHItems, CH!At
    <3>4. /\ \A j \in Rows \ {i} : listed'[j] = listed[j]
          /\ CH!Present(listed[i]) => CH!Present(listed'[i]) /\ listed'[i].of = listed[i].of
          /\ ~CH!Present(listed[i]) => listed'[i] = listed[i]
      <4>1. CASE CH!Present(listed[i])
        <5>1. listed[i] \in CH!ItemRow
              BY <3>3, <4>1, CHRows DEF CHInv
        <5>2. PICK row : row = [listed[i] EXCEPT !.status = request[r].status]
              OBVIOUS
        <5>3. row \in CH!ItemRow /\ row.of = listed[i].of
              BY <3>3, <5>1, <5>2 DEF CH!ItemRow
        <5>4. listed' = [listed EXCEPT ![i] = row]
              BY <1>12, <3>2, <4>1, <5>2 DEF CH!UpdateItem, CHInv, CH!TypeOK
        <5> QED BY <3>3, <4>1, <5>3, <5>4, CHRows DEF CHInv, CH!TypeOK
      <4>2. CASE ~CH!Present(listed[i])
            BY <1>12, <3>2, <4>2 DEF CH!UpdateItem
      <4> QED BY <4>1, <4>2
    <3>5. \A q \in Requests \ {r} : request'[q] = request[q]
          BY <2>1 DEF CHStays
    <3>6. CHItems'
      <4>1. \A j \in Rows : CH!Present(listed[j]) => CH!Found(listed[j].of)
            BY DEF CHInv, CHItems
      <4>2. \A e : CH!Found(e)' <=> CH!Found(e)
            BY <3>1 DEF CH!Found
      <4>3. \A j \in Rows :
               /\ CH!Present(listed'[j]) => CH!Found(listed[j].of)'
               /\ listed[j] # CH!Absent => listed'[j] # CH!Absent
               /\ CH!Present(listed'[j]) /\ listed[j] # CH!Absent => CH!Present(listed[j]) /\ listed'[j].of = listed[j].of
            BY <3>3, <3>4, <4>1, <4>2, CHRows
      <4> QED BY <2>1, <3>1, <4>3, CHItemsKept
    <3>7. \A j \in Rows : listed'[j] # listed[j] => (CH!Present(listed'[j]) => listed'[j].of = k) /\ (CH!Present(listed[j]) => listed[j].of = k)
          BY <3>3, <3>4
    <3>8. CHRecalculating(r)' /\ ~CH!At(r, "writeProgress")'
          BY <3>1 DEF CHRecalculating, CH!At
    <3>9. CHCounts'
          BY <2>1, <3>1, <3>2, <3>7, <3>8, CHOthers
    <3> QED BY <3>6, <3>9
  <2>13. CHFolders'
    <3>1. UNCHANGED folder
          BY <1>12 DEF CH!UpdateItem, CH!management
    <3> QED BY <2>1, <3>1, CHStayKept
  <2>14. CHDeletes'
    <3>1. UNCHANGED folder
          BY <1>12 DEF CH!UpdateItem, CH!management
    <3> QED BY <2>1, <3>1, CHStayKept
  <2> QED BY <2>11, <2>12, <2>13, <2>14
<1>13. ASSUME NEW r \in Requests, CH!DeleteItem(r)
      PROVE  CHAlone' /\ CHItems' /\ CHCounts' /\ CHFolders' /\ CHDeletes'
  <2> HIDE DEF CH!TypeOK, CH!HandlersTypeOK, CH!ChecklistRow, CH!ItemRow, CH!FolderRow,
           CH!Running, CH!ChecklistStatuses, CH!ItemStatuses,
               CH!management, CH!Found, CH!FolderFound, CH!Present, CH!At, CH!Start, CH!Once,
               CH!Goto, CH!Finish, CH!Absent, CH!Gone, CH!Idle,
               CH!Handled
  <2>1. CHStays(r) /\ request[r] # CH!Idle
        BY <1>13, CHWays DEF CHInv
  <2>11. CHAlone'
        BY <2>1, CHStayAlone
  <2>12. CHItems' /\ CHCounts'
    <3>1. UNCHANGED <<checklist, uncounted>> /\ CH!At(r, "deleteItem") /\ request'[r].pc = "readItems"
      <4>1. request'[r] = [pc |-> "readItems", on |-> request[r].on]
            BY <1>13, CHWays DEF CHInv
      <4>2. request'[r].pc = "readItems"
            BY <4>1
      <4> QED BY <1>13, <4>2 DEF CH!DeleteItem
    <3>2. PICK k, i : k = request[r].on /\ i = request[r].i
          OBVIOUS
    <3>3. k \in Parts /\ i \in Rows /\ listed[i] # CH!Absent /\ (CH!Present(listed[i]) => listed[i].of = k) /\ request[r].status \in CH!ItemStatuses
          BY <3>1, <3>2, CHOn DEF CHInv, CHItems, CH!At
    <3>4. /\ \A j \in Rows \ {i} : listed'[j] = listed[j]
          /\ listed'[i] = CH!Gone /\ ~CH!Present(listed'[i]) /\ listed'[i] # CH!Absent
          BY <1>13, <3>2, <3>3, CHRows DEF CH!DeleteItem, CHInv, CH!TypeOK
    <3>5. \A q \in Requests \ {r} : request'[q] = request[q]
          BY <2>1 DEF CHStays
    <3>6. CHItems'
      <4>1. \A j \in Rows : CH!Present(listed[j]) => CH!Found(listed[j].of)
            BY DEF CHInv, CHItems
      <4>2. \A e : CH!Found(e)' <=> CH!Found(e)
            BY <3>1 DEF CH!Found
      <4>3. \A j \in Rows :
               /\ CH!Present(listed'[j]) => CH!Found(listed[j].of)'
               /\ listed[j] # CH!Absent => listed'[j] # CH!Absent
               /\ CH!Present(listed'[j]) /\ listed[j] # CH!Absent => CH!Present(listed[j]) /\ listed'[j].of = listed[j].of
            BY <3>3, <3>4, <4>1, <4>2, CHRows
      <4> QED BY <2>1, <3>1, <4>3, CHItemsKept
    <3>7. \A j \in Rows : listed'[j] # listed[j] => (CH!Present(listed'[j]) => listed'[j].of = k) /\ (CH!Present(listed[j]) => listed[j].of = k)
          BY <3>3, <3>4
    <3>8. CHRecalculating(r)' /\ ~CH!At(r, "writeProgress")'
          BY <3>1 DEF CHRecalculating, CH!At
    <3>9. CHCounts'
          BY <2>1, <3>1, <3>2, <3>7, <3>8, CHOthers
    <3> QED BY <3>6, <3>9
  <2>13. CHFolders'
    <3>1. UNCHANGED folder
          BY <1>13 DEF CH!DeleteItem, CH!management
    <3> QED BY <2>1, <3>1, CHStayKept
  <2>14. CHDeletes'
    <3>1. UNCHANGED folder
          BY <1>13 DEF CH!DeleteItem, CH!management
    <3> QED BY <2>1, <3>1, CHStayKept
  <2> QED BY <2>11, <2>12, <2>13, <2>14
<1>14. ASSUME NEW r \in Requests, CH!ReadItems(r)
      PROVE  CHAlone' /\ CHItems' /\ CHCounts' /\ CHFolders' /\ CHDeletes'
  <2> HIDE DEF CH!TypeOK, CH!HandlersTypeOK, CH!ChecklistRow, CH!ItemRow, CH!FolderRow,
           CH!Running, CH!ChecklistStatuses, CH!ItemStatuses,
               CH!management, CH!Found, CH!FolderFound, CH!Present, CH!At, CH!Start, CH!Once,
               CH!Goto, CH!Finish, CH!Absent, CH!Gone, CH!Idle,
               CH!Handled
  <2>1. CHStays(r) /\ request[r] # CH!Idle
        BY <1>14, CHWays DEF CHInv
  <2>11. CHAlone'
        BY <2>1, CHStayAlone
  <2>12. CHItems' /\ CHCounts'
    <3>1. UNCHANGED <<checklist, listed, uncounted>>
          BY <1>14 DEF CH!ReadItems, CH!management
    <3>2. request'[r].pc = "writeProgress" /\ request'[r].row = CH!Progress(CH!ItemsOf(request[r].on))
      <4>1. request'[r] = [pc |-> "writeProgress", on |-> request[r].on, row |-> CH!Progress(CH!ItemsOf(request[r].on))]
            BY <1>14, CHWays DEF CHInv
      <4> QED BY <4>1
    <3>3. CHItems'
      <4>1. \A j \in Rows : CH!Present(listed'[j]) => CH!Found(listed[j].of)'
            BY <3>1 DEF CHInv, CHItems, CH!Found
      <4> QED BY <2>1, <3>1, <3>2, <4>1, CHItemsKept
    <3>4. PICK k : k = request[r].on
          OBVIOUS
    <3>5. CH!Progress(CH!ItemsOf(k))' = CH!Progress(CH!ItemsOf(k))
          BY <3>1, CHItemsSame
    <3>6. CHRecalculating(r)' /\ \A i \in Rows : listed'[i] = listed[i]
          BY <3>1, <3>2 DEF CHRecalculating
    <3>7. CHCounts'
          BY <2>1, <3>1, <3>2, <3>4, <3>5, <3>6, CHOthers
    <3> QED BY <3>3, <3>7
  <2>13. CHFolders'
    <3>1. UNCHANGED folder
          BY <1>14 DEF CH!ReadItems, CH!management
    <3> QED BY <2>1, <3>1, CHStayKept
  <2>14. CHDeletes'
    <3>1. UNCHANGED folder
          BY <1>14 DEF CH!ReadItems, CH!management
    <3> QED BY <2>1, <3>1, CHStayKept
  <2> QED BY <2>11, <2>12, <2>13, <2>14
<1>15. ASSUME NEW r \in Requests, CH!WriteProgress(r)
      PROVE  CHAlone' /\ CHItems' /\ CHCounts' /\ CHFolders' /\ CHDeletes'
  <2> HIDE DEF CH!TypeOK, CH!HandlersTypeOK, CH!ChecklistRow, CH!ItemRow, CH!FolderRow,
           CH!Running, CH!ChecklistStatuses, CH!ItemStatuses,
               CH!management, CH!Found, CH!FolderFound, CH!Present, CH!At, CH!Start, CH!Once,
               CH!Goto, CH!Finish, CH!Absent, CH!Gone, CH!Idle,
               CH!Handled
  <2>1. CHStays(r) /\ request[r] # CH!Idle
        BY <1>15, CHWays DEF CHInv
  <2>11. CHAlone'
        BY <2>1, CHStayAlone
  <2>12. CHItems' /\ CHCounts'
    <3>1. UNCHANGED <<listed, uncounted>> /\ CH!At(r, "writeProgress") /\ request'[r] = CH!Idle
          BY <1>15, CHWays DEF CH!WriteProgress, CHInv
    <3>2. PICK k : k = request[r].on
          OBVIOUS
    <3>3. k \in Parts /\ request[r].row \in CH!ChecklistRow
          BY <3>1, <3>2, CHOn DEF CHInv, CH!At
    <3>4. /\ \A e \in Parts \ {k} : checklist'[e] = checklist[e]
          /\ CH!Found(k) => checklist'[k] = request[r].row
          /\ ~CH!Found(k) => checklist'[k] = checklist[k]
          BY <1>15, <3>2, <3>3 DEF CH!WriteProgress, CHInv, CH!TypeOK
    <3>5. \A e \in Parts : CH!Found(e)' <=> CH!Found(e)
          BY <3>3, <3>4, CHRows DEF CH!Found
    <3>6. CHItems'
      <4>1. \A j \in Rows : CH!Present(listed[j]) => CH!Found(listed[j].of) /\ listed[j].of \in Parts
            BY CHRows DEF CHInv, CHItems
      <4>2. \A j \in Rows : CH!Present(listed'[j]) => CH!Found(listed[j].of)'
            BY <3>1, <3>5, <4>1
      <4>3. request'[r].pc \notin {"updateItem", "deleteItem"}
            BY <3>1 DEF CH!Idle
      <4> QED BY <2>1, <3>1, <4>2, <4>3, CHItemsKept
    <3>7. CH!Progress(CH!ItemsOf(k))' = CH!Progress(CH!ItemsOf(k)) /\ \A i \in Rows : listed'[i] = listed[i]
          BY <3>1, CHItemsSame
    <3>8. k \in Parts \ (raced \cup uncounted) => request[r].row = CH!Progress(CH!ItemsOf(k))
          BY <3>1, <3>2 DEF CHInv, CHCounts
    <3>9. ~CH!At(r, "writeProgress")'
          BY <3>1 DEF CH!At, CH!Idle
    <3>10. CHCounts'
          BY <2>1, <3>1, <3>2, <3>4, <3>5, <3>7, <3>8, <3>9, CHOthers
    <3> QED BY <3>6, <3>10
  <2>13. CHFolders'
    <3>1. UNCHANGED folder
          BY <1>15 DEF CH!WriteProgress, CH!management
    <3> QED BY <2>1, <3>1, CHStayKept
  <2>14. CHDeletes'
    <3>1. UNCHANGED folder
          BY <1>15 DEF CH!WriteProgress, CH!management
    <3> QED BY <2>1, <3>1, CHStayKept
  <2> QED BY <2>11, <2>12, <2>13, <2>14
<1>16. ASSUME NEW r \in Requests, CH!InsertFolder(r)
      PROVE  CHAlone' /\ CHItems' /\ CHCounts' /\ CHFolders' /\ CHDeletes'
  <2> HIDE DEF CH!TypeOK, CH!HandlersTypeOK, CH!ChecklistRow, CH!ItemRow, CH!FolderRow,
           CH!Running, CH!ChecklistStatuses, CH!ItemStatuses,
               CH!management, CH!Found, CH!FolderFound, CH!Present, CH!At, CH!Start, CH!Once,
               CH!Goto, CH!Finish, CH!Absent, CH!Gone, CH!Idle,
               CH!Handled
  <2>1. CHStays(r) /\ request[r] # CH!Idle
        BY <1>16, CHWays DEF CHInv
  <2>11. CHAlone'
        BY <2>1, CHStayAlone
  <2>12. CHItems' /\ CHCounts'
    <3>1. UNCHANGED <<checklist, listed>> /\ uncounted \subseteq uncounted' /\ request'[r].pc \notin {"updateItem", "deleteItem", "writeProgress"}
      <4>1. request'[r] = CH!Idle \/ request'[r].pc = "readItems"
            BY <1>16, CHWays DEF CHInv
      <4>2. request'[r].pc \in {"idle", "readItems"}
            BY <4>1 DEF CH!Idle
      <4>3. UNCHANGED <<checklist, listed>> /\ uncounted \subseteq uncounted'
            BY <1>16 DEF CH!InsertFolder, CH!management
      <4> QED BY <4>2, <4>3
    <3>2. CHRecalculating(r) => request[r].on \in uncounted'
          BY <1>16 DEF CH!InsertFolder, CHRecalculating, CH!At
    <3> QED BY <2>1, <3>1, <3>2, CHStayKept
  <2>13. CHFolders'
    <3>1. PICK f \in Rows : f = request[r].on /\ CH!At(r, "insertFolder")
          BY <1>16, CHOn DEF CH!InsertFolder, CHInv, CH!At
    <3>2. PICK row : row = request[r].row
          OBVIOUS
    <3>5. \A q \in Requests : CH!At(q, "insertFolder")' => request'[q] = request[q] /\ q # r /\ CH!At(q, "insertFolder")
          BY <1>16, <2>1, CHWays DEF CHStays, CHInv, CH!At, CH!Idle
    <3>3. /\ folder[f] = CH!Absent /\ CHBelow(row) /\ row \in CH!FolderRow /\ row.parent \in Rows \cup {None} /\ row.parent # f /\ row # CH!Absent
          /\ \A q \in Requests : CH!At(q, "insertFolder") /\ request[q].on = f => q = r
          BY <1>16, <3>1, <3>2, CHOn, CHRows, NoneAssumption DEF CHInv, CHFolders, CHBelow,
             CH!FolderRow, CH!InsertFolder
    <3>4. folder' = [folder EXCEPT ![f] = row]
          BY <1>16, <3>1, <3>2 DEF CH!InsertFolder
    <3> QED BY <3>1, <3>2, <3>3, <3>4, <3>5, CHRows, CHFoldersMove
  <2>14. CHDeletes'
    <3>1. \A g \in Rows : folder[g] # CH!Absent => folder'[g] # CH!Absent
          BY <1>16, CHOn, CHRows DEF CH!InsertFolder, CHInv, CH!TypeOK
    <3> QED BY <2>1, <3>1, CHStayKept
  <2> QED BY <2>11, <2>12, <2>13, <2>14
<1>17. ASSUME NEW r \in Requests, CH!UpdateFolder(r)
      PROVE  CHAlone' /\ CHItems' /\ CHCounts' /\ CHFolders' /\ CHDeletes'
  <2> HIDE DEF CH!TypeOK, CH!HandlersTypeOK, CH!ChecklistRow, CH!ItemRow, CH!FolderRow,
           CH!Running, CH!ChecklistStatuses, CH!ItemStatuses,
               CH!management, CH!Found, CH!FolderFound, CH!Present, CH!At, CH!Start, CH!Once,
               CH!Goto, CH!Finish, CH!Absent, CH!Gone, CH!Idle,
               CH!Handled
  <2>1. CHStays(r) /\ request[r] # CH!Idle
        BY <1>17, CHWays DEF CHInv
  <2>11. CHAlone'
        BY <2>1, CHStayAlone
  <2>12. CHItems' /\ CHCounts'
    <3>1. UNCHANGED <<checklist, listed>> /\ uncounted \subseteq uncounted' /\ request'[r].pc \notin {"updateItem", "deleteItem", "writeProgress"}
      <4>1. request'[r] = CH!Idle \/ request'[r].pc = "readItems"
            BY <1>17, CHWays DEF CHInv
      <4>2. request'[r].pc \in {"idle", "readItems"}
            BY <4>1 DEF CH!Idle
      <4>3. UNCHANGED <<checklist, listed>> /\ uncounted \subseteq uncounted'
            BY <1>17 DEF CH!UpdateFolder, CH!management
      <4> QED BY <4>2, <4>3
    <3>2. CHRecalculating(r) => request[r].on \in uncounted'
          BY <1>17 DEF CH!UpdateFolder, CHRecalculating, CH!At
    <3> QED BY <2>1, <3>1, <3>2, CHStayKept
  <2>13. CHFolders'
    <3>1. PICK f \in Rows : f = request[r].on /\ CH!At(r, "updateFolder")
          BY <1>17, CHOn DEF CH!UpdateFolder, CHInv, CH!At
    <3>2. PICK row : row = IF CH!FolderFound(f) THEN [folder[f] EXCEPT !.name = request[r].name] ELSE folder[f]
          OBVIOUS
    <3>5. \A q \in Requests : CH!At(q, "insertFolder")' => request'[q] = request[q] /\ q # r /\ CH!At(q, "insertFolder")
          BY <1>17, <2>1, CHWays DEF CHStays, CHInv, CH!At, CH!Idle
    <3>3. CASE ~CH!FolderFound(f)
      <4>1. UNCHANGED folder
            BY <1>17, <3>1, <3>3 DEF CH!UpdateFolder
      <4> QED BY <3>5, <4>1, CHFoldersKept
    <3>4. CASE CH!FolderFound(f)
      <4>1. row = [folder[f] EXCEPT !.name = request[r].name] /\ folder' = [folder EXCEPT ![f] = row]
            BY <1>17, <3>1, <3>2, <3>4 DEF CH!UpdateFolder, CHInv, CH!TypeOK
      <4>2. folder[f] \in CH!FolderRow /\ CHBelow(folder[f]) /\ folder[f].parent # f
            BY <3>1, <3>4, CHRows DEF CHInv, CHFolders
      <4>3. row.parent = folder[f].parent /\ row.path = folder[f].path /\ row \in CH!FolderRow
            BY <1>17, <4>1, <4>2, CHOn DEF CH!FolderRow, CH!UpdateFolder, CHInv
      <4>4. CHBelow(row) /\ row.parent \in Rows \cup {None} /\ row # CH!Absent
            BY <4>2, <4>3, CHRows DEF CHBelow, CH!FolderRow
      <4>5. \A q \in Requests : CH!At(q, "insertFolder") => request[q].on # f
            BY <3>4, CHRows DEF CHInv, CHFolders, CH!FolderFound
      <4> QED BY ZenonT(30), <3>1, <3>4, <3>5, <4>1, <4>2, <4>3, <4>4, <4>5, CHFoldersMove
    <3> QED BY <3>3, <3>4
  <2>14. CHDeletes'
    <3>1. \A g \in Rows : folder[g] # CH!Absent => folder'[g] # CH!Absent
          BY <1>17, CHOn, CHRows DEF CH!UpdateFolder, CHInv, CH!TypeOK, CH!FolderFound,
             CH!FolderRow
    <3> QED BY <2>1, <3>1, CHStayKept
  <2> QED BY <2>11, <2>12, <2>13, <2>14
<1>18. ASSUME NEW r \in Requests, CH!DeleteFolder(r)
      PROVE  CHAlone' /\ CHItems' /\ CHCounts' /\ CHFolders' /\ CHDeletes'
  <2> HIDE DEF CH!TypeOK, CH!HandlersTypeOK, CH!ChecklistRow, CH!ItemRow, CH!FolderRow,
           CH!Running, CH!ChecklistStatuses, CH!ItemStatuses,
               CH!management, CH!Found, CH!FolderFound, CH!Present, CH!At, CH!Start, CH!Once,
               CH!Goto, CH!Finish, CH!Absent, CH!Gone, CH!Idle,
               CH!Handled
  <2>1. CHStays(r) /\ request[r] # CH!Idle
        BY <1>18, CHWays DEF CHInv
  <2>11. CHAlone'
        BY <2>1, CHStayAlone
  <2>12. CHItems' /\ CHCounts'
    <3>1. UNCHANGED <<checklist, listed>> /\ uncounted \subseteq uncounted' /\ request'[r].pc \notin {"updateItem", "deleteItem", "writeProgress"}
      <4>1. request'[r] = CH!Idle \/ request'[r].pc = "readItems"
            BY <1>18, CHWays DEF CHInv
      <4>2. request'[r].pc \in {"idle", "readItems"}
            BY <4>1 DEF CH!Idle
      <4>3. UNCHANGED <<checklist, listed>> /\ uncounted \subseteq uncounted'
            BY <1>18 DEF CH!DeleteFolder, CH!management
      <4> QED BY <4>2, <4>3
    <3>2. CHRecalculating(r) => request[r].on \in uncounted'
          BY <1>18 DEF CH!DeleteFolder, CHRecalculating, CH!At
    <3> QED BY <2>1, <3>1, <3>2, CHStayKept
  <2>13. CHFolders'
    <3>1. PICK f \in Rows : f = request[r].on /\ CH!At(r, "deleteFolder")
          BY <1>18, CHOn DEF CH!DeleteFolder, CHInv, CH!At
    <3>2. PICK row : row = CH!Gone
          OBVIOUS
    <3>5. \A q \in Requests : CH!At(q, "insertFolder")' => request'[q] = request[q] /\ q # r /\ CH!At(q, "insertFolder")
          BY <1>18, <2>1, CHWays DEF CHStays, CHInv, CH!At, CH!Idle
    <3>3. folder[f] # CH!Absent
          BY <3>1 DEF CHInv, CHDeletes
    <3>4. folder' = [folder EXCEPT ![f] = row]
          BY <1>18, <3>1, <3>2 DEF CH!DeleteFolder
    <3>6. \A q \in Requests : CH!At(q, "insertFolder")' => request'[q] = request[q] /\ request[q].on # f
          BY <3>3, <3>5 DEF CHInv, CHFolders
    <3>7. ~CH!Present(row) /\ row # CH!Absent
          BY <3>2, CHRows
    <3> QED BY <3>1, <3>2, <3>3, <3>4, <3>5, <3>6, <3>7, CHRows, CHFoldersMove
  <2>14. CHDeletes'
    <3>1. \A g \in Rows : folder[g] # CH!Absent => folder'[g] # CH!Absent
          BY <1>18, CHRows DEF CH!DeleteFolder, CHInv, CH!TypeOK
    <3> QED BY <2>1, <3>1, CHStayKept
  <2> QED BY <2>11, <2>12, <2>13, <2>14
<1>19. ASSUME NEW r \in Requests, CH!Abort(r)
      PROVE  CHAlone' /\ CHItems' /\ CHCounts' /\ CHFolders' /\ CHDeletes'
  <2> HIDE DEF CH!TypeOK, CH!HandlersTypeOK, CH!ChecklistRow, CH!ItemRow, CH!FolderRow,
           CH!Running, CH!ChecklistStatuses, CH!ItemStatuses,
               CH!management, CH!Found, CH!FolderFound, CH!Present, CH!At, CH!Start, CH!Once,
               CH!Goto, CH!Finish, CH!Absent, CH!Gone, CH!Idle,
               CH!Handled
  <2>1. CHStays(r) /\ request[r] # CH!Idle
        BY <1>19, CHWays DEF CHInv
  <2>11. CHAlone'
        BY <2>1, CHStayAlone
  <2>12. CHItems' /\ CHCounts'
    <3>1. UNCHANGED <<checklist, listed>> /\ uncounted \subseteq uncounted' /\ request'[r].pc \notin {"updateItem", "deleteItem", "writeProgress"}
      <4>1. request'[r] = CH!Idle \/ request'[r].pc = "readItems"
            BY <1>19, CHWays DEF CHInv
      <4>2. request'[r].pc \in {"idle", "readItems"}
            BY <4>1 DEF CH!Idle
      <4>3. UNCHANGED <<checklist, listed>> /\ uncounted \subseteq uncounted'
            BY <1>19 DEF CH!Abort, CH!management
      <4> QED BY <4>2, <4>3
    <3>2. CHRecalculating(r) => request[r].on \in uncounted'
          BY <1>19 DEF CH!Abort, CHRecalculating, CH!At
    <3> QED BY <2>1, <3>1, <3>2, CHStayKept
  <2>13. CHFolders'
    <3>1. UNCHANGED folder
          BY <1>19 DEF CH!Abort, CH!management
    <3> QED BY <2>1, <3>1, CHStayKept
  <2>14. CHDeletes'
    <3>1. UNCHANGED folder
          BY <1>19 DEF CH!Abort, CH!management
    <3> QED BY <2>1, <3>1, CHStayKept
  <2> QED BY <2>11, <2>12, <2>13, <2>14
<1>20. CASE UNCHANGED CH!vars
  <2> HIDE DEF CH!TypeOK, CH!HandlersTypeOK, CH!ChecklistRow, CH!ItemRow, CH!FolderRow,
           CH!Running, CH!ChecklistStatuses, CH!ItemStatuses, CH!management, CH!Found,
           CH!FolderFound, CH!Present, CH!At, CH!Start, CH!Once, CH!Goto, CH!Finish, CH!Absent,
           CH!Gone, CH!Idle, CH!Handled
  <2>1. UNCHANGED <<checklist, listed, folder, uncounted, request, raced>>
        BY <1>20 DEF CH!vars
  <2>2. CHItems' /\ CHCounts'
        BY <2>1, CHChecklistsKept DEF CHRecalculating
  <2>3. CHFolders'
        BY <2>1, CHFoldersKept
  <2>4. CHAlone' /\ CHDeletes'
        BY <2>1 DEF CHInv, CHAlone, CHDeletes, CH!At
  <2> QED BY <2>2, <2>3, <2>4
<1> HIDE DEF CH!TypeOK, CH!HandlersTypeOK, CH!ChecklistRow, CH!ItemRow, CH!FolderRow,
         CH!Running, CH!ChecklistStatuses, CH!ItemStatuses,
             CH!management, CH!Found, CH!FolderFound, CH!Present, CH!At, CH!Start, CH!Once,
             CH!Goto, CH!Finish, CH!Absent, CH!Gone, CH!Idle,
             CHInv, CH!Handled
<1> QED BY <1>1, <1>2, <1>3, <1>4, <1>5, <1>6, <1>7, <1>8, <1>9, <1>10, <1>11, <1>12, <1>13,
           <1>14, <1>15, <1>16, <1>17, <1>18, <1>19, <1>20 DEF CH!Next

\* What the invariant says of the progress and of the paths.
LEMMA CHTells == CHInv => CH!ProgressTells /\ CH!PathBelowParent
<1> SUFFICES ASSUME CHInv PROVE CH!ProgressTells /\ CH!PathBelowParent
    OBVIOUS
<1>1. ASSUME NEW k \in Parts \ (raced \cup uncounted), CH!Found(k), ~CH!Handled(k)
      PROVE  LET open == {i \in CH!ItemsOf(k) : listed[i].status \in {"REQUIRED", "REJECTED"}} IN
             /\ checklist[k].totalItems = CH!Cardinality(CH!ItemsOf(k))
             /\ checklist[k].completedItems = CH!Cardinality(CH!ItemsOf(k)) - CH!Cardinality(open)
             /\ checklist[k].status = "COMPLETE" <=> CH!ItemsOf(k) # {} /\ open = {}
  <2> DEFINE open == {i \in CH!ItemsOf(k) : listed[i].status \in {"REQUIRED", "REJECTED"}}
             done == {i \in CH!ItemsOf(k) : listed[i].status \in CH!DoneStatuses}
  <2>1. \A r \in Requests : CHRecalculating(r) => request[r].on # k
        BY <1>1 DEF CH!Handled, CHRecalculating, CH!Idle
  <2>2. checklist[k] = CH!Progress(CH!ItemsOf(k))
        BY <1>1, <2>1 DEF CHInv, CHCounts
  <2>3. \A i \in CH!ItemsOf(k) : listed[i].status \in CH!ItemStatuses
        BY CHRows DEF CH!ItemsOf, CH!ItemRow, CHInv
  <2>4. done = CH!ItemsOf(k) \ open /\ open \subseteq CH!ItemsOf(k)
        BY <2>3 DEF CH!ItemStatuses, CH!DoneStatuses
  <2>5. IsFiniteSet(CH!ItemsOf(k)) /\ IsFiniteSet(open)
        BY FiniteAssumption, CHCardinality, FS_Subset DEF CH!ItemsOf
  <2>6. PICK t, n, o : t = CH!Cardinality(CH!ItemsOf(k)) /\ n = CH!Cardinality(done) /\ o = CH!Cardinality(open)
        OBVIOUS
  <2>7. t \in Nat /\ n \in Nat /\ o \in Nat /\ n = t - o
    <3>1. CH!ItemsOf(k) \cap open = open
          BY <2>4
    <3> QED BY ZenonT(30), <2>4, <2>5, <2>6, <3>1, CHCardinality, FS_Difference,
               FS_CardinalityType
  <2>8. (t = 0 <=> CH!ItemsOf(k) = {}) /\ (o = 0 <=> open = {})
        BY <2>5, <2>6, CHCardinality, FS_EmptySet
  <2>9. checklist[k] = [totalItems |-> t, completedItems |-> n,
                        status |-> CASE t > 0 /\ n = t -> "COMPLETE"
                                     [] n > 0 /\ n < t -> "IN_PROGRESS"
                                     [] OTHER -> "PENDING"]
        BY <2>2, <2>6 DEF CH!Progress
  <2>10. checklist[k].status = "COMPLETE" <=> t > 0 /\ n = t
         BY <2>7, <2>9
  <2>11. checklist[k].totalItems = t /\ checklist[k].completedItems = t - o
         BY <2>7, <2>9
  <2> HIDE DEF open, done
  <2>12. checklist[k].status = "COMPLETE" <=> CH!ItemsOf(k) # {} /\ open = {}
         BY <2>7, <2>8, <2>10
  <2> QED BY <2>6, <2>11, <2>12 DEF open
<1>2. CH!ProgressTells
      BY <1>1 DEF CH!ProgressTells
<1>3. CH!PathBelowParent
      BY DEF CH!PathBelowParent, CHInv, CHFolders, CHBelow
<1> QED BY <1>2, <1>3

\* Every step keeps the invariant.
LEMMA CHInvStep == ASSUME CHInv, [CH!Next]_CH!vars PROVE CHInv'
BY CHTypeStep, CHRestStep DEF CHInv

(***************************************************************************)
(* The warehouse.                                                          *)
(***************************************************************************)

\* What is to be written is a cancellation, of a movement that is there.
WHCancels ==
    \A r \in Requests : WH!At(r, "updateMovement") =>
        request[r].on \in Parts /\ WH!Recorded(request[r].on) /\ request[r].status = "CANCELLED"

WHZones == \A z \in Parts : WH!Present(zone[z]) => WH!OpenWarehouse(zone[z].in)
WHGoods == \A g \in Others : WH!InStore(g) => WH!OpenWarehouse(good[g].in) /\ WH!ZoneExists(good[g].zone)
WHMovements ==
    \A m \in Parts : WH!Recorded(m) => WH!OpenWarehouse(movement[m].in) /\ WH!GoodExists(movement[m].of)

WHInv == WH!TypeOK /\ WHCancels /\ WH!NoMovementCompletes /\ WH!EverythingHasItsPlace

WHGoes(r, h) == request'[r] = h /\ \A q \in Requests \ {r} : request'[q] = request[q]

\* The warehouse is empty at first.
LEMMA WHStart == WH!Init => WHInv
<1> SUFFICES ASSUME WH!Init PROVE WHInv
    OBVIOUS
<1>1. WH!TypeOK
      BY StartedAssumption DEF WH!Init, WH!HandlersInit, WH!TypeOK, WH!HandlersTypeOK
<1> QED BY <1>1 DEF WH!Init, WH!HandlersInit, WHInv, WHCancels, WH!NoMovementCompletes,
           WH!EverythingHasItsPlace,
             WH!OpenWarehouse, WH!InStore, WH!Recorded, WH!Present, WH!At, WH!Idle

\* Rows that are there are neither absent nor gone.
LEMMA WHRows ==
    /\ \A x \in WH!MovementRow : x \notin {WH!Absent, WH!Gone}
    /\ \A x \in WH!GoodRow : x \notin {WH!Absent, WH!Gone}
BY DEF WH!MovementRow, WH!GoodRow, WH!Absent, WH!Gone

\* Every step keeps the types.
LEMMA WHTypeStep ==
    ASSUME WHInv, [WH!Next]_WH!vars
    PROVE  WH!TypeOK'
<1> USE StartedAssumption DEF WH!TypeOK, WH!HandlersTypeOK, WH!MovementStatuses,
        WH!WarehouseRow, WH!ZoneRow, WH!GoodRow, WH!MovementRow, WH!AllIds, WH!Running,
            WH!stores, WH!OpenWarehouse, WH!InStore, WH!Recorded, WH!ZoneExists, WH!GoodExists,
            WH!Present, WH!At, WH!Start, WH!Once, WH!Goto, WH!Finish, WH!Absent, WH!Gone,
            WH!Idle,
            WHInv
<1>1. ASSUME NEW r \in Requests, NEW w \in Rows, WH!CreateWarehouse(r, w)
      PROVE  WH!TypeOK'
      BY <1>1 DEF WH!CreateWarehouse
<1>2. ASSUME NEW r \in Requests, NEW w \in Rows, WH!BeginOnWarehouse(r, w)
      PROVE  WH!TypeOK'
      BY <1>2 DEF WH!BeginOnWarehouse
<1>3. ASSUME NEW r \in Requests, NEW w \in Rows, NEW z \in Parts, WH!BeginOnZone(r, w, z)
      PROVE  WH!TypeOK'
      BY <1>3 DEF WH!BeginOnZone
<1>4. ASSUME NEW r \in Requests, NEW w \in Rows, NEW n \in Parts \cup {None},
             WH!BeginCreateGood(r, w, n)
      PROVE  WH!TypeOK'
      BY <1>4 DEF WH!BeginCreateGood
<1>5. ASSUME NEW r \in Requests, NEW w \in Rows, NEW k \in Others \cup {None},
             WH!BeginCreateMovement(r, w, k)
      PROVE  WH!TypeOK'
      BY <1>5 DEF WH!BeginCreateMovement
<1>6. ASSUME NEW r \in Requests, NEW z \in Parts, WH!InsertZone(r, z)
      PROVE  WH!TypeOK'
      BY <1>6 DEF WH!InsertZone
<1>7. ASSUME NEW r \in Requests, NEW g \in Others, WH!InsertGood(r, g)
      PROVE  WH!TypeOK'
      BY <1>7 DEF WH!InsertGood
<1>8. ASSUME NEW r \in Requests, NEW g \in Others, WH!BeginDeleteGood(r, g)
      PROVE  WH!TypeOK'
      BY <1>8 DEF WH!BeginDeleteGood
<1>9. ASSUME NEW r \in Requests, NEW g \in Others, NEW n \in Parts \cup {None}, WH!BeginUpdateGood(r,
             g, n)
      PROVE  WH!TypeOK'
      BY <1>9 DEF WH!BeginUpdateGood
<1>10. ASSUME NEW r \in Requests, NEW m \in Parts, WH!InsertMovement(r, m)
      PROVE  WH!TypeOK'
      BY <1>10 DEF WH!InsertMovement
<1>11. ASSUME NEW r \in Requests, NEW m \in Parts, WH!BeginComplete(r, m)
      PROVE  WH!TypeOK'
      BY <1>11 DEF WH!BeginComplete
<1>12. ASSUME NEW r \in Requests, NEW m \in Parts, WH!BeginCancel(r, m)
      PROVE  WH!TypeOK'
      BY <1>12 DEF WH!BeginCancel
<1>13. ASSUME NEW r \in Requests, WH!UpdateWarehouse(r)
      PROVE  WH!TypeOK'
      BY <1>13 DEF WH!UpdateWarehouse
<1>14. ASSUME NEW r \in Requests, WH!DeleteWarehouse(r)
      PROVE  WH!TypeOK'
      BY <1>14 DEF WH!DeleteWarehouse
<1>15. ASSUME NEW r \in Requests, WH!FindZone(r)
      PROVE  WH!TypeOK'
  <2> HIDE DEF WH!TypeOK, WH!HandlersTypeOK, WH!MovementStatuses, WH!WarehouseRow, WH!ZoneRow,
           WH!GoodRow, WH!MovementRow, WH!AllIds, WH!Running,
               WH!stores, WH!OpenWarehouse, WH!InStore, WH!Recorded, WH!ZoneExists,
               WH!GoodExists, WH!Present, WH!At, WH!Start, WH!Once, WH!Goto, WH!Finish,
               WH!Absent, WH!Gone, WH!Idle
  <2> DEFINE q == request[r]
             pc == IF q.pc = "findZoneToUpdate" THEN "updateZone" ELSE "deleteZone"
  <2>1. q \in [pc : {"findZoneToUpdate", "findZoneToDelete"}, on : Parts, in : Rows]
        BY <1>15 DEF WH!FindZone, WH!At, WH!TypeOK, WH!HandlersTypeOK, WH!Running, WH!Idle,
           WHInv
  <2>2. [q EXCEPT !.pc = pc] \in [pc : {"updateZone", "deleteZone"}, on : Parts, in : Rows]
        BY <2>1
  <2>3. request' = [request EXCEPT ![r] = [q EXCEPT !.pc = pc]] \/ request' = [request EXCEPT ![r] = WH!Idle]
        BY <1>15, <2>1 DEF WH!FindZone, WH!Goto, WH!Finish
  <2> HIDE DEF pc, q
  <2>4. request' \in [Requests -> WH!Running \cup {WH!Idle}]
        BY <2>2, <2>3 DEF WH!TypeOK, WH!HandlersTypeOK, WH!Running, WHInv
  <2> QED BY <1>15, <2>4 DEF WH!FindZone, WH!Goto, WH!Finish, WH!TypeOK, WH!HandlersTypeOK,
             WH!stores, WHInv
<1>16. ASSUME NEW r \in Requests, WH!UpdateZone(r)
      PROVE  WH!TypeOK'
      BY <1>16 DEF WH!UpdateZone
<1>17. ASSUME NEW r \in Requests, WH!DeleteZone(r)
      PROVE  WH!TypeOK'
      BY <1>17 DEF WH!DeleteZone
<1>18. ASSUME NEW r \in Requests, WH!UpdateGood(r)
      PROVE  WH!TypeOK'
  <2> HIDE DEF WH!TypeOK, WH!HandlersTypeOK, WH!MovementStatuses, WH!WarehouseRow, WH!ZoneRow,
           WH!GoodRow, WH!MovementRow, WH!AllIds, WH!Running,
               WH!stores, WH!OpenWarehouse, WH!InStore, WH!Recorded, WH!ZoneExists,
               WH!GoodExists, WH!Present, WH!At, WH!Start, WH!Once, WH!Goto, WH!Finish,
               WH!Absent, WH!Gone, WH!Idle
  <2>1. request[r].on \in Others /\ request[r].zone \in Parts \cup {None}
    <3>1. request[r] \in WH!Running /\ request[r].pc = "updateGood"
          BY <1>18 DEF WH!UpdateGood, WH!At, WH!TypeOK, WH!HandlersTypeOK, WH!Idle, WHInv
    <3> QED BY <3>1 DEF WH!Running
  <2>2. WH!InStore(request[r].on) => [good[request[r].on] EXCEPT !.zone = request[r].zone] \in WH!GoodRow
        BY <2>1 DEF WHInv, WH!InStore, WH!Present, WH!TypeOK, WH!GoodRow
  <2> QED BY <1>18, <2>1, <2>2 DEF WH!UpdateGood, WH!Goto, WH!Finish, WH!TypeOK,
             WH!HandlersTypeOK, WHInv
<1>19. ASSUME NEW r \in Requests, WH!DeleteGood(r)
      PROVE  WH!TypeOK'
      BY <1>19 DEF WH!DeleteGood
<1>20. ASSUME NEW r \in Requests, WH!UpdateMovement(r)
      PROVE  WH!TypeOK'
  <2> HIDE DEF WH!TypeOK, WH!HandlersTypeOK, WH!MovementStatuses, WH!WarehouseRow, WH!ZoneRow,
           WH!GoodRow, WH!MovementRow, WH!AllIds, WH!Running,
               WH!stores, WH!OpenWarehouse, WH!InStore, WH!Recorded, WH!ZoneExists,
               WH!GoodExists, WH!Present, WH!At, WH!Start, WH!Once, WH!Goto, WH!Finish,
               WH!Absent, WH!Gone, WH!Idle
  <2>1. request[r].on \in Parts /\ request[r].status \in WH!MovementStatuses
    <3>1. request[r] \in WH!Running /\ request[r].pc = "updateMovement"
          BY <1>20 DEF WH!UpdateMovement, WH!At, WH!TypeOK, WH!HandlersTypeOK, WH!Idle, WHInv
    <3> QED BY <3>1 DEF WH!Running
  <2>2. movement[request[r].on] \in WH!MovementRow
        BY <1>20, <2>1 DEF WHInv, WHCancels, WH!UpdateMovement, WH!Recorded, WH!Present,
           WH!TypeOK
  <2>3. [movement[request[r].on] EXCEPT !.status = request[r].status] \in WH!MovementRow
        BY <2>1, <2>2 DEF WH!MovementRow
  <2> QED BY <1>20, <2>1, <2>3 DEF WH!UpdateMovement, WH!Goto, WH!Finish, WH!TypeOK,
             WH!HandlersTypeOK, WHInv
<1>21. ASSUME NEW r \in Requests, WH!Abort(r)
      PROVE  WH!TypeOK'
      BY <1>21 DEF WH!Abort, WH!Stop
<1>22. CASE UNCHANGED WH!vars
      BY <1>22 DEF WH!vars
<1> HIDE DEF WH!TypeOK, WH!HandlersTypeOK, WH!MovementStatuses, WH!WarehouseRow, WH!ZoneRow,
         WH!GoodRow, WH!MovementRow, WH!AllIds, WH!Running,
             WH!stores, WH!OpenWarehouse, WH!InStore, WH!Recorded, WH!ZoneExists, WH!GoodExists,
             WH!Present, WH!At, WH!Start, WH!Once, WH!Goto, WH!Finish, WH!Absent, WH!Gone,
             WH!Idle,
             WHInv
<1> QED BY <1>1, <1>2, <1>3, <1>4, <1>5, <1>6, <1>7, <1>8, <1>9, <1>10, <1>11, <1>12, <1>13,
           <1>14, <1>15, <1>16, <1>17, <1>18, <1>19, <1>20, <1>21, <1>22 DEF WH!Next

\* What finding a zone, and writing a movement or goods, do, in records.
LEMMA WHFound ==
    ASSUME WHInv, NEW r \in Requests, WH!FindZone(r)
    PROVE  /\ request'[r] = WH!Idle \/ request'[r].pc \in {"updateZone", "deleteZone"}
           /\ \A q \in Requests \ {r} : request'[q] = request[q]
<1>1. request[r] \in [pc : {"findZoneToUpdate", "findZoneToDelete"}, on : Parts, in : Rows]
      BY DEF WH!FindZone, WH!TypeOK, WH!HandlersTypeOK, WH!Running, WH!Idle, WHInv
<1> QED BY <1>1 DEF WH!FindZone, WH!Goto, WH!Finish, WH!TypeOK, WH!HandlersTypeOK, WHInv

\* A movement is of goods or of none.
LEMMA WHOf == WHInv => \A m \in Parts : WH!Recorded(m) => movement[m].of \in Others \cup {None}
BY DEF WHInv, WH!TypeOK, WH!MovementRow, WH!Recorded, WH!Present

WHUpdated(r) ==
    LET m == request[r].on IN
    /\ UNCHANGED <<warehouse, zone, good>> /\ WHGoes(r, WH!Idle) /\ m \in Parts
    /\ \A k \in Parts \ {m} : movement'[k] = movement[k]
    /\ WH!Present(movement[m]) /\ WH!Present(movement'[m])
    /\ movement'[m].status = "CANCELLED"
    /\ movement'[m].in = movement[m].in /\ movement'[m].of = movement[m].of

\* Updating a movement cancels it, and leaves what it moves.
LEMMA WHUpdate == ASSUME WHInv, NEW r \in Requests, WH!UpdateMovement(r) PROVE WHUpdated(r)
<1>1. request[r].on \in Parts /\ request[r].status = "CANCELLED"
  <2>1. request[r] \in WH!Running /\ request[r].pc = "updateMovement"
        BY DEF WH!UpdateMovement, WH!At, WH!TypeOK, WH!HandlersTypeOK, WH!Idle, WHInv
  <2> QED BY <2>1 DEF WH!Running, WHInv, WHCancels, WH!UpdateMovement
<1> DEFINE row == [movement[request[r].on] EXCEPT !.status = "CANCELLED"]
<1>2. movement[request[r].on] \in WH!MovementRow
      BY <1>1 DEF WHInv, WHCancels, WH!UpdateMovement, WH!Recorded, WH!Present, WH!TypeOK
<1>3. /\ row \in WH!MovementRow /\ row.status = "CANCELLED"
      /\ row.in = movement[request[r].on].in /\ row.of = movement[request[r].on].of
      BY <1>1, <1>2 DEF WH!MovementRow, WH!MovementStatuses
<1> HIDE DEF row
<1>4. movement' = [movement EXCEPT ![request[r].on] = row]
      BY <1>1 DEF WH!UpdateMovement, row
<1>5. WH!Present(row) /\ WH!Present(movement[request[r].on])
      BY <1>2, <1>3, WHRows DEF WH!Present
<1> QED BY <1>1, <1>3, <1>4, <1>5 DEF WH!UpdateMovement, WH!Finish, WH!Goto, WHGoes, WHUpdated,
           WHInv, WH!TypeOK, WH!HandlersTypeOK

WHMoved(r) ==
    LET g == request[r].on IN
    /\ UNCHANGED <<warehouse, zone, movement>> /\ WHGoes(r, WH!Idle)
    /\ \/ UNCHANGED good
       \/ /\ \A k \in Others \ {g} : good'[k] = good[k]
          /\ WH!Present(good[g]) /\ WH!Present(good'[g]) /\ g \in Others
          /\ good'[g].in = good[g].in /\ WH!ZoneExists(good'[g].zone)

\* Updating a good may move it, to a zone that exists.
LEMMA WHMove == ASSUME WHInv, NEW r \in Requests, WH!UpdateGood(r) PROVE WHMoved(r)
<1>1. request[r].on \in Others /\ request[r].zone \in Parts \cup {None}
  <2>1. request[r] \in WH!Running /\ request[r].pc = "updateGood"
        BY DEF WH!UpdateGood, WH!At, WH!TypeOK, WH!HandlersTypeOK, WH!Idle, WHInv
  <2> QED BY <2>1 DEF WH!Running
<1>2. CASE UNCHANGED good
      BY <1>2 DEF WH!UpdateGood, WH!Finish, WH!Goto, WHGoes, WHMoved, WHInv, WH!TypeOK,
         WH!HandlersTypeOK
<1>3. CASE WH!InStore(request[r].on) /\ WH!ZoneExists(request[r].zone)
           /\ good' = [good EXCEPT ![request[r].on].zone = request[r].zone]
  <2> DEFINE row == [good[request[r].on] EXCEPT !.zone = request[r].zone]
  <2>1. good[request[r].on] \in WH!GoodRow
        BY <1>1, <1>3 DEF WHInv, WH!InStore, WH!Present, WH!TypeOK
  <2>2. row \in WH!GoodRow /\ row.zone = request[r].zone /\ row.in = good[request[r].on].in
        BY <1>1, <2>1 DEF WH!GoodRow
  <2> HIDE DEF row
  <2>3. good' = [good EXCEPT ![request[r].on] = row]
        BY <1>1, <1>3 DEF row
  <2>4. WH!Present(row)
        BY <2>2, WHRows DEF WH!Present
  <2> QED BY <1>1, <1>3, <2>2, <2>3, <2>4 DEF WH!UpdateGood, WH!Finish, WH!Goto, WHGoes,
             WHMoved, WHInv, WH!TypeOK, WH!HandlersTypeOK, WH!InStore
<1> QED BY <1>2, <1>3 DEF WH!UpdateGood

\* Every step keeps everything in its place.
LEMMA WHRestStep ==
    ASSUME WHInv, [WH!Next]_WH!vars
    PROVE  WHCancels' /\ WH!NoMovementCompletes' /\ WHZones' /\ WHGoods' /\ WHMovements'
<1> USE DEF WH!TypeOK, WH!HandlersTypeOK, WH!MovementStatuses, WH!WarehouseRow, WH!ZoneRow,
        WH!GoodRow, WH!MovementRow, WH!AllIds, WH!Running,
            WH!stores, WH!OpenWarehouse, WH!InStore, WH!Recorded, WH!ZoneExists, WH!GoodExists,
            WH!Present, WH!At, WH!Start, WH!Once, WH!Goto, WH!Finish, WH!Absent, WH!Gone,
            WH!Idle,
            WHInv, WHCancels, WH!NoMovementCompletes, WH!EverythingHasItsPlace, WHZones,
            WHGoods, WHMovements, WH!Transitions, WH!Refers
<1>1. ASSUME NEW r \in Requests, NEW w \in Rows, WH!CreateWarehouse(r, w)
      PROVE  WHCancels' /\ WH!NoMovementCompletes' /\ WHZones' /\ WHGoods' /\ WHMovements'
      BY <1>1 DEF WH!CreateWarehouse
<1>2. ASSUME NEW r \in Requests, NEW w \in Rows, WH!BeginOnWarehouse(r, w)
      PROVE  WHCancels' /\ WH!NoMovementCompletes' /\ WHZones' /\ WHGoods' /\ WHMovements'
      BY <1>2 DEF WH!BeginOnWarehouse
<1>3. ASSUME NEW r \in Requests, NEW w \in Rows, NEW z \in Parts, WH!BeginOnZone(r, w, z)
      PROVE  WHCancels' /\ WH!NoMovementCompletes' /\ WHZones' /\ WHGoods' /\ WHMovements'
      BY <1>3 DEF WH!BeginOnZone
<1>4. ASSUME NEW r \in Requests, NEW w \in Rows, NEW n \in Parts \cup {None},
             WH!BeginCreateGood(r, w, n)
      PROVE  WHCancels' /\ WH!NoMovementCompletes' /\ WHZones' /\ WHGoods' /\ WHMovements'
      BY <1>4 DEF WH!BeginCreateGood
<1>5. ASSUME NEW r \in Requests, NEW w \in Rows, NEW k \in Others \cup {None},
             WH!BeginCreateMovement(r, w, k)
      PROVE  WHCancels' /\ WH!NoMovementCompletes' /\ WHZones' /\ WHGoods' /\ WHMovements'
      BY <1>5 DEF WH!BeginCreateMovement
<1>6. ASSUME NEW r \in Requests, NEW z \in Parts, WH!InsertZone(r, z)
      PROVE  WHCancels' /\ WH!NoMovementCompletes' /\ WHZones' /\ WHGoods' /\ WHMovements'
      BY <1>6 DEF WH!InsertZone
<1>7. ASSUME NEW r \in Requests, NEW g \in Others, WH!InsertGood(r, g)
      PROVE  WHCancels' /\ WH!NoMovementCompletes' /\ WHZones' /\ WHGoods' /\ WHMovements'
      BY <1>7 DEF WH!InsertGood
<1>8. ASSUME NEW r \in Requests, NEW g \in Others, WH!BeginDeleteGood(r, g)
      PROVE  WHCancels' /\ WH!NoMovementCompletes' /\ WHZones' /\ WHGoods' /\ WHMovements'
      BY <1>8 DEF WH!BeginDeleteGood
<1>9. ASSUME NEW r \in Requests, NEW g \in Others, NEW n \in Parts \cup {None}, WH!BeginUpdateGood(r,
             g, n)
      PROVE  WHCancels' /\ WH!NoMovementCompletes' /\ WHZones' /\ WHGoods' /\ WHMovements'
      BY <1>9 DEF WH!BeginUpdateGood
<1>10. ASSUME NEW r \in Requests, NEW m \in Parts, WH!InsertMovement(r, m)
      PROVE  WHCancels' /\ WH!NoMovementCompletes' /\ WHZones' /\ WHGoods' /\ WHMovements'
      BY <1>10 DEF WH!InsertMovement
<1>11. ASSUME NEW r \in Requests, NEW m \in Parts, WH!BeginComplete(r, m)
      PROVE  WHCancels' /\ WH!NoMovementCompletes' /\ WHZones' /\ WHGoods' /\ WHMovements'
      BY <1>11 DEF WH!BeginComplete
<1>12. ASSUME NEW r \in Requests, NEW m \in Parts, WH!BeginCancel(r, m)
      PROVE  WHCancels' /\ WH!NoMovementCompletes' /\ WHZones' /\ WHGoods' /\ WHMovements'
      BY <1>12 DEF WH!BeginCancel
<1>13. ASSUME NEW r \in Requests, WH!UpdateWarehouse(r)
      PROVE  WHCancels' /\ WH!NoMovementCompletes' /\ WHZones' /\ WHGoods' /\ WHMovements'
      BY <1>13 DEF WH!UpdateWarehouse
<1>14. ASSUME NEW r \in Requests, WH!DeleteWarehouse(r)
      PROVE  WHCancels' /\ WH!NoMovementCompletes' /\ WHZones' /\ WHGoods' /\ WHMovements'
      BY <1>14 DEF WH!DeleteWarehouse
<1>15. ASSUME NEW r \in Requests, WH!FindZone(r)
      PROVE  WHCancels' /\ WH!NoMovementCompletes' /\ WHZones' /\ WHGoods' /\ WHMovements'
  <2>1. (request'[r] = WH!Idle \/ request'[r].pc \in {"updateZone", "deleteZone"}) /\ \A q \in Requests \ {r} : request'[q] = request[q]
        BY <1>15, WHFound
  <2> QED BY <1>15, <2>1 DEF WH!FindZone
<1>16. ASSUME NEW r \in Requests, WH!UpdateZone(r)
      PROVE  WHCancels' /\ WH!NoMovementCompletes' /\ WHZones' /\ WHGoods' /\ WHMovements'
      BY <1>16 DEF WH!UpdateZone
<1>17. ASSUME NEW r \in Requests, WH!DeleteZone(r)
      PROVE  WHCancels' /\ WH!NoMovementCompletes' /\ WHZones' /\ WHGoods' /\ WHMovements'
      BY <1>17 DEF WH!DeleteZone
<1>18. ASSUME NEW r \in Requests, WH!UpdateGood(r)
      PROVE  WHCancels' /\ WH!NoMovementCompletes' /\ WHZones' /\ WHGoods' /\ WHMovements'
  <2> HIDE DEF WH!TypeOK, WH!HandlersTypeOK, WH!MovementStatuses, WH!WarehouseRow, WH!ZoneRow,
           WH!GoodRow, WH!MovementRow, WH!AllIds, WH!Running,
               WH!stores, WH!OpenWarehouse, WH!InStore, WH!Recorded, WH!ZoneExists,
               WH!GoodExists, WH!Present, WH!At, WH!Start, WH!Once, WH!Goto, WH!Finish,
               WH!Absent, WH!Gone, WH!Idle,
               WHCancels, WH!NoMovementCompletes, WH!EverythingHasItsPlace, WHZones, WHGoods,
               WHMovements, WH!Transitions, WH!Refers
  <2>1. WHMoved(r)
        BY <1>18, WHMove
  <2>2. WHCancels'
        BY <2>1 DEF WHMoved, WHGoes, WHInv, WHCancels, WH!Recorded, WH!At, WH!Idle
  <2>3. WH!NoMovementCompletes'
        BY <2>1 DEF WHMoved, WHGoes, WHInv, WH!NoMovementCompletes, WH!Recorded
  <2>4. WHZones'
        BY <2>1 DEF WHMoved, WHGoes, WHInv, WH!EverythingHasItsPlace, WHZones, WH!OpenWarehouse
  <2>5. WHGoods'
        BY <2>1 DEF WHMoved, WHGoes, WHInv, WH!EverythingHasItsPlace, WHGoods, WH!InStore,
           WH!OpenWarehouse, WH!ZoneExists
  <2>6. WHMovements'
        BY <2>1, WHOf DEF WHMoved, WHGoes, WHInv, WH!EverythingHasItsPlace, WHMovements,
           WH!Recorded, WH!InStore, WH!OpenWarehouse, WH!GoodExists
  <2> QED BY <2>2, <2>3, <2>4, <2>5, <2>6
<1>19. ASSUME NEW r \in Requests, WH!DeleteGood(r)
      PROVE  WHCancels' /\ WH!NoMovementCompletes' /\ WHZones' /\ WHGoods' /\ WHMovements'
      BY <1>19 DEF WH!DeleteGood
<1>20. ASSUME NEW r \in Requests, WH!UpdateMovement(r)
      PROVE  WHCancels' /\ WH!NoMovementCompletes' /\ WHZones' /\ WHGoods' /\ WHMovements'
  <2> HIDE DEF WH!TypeOK, WH!HandlersTypeOK, WH!MovementStatuses, WH!WarehouseRow, WH!ZoneRow,
           WH!GoodRow, WH!MovementRow, WH!AllIds, WH!Running,
               WH!stores, WH!OpenWarehouse, WH!InStore, WH!Recorded, WH!ZoneExists,
               WH!GoodExists, WH!Present, WH!At, WH!Start, WH!Once, WH!Goto, WH!Finish,
               WH!Absent, WH!Gone, WH!Idle,
               WHCancels, WH!NoMovementCompletes, WH!EverythingHasItsPlace, WHZones, WHGoods,
               WHMovements, WH!Transitions, WH!Refers
  <2>1. WHUpdated(r)
        BY <1>20, WHUpdate
  <2>2. WHCancels'
        BY <2>1 DEF WHUpdated, WHGoes, WHInv, WHCancels, WH!Recorded, WH!At, WH!Idle
  <2>3. WH!NoMovementCompletes'
        BY <2>1 DEF WHUpdated, WHGoes, WHInv, WH!NoMovementCompletes, WH!Recorded
  <2>4. WHZones'
        BY <2>1 DEF WHUpdated, WHGoes, WHInv, WH!EverythingHasItsPlace, WHZones,
           WH!OpenWarehouse
  <2>5. WHGoods'
        BY <2>1 DEF WHUpdated, WHGoes, WHInv, WH!EverythingHasItsPlace, WHGoods, WH!InStore,
           WH!OpenWarehouse, WH!ZoneExists
  <2>6. WHMovements'
        BY <2>1 DEF WHUpdated, WHGoes, WHInv, WH!EverythingHasItsPlace, WHMovements,
           WH!Recorded, WH!InStore, WH!OpenWarehouse, WH!GoodExists
  <2> QED BY <2>2, <2>3, <2>4, <2>5, <2>6
<1>21. ASSUME NEW r \in Requests, WH!Abort(r)
      PROVE  WHCancels' /\ WH!NoMovementCompletes' /\ WHZones' /\ WHGoods' /\ WHMovements'
      BY <1>21 DEF WH!Abort, WH!Stop
<1>22. CASE UNCHANGED WH!vars
      BY <1>22 DEF WH!vars
<1> HIDE DEF WH!TypeOK, WH!HandlersTypeOK, WH!MovementStatuses, WH!WarehouseRow, WH!ZoneRow,
         WH!GoodRow, WH!MovementRow, WH!AllIds, WH!Running,
             WH!stores, WH!OpenWarehouse, WH!InStore, WH!Recorded, WH!ZoneExists, WH!GoodExists,
             WH!Present, WH!At, WH!Start, WH!Once, WH!Goto, WH!Finish, WH!Absent, WH!Gone,
             WH!Idle,
             WHInv, WHCancels, WH!NoMovementCompletes, WH!EverythingHasItsPlace, WHZones,
             WHGoods, WHMovements, WH!Transitions, WH!Refers
<1> QED BY <1>1, <1>2, <1>3, <1>4, <1>5, <1>6, <1>7, <1>8, <1>9, <1>10, <1>11, <1>12, <1>13,
           <1>14, <1>15, <1>16, <1>17, <1>18, <1>19, <1>20, <1>21, <1>22 DEF WH!Next

\* Every step keeps the invariant.
LEMMA WHInvStep == ASSUME WHInv, [WH!Next]_WH!vars PROVE WHInv'
BY WHTypeStep, WHRestStep DEF WHInv, WH!EverythingHasItsPlace, WHZones, WHGoods, WHMovements

(***************************************************************************)
(* Posts.                                                                  *)
(***************************************************************************)

\* Two handlers of one post are remembered.
BLAlone ==
    \A q, r \in Requests :
        request[q] # BL!Idle /\ request[r] # BL!Idle /\ request[q].on = request[r].on
            /\ request[q].on \notin raced => q = r

\* What is about to be written is dated when it is published.
BLWrites ==
    \A r \in Requests :
        BL!At(r, "update") /\ request[r].on \notin raced /\ BL!Present(post[request[r].on]) =>
               (request[r].dated <=>
                    (IF request[r].status = "KEEP" THEN post[request[r].on].status
                     ELSE request[r].status) = "PUBLISHED")

BLInv == BL!TypeOK /\ BLAlone /\ BLWrites /\ BL!PublishedHasDate

BLGoes(r, h) == request'[r] = h /\ \A q \in Requests \ {r} : request'[q] = request[q]

\* There are no posts at first.
LEMMA BLStart == BL!Init => BLInv
<1> SUFFICES ASSUME BL!Init PROVE BLInv
    OBVIOUS
<1>1. BL!TypeOK
      BY MaxStartedAssumption DEF BL!Init, BL!HandlersInit, BL!TypeOK, BL!HandlersTypeOK
<1> QED BY <1>1 DEF BL!Init, BL!HandlersInit, BLInv, BLAlone, BLWrites, BL!PublishedHasDate,
           BL!Present, BL!At, BL!Idle

\* A post that is there is neither absent nor gone.
LEMMA BLRows == \A x \in BL!PostRow : x \notin {BL!Absent, BL!Gone}
BY DEF BL!PostRow, BL!Absent, BL!Gone

\* The date of a post says yes or no, and yes when it is to be published.
LEMMA BLDate ==
    ASSUME NEW row \in BL!PostRow, NEW s \in BL!Statuses \cup {"KEEP"}
    PROVE  /\ BL!Date(row, s) \in BOOLEAN
           /\ (row.dated <=> row.status = "PUBLISHED") =>
                  (BL!Date(row, s) <=> (IF s = "KEEP" THEN row.status ELSE s) = "PUBLISHED")
BY DEF BL!PostRow, BL!Statuses, BL!Date

\* A handler is about a post.
LEMMA BLOn == BLInv => \A r \in Requests : request[r] # BL!Idle => request[r].on \in Rows
<1> SUFFICES ASSUME BLInv, NEW r \in Requests, request[r] # BL!Idle PROVE request[r].on \in Rows
    OBVIOUS
<1>1. request[r] \in BL!Running
      BY DEF BLInv, BL!TypeOK, BL!HandlersTypeOK
<1> QED BY <1>1 DEF BL!Running

\* What writing a post does.
BLUpdated(r) ==
    LET p == request[r].on
        s == request[r].status IN
    /\ UNCHANGED raced /\ BLGoes(r, BL!Idle) /\ BL!At(r, "update") /\ p \in Rows
    /\ post' \in [Rows -> BL!PostRow \cup {BL!Absent, BL!Gone}]
    /\ \A q \in Rows \ {p} : post'[q] = post[q]
    /\ BL!Present(post'[p]) <=> BL!Present(post[p])
    /\ BL!Present(post[p]) => /\ post'[p].status = IF s = "KEEP" THEN post[p].status ELSE s
                              /\ post'[p].dated = request[r].dated

\* Updating a post writes the status and the date that were decided.
LEMMA BLUpdate == ASSUME BLInv, NEW r \in Requests, BL!Update(r) PROVE BLUpdated(r)
<1> DEFINE s == request[r].status
           row == [post[request[r].on] EXCEPT !.status = IF s = "KEEP" THEN @ ELSE s,
                                              !.dated = request[r].dated]
<1>1. request[r].on \in Rows /\ s \in BL!Statuses \cup {"KEEP"} /\ request[r].dated \in BOOLEAN
  <2>1. request[r] \in BL!Running /\ request[r].pc = "update"
        BY DEF BL!Update, BL!At, BL!TypeOK, BL!HandlersTypeOK, BL!Idle, BLInv
  <2> QED BY <2>1 DEF BL!Running
<1>2. BL!Present(post[request[r].on]) =>
          /\ row \in BL!PostRow /\ row.dated = request[r].dated
          /\ row.status = IF s = "KEEP" THEN post[request[r].on].status ELSE s
      BY <1>1 DEF BLInv, BL!Present, BL!TypeOK, BL!PostRow
<1>3. post' = IF BL!Present(post[request[r].on]) THEN [post EXCEPT ![request[r].on] = row] ELSE post
      BY <1>1 DEF BL!Update
<1> HIDE DEF row
<1>4. BL!Present(post[request[r].on]) => BL!Present(row)
      BY <1>2, BLRows DEF BL!Present
<1> QED BY <1>1, <1>2, <1>3, <1>4 DEF BL!Update, BL!Finish, BL!Goto, BL!At, BLGoes, BLUpdated,
           BLInv, BL!TypeOK, BL!HandlersTypeOK

\* Every step keeps the types.
LEMMA BLTypeStep ==
    ASSUME BLInv, [BL!Next]_BL!vars
    PROVE  BL!TypeOK'
<1> USE MaxStartedAssumption DEF BL!TypeOK, BL!HandlersTypeOK, BL!Statuses, BL!PostRow,
        BL!Running,
            BL!Present, BL!At, BL!Start, BL!Once, BL!Goto, BL!Finish, BL!Absent, BL!Gone,
            BL!Idle,
            BLInv
<1>1. ASSUME NEW r \in Requests, NEW p \in Rows, NEW s \in BL!Statuses, BL!Create(r, p, s)
      PROVE  BL!TypeOK'
  <2> DEFINE b == s = "PUBLISHED"
  <2>1. b \in BOOLEAN
        OBVIOUS
  <2>2. post' = [post EXCEPT ![p] = [status |-> s, dated |-> b]]
        BY <1>1 DEF BL!Create
  <2> HIDE DEF b
  <2> QED BY <1>1, <2>1, <2>2 DEF BL!Create
<1>2. ASSUME NEW r \in Requests, NEW p \in Rows, NEW k \in BL!Statuses \cup {"KEEP"}, BL!BeginUpdate(r,
             p, k)
      PROVE  BL!TypeOK'
  <2>1. BL!Date(post[p], k) \in BOOLEAN
        BY <1>2, BLDate DEF BL!BeginUpdate
  <2>2. [pc |-> "update", on |-> p, status |-> k, dated |-> BL!Date(post[p], k)] \in BL!Running
        BY <2>1
  <2> HIDE DEF BL!Running
  <2> QED BY <1>2, <2>2 DEF BL!BeginUpdate
<1>3. ASSUME NEW r \in Requests, NEW p \in Rows, BL!BeginDelete(r, p)
      PROVE  BL!TypeOK'
      BY <1>3 DEF BL!BeginDelete
<1>4. ASSUME NEW r \in Requests, BL!Update(r)
      PROVE  BL!TypeOK'
  <2> HIDE DEF BL!TypeOK, BL!HandlersTypeOK, BL!Statuses, BL!PostRow, BL!Running,
               BL!Present, BL!At, BL!Start, BL!Once, BL!Goto, BL!Finish, BL!Absent, BL!Gone,
               BL!Idle
  <2>1. BLUpdated(r)
        BY <1>4, BLUpdate
  <2> QED BY <1>4, <2>1 DEF BL!Update, BL!Goto, BL!Finish, BLUpdated, BL!TypeOK,
             BL!HandlersTypeOK, BLInv
<1>5. ASSUME NEW r \in Requests, BL!Delete(r)
      PROVE  BL!TypeOK'
      BY <1>5 DEF BL!Delete
<1>6. ASSUME NEW r \in Requests, BL!Abort(r)
      PROVE  BL!TypeOK'
      BY <1>6 DEF BL!Abort, BL!Stop
<1>7. CASE UNCHANGED BL!vars
      BY <1>7 DEF BL!vars
<1> HIDE DEF BL!TypeOK, BL!HandlersTypeOK, BL!Statuses, BL!PostRow, BL!Running,
             BL!Present, BL!At, BL!Start, BL!Once, BL!Goto, BL!Finish, BL!Absent, BL!Gone,
             BL!Idle,
             BLInv
<1> QED BY <1>1, <1>2, <1>3, <1>4, <1>5, <1>6, <1>7 DEF BL!Next

\* Every step keeps the dates.
LEMMA BLRestStep ==
    ASSUME BLInv, [BL!Next]_BL!vars
    PROVE  BLAlone' /\ BLWrites' /\ BL!PublishedHasDate'
<1> USE DEF BL!TypeOK, BL!HandlersTypeOK, BL!Statuses, BL!PostRow, BL!Running,
            BL!Present, BL!At, BL!Start, BL!Once, BL!Goto, BL!Finish, BL!Absent, BL!Gone,
            BL!Idle,
            BLInv, BLAlone, BLWrites, BL!PublishedHasDate, BL!Handled
<1>1. ASSUME NEW r \in Requests, NEW p \in Rows, NEW s \in BL!Statuses, BL!Create(r, p, s)
      PROVE  BLAlone' /\ BLWrites' /\ BL!PublishedHasDate'
  <2> DEFINE b == s = "PUBLISHED"
  <2>1. b \in BOOLEAN /\ (b <=> s = "PUBLISHED")
        OBVIOUS
  <2>2. post' = [post EXCEPT ![p] = [status |-> s, dated |-> b]]
        BY <1>1 DEF BL!Create
  <2> HIDE DEF b
  <2>3. /\ post'[p].dated = b /\ post'[p].status = s /\ p \in Rows
        /\ \A q \in Rows \ {p} : post'[q] = post[q]
        BY <2>2
  <2>4. BLAlone' /\ BLWrites'
        BY <1>1, <2>3 DEF BL!Create
  <2>5. BL!PublishedHasDate'
        BY <1>1, <2>1, <2>3 DEF BL!Create
  <2> QED BY <2>4, <2>5
<1>2. ASSUME NEW r \in Requests, NEW p \in Rows, NEW k \in BL!Statuses \cup {"KEEP"}, BL!BeginUpdate(r,
             p, k)
      PROVE  BLAlone' /\ BLWrites' /\ BL!PublishedHasDate'
  <2>1. p \notin raced => (BL!Date(post[p], k) <=> (IF k = "KEEP" THEN post[p].status ELSE k) = "PUBLISHED")
        BY <1>2, BLDate DEF BL!BeginUpdate
  <2>2. BLAlone' /\ BL!PublishedHasDate'
        BY <1>2 DEF BL!BeginUpdate
  <2>3. BLWrites'
        BY <1>2, <2>1 DEF BL!BeginUpdate
  <2> QED BY <2>2, <2>3
<1>3. ASSUME NEW r \in Requests, NEW p \in Rows, BL!BeginDelete(r, p)
      PROVE  BLAlone' /\ BLWrites' /\ BL!PublishedHasDate'
      BY <1>3 DEF BL!BeginDelete
<1>4. ASSUME NEW r \in Requests, BL!Update(r)
      PROVE  BLAlone' /\ BLWrites' /\ BL!PublishedHasDate'
  <2> HIDE DEF BL!TypeOK, BL!HandlersTypeOK, BL!Statuses, BL!PostRow, BL!Running,
               BL!Present, BL!At, BL!Start, BL!Once, BL!Goto, BL!Finish, BL!Absent, BL!Gone,
               BL!Idle,
               BLAlone, BLWrites, BL!PublishedHasDate, BL!Handled
  <2>1. BLUpdated(r)
        BY <1>4, BLUpdate
  <2>2. BLAlone'
        BY <2>1 DEF BLUpdated, BLGoes, BLInv, BLAlone, BL!At, BL!Idle
  <2>3. BLWrites'
        BY <2>1, BLOn DEF BLUpdated, BLGoes, BLInv, BLAlone, BLWrites, BL!At, BL!Idle
  <2>4. BL!PublishedHasDate'
        BY <2>1 DEF BLUpdated, BLInv, BLWrites, BL!PublishedHasDate
  <2> QED BY <2>2, <2>3, <2>4
<1>5. ASSUME NEW r \in Requests, BL!Delete(r)
      PROVE  BLAlone' /\ BLWrites' /\ BL!PublishedHasDate'
      BY <1>5 DEF BL!Delete
<1>6. ASSUME NEW r \in Requests, BL!Abort(r)
      PROVE  BLAlone' /\ BLWrites' /\ BL!PublishedHasDate'
      BY <1>6 DEF BL!Abort, BL!Stop
<1>7. CASE UNCHANGED BL!vars
      BY <1>7 DEF BL!vars
<1> HIDE DEF BL!TypeOK, BL!HandlersTypeOK, BL!Statuses, BL!PostRow, BL!Running,
             BL!Present, BL!At, BL!Start, BL!Once, BL!Goto, BL!Finish, BL!Absent, BL!Gone,
             BL!Idle,
             BLInv, BLAlone, BLWrites, BL!PublishedHasDate, BL!Handled
<1> QED BY <1>1, <1>2, <1>3, <1>4, <1>5, <1>6, <1>7 DEF BL!Next

\* Every step keeps the invariant.
LEMMA BLInvStep == ASSUME BLInv, [BL!Next]_BL!vars PROVE BLInv'
BY BLTypeStep, BLRestStep DEF BLInv

(***************************************************************************)
(* Jobs.                                                                   *)
(***************************************************************************)

\* A job is run by the handler that created it and by no other.
JOAlone ==
    \A q, r \in Requests :
        request[q] # JO!Idle /\ request[r] # JO!Idle /\ request[q].on = request[r].on => q = r

\* What the handler has counted.
JOCounted(summary, n) == summary.created = n /\ summary.processed = n + summary.failed

\* Where the handler is tells how far its job is.
JOWorksOf(r) ==
    LET j == request[r].on IN
    request[r] # JO!Idle =>
        /\ JO!Present(job[j])
        /\ request[r].pc \in {"auditStarted", "importRow", "readRows", "upload", "complete"} =>
               job[j].status = "PROCESSING" /\ j \notin broken
        /\ request[r].pc = "auditStarted" => clients[j] = 0 /\ request[r].summary = JO!Nothing
        /\ request[r].pc = "importRow" =>
               /\ job[j].kind = "import" /\ JOCounted(request[r].summary, clients[j])
               /\ request[r].summary.processed + request[r].rows \in 1..MaxRows
        /\ request[r].pc \in {"readRows", "upload"} => job[j].kind = "export"
        /\ request[r].pc = "complete" =>
               IF job[j].kind = "export" THEN j \in exported ELSE JOCounted(request[r].summary, clients[j])
        /\ request[r].pc = "auditCompleted" => job[j].status = "COMPLETED"
        /\ request[r].pc = "fail" =>
               /\ job[j].status = "PROCESSING" \/ (job[j].status = "COMPLETED" /\ j \in broken)
               /\ job[j].kind = "import" /\ j \notin broken => clients[j] = 0
        /\ request[r].pc = "auditFailed" => job[j].status = "FAILED"

JOWorks == \A r \in Requests : JOWorksOf(r)

\* What a row says is so; one left PROCESSING is being worked on or was stopped.
JORowOf(j) ==
    /\ ~JO!Present(job[j]) => clients[j] = 0
    /\ ~JO!Present(job[j]) => j \notin broken
    /\ JO!Present(job[j]) =>
        /\ job[j].file => job[j].status # "PROCESSING" /\ j \in exported
        /\ job[j].status = "COMPLETED" =>
               IF job[j].kind = "export" THEN job[j].file ELSE JOCounted(job[j].summary, clients[j])
        /\ job[j].status = "FAILED" =>
               /\ job[j].file => j \in broken
               /\ job[j].kind = "import" /\ j \notin broken => clients[j] = 0
        /\ job[j].status = "PROCESSING" /\ ~JO!Handled(j) => j \in stopped
        /\ job[j].status # "PENDING"

JORows == \A j \in Rows : JORowOf(j)

JOInv == JO!TypeOK /\ JOAlone /\ JOWorks /\ JORows

JOGoes(r, h) == request'[r] = h /\ \A q \in Requests \ {r} : request'[q] = request[q]

\* There are no jobs at first.
LEMMA JOStart == JO!Init => JOInv
<1> SUFFICES ASSUME JO!Init PROVE JOInv
    OBVIOUS
<1>1. JO!TypeOK
      BY MaxStartedAssumption, NumbersAssumption DEF JO!Init, JO!HandlersInit, JO!TypeOK,
         JO!HandlersTypeOK
<1> QED BY <1>1 DEF JO!Init, JO!HandlersInit, JOInv, JOAlone, JOWorks, JOWorksOf, JORows,
           JORowOf, JO!Present, JO!At, JO!Idle

\* A job that is there is neither absent nor gone.
LEMMA JOJobs == \A x \in JO!JobRow : x \notin {JO!Absent, JO!Gone}
BY DEF JO!JobRow, JO!Absent, JO!Gone

\* A handler is about a job.
LEMMA JOOn == JOInv => \A r \in Requests : request[r] # JO!Idle => request[r].on \in Rows
<1> SUFFICES ASSUME JOInv, NEW r \in Requests, request[r] # JO!Idle PROVE request[r].on \in Rows
    OBVIOUS
<1>1. request[r] \in JO!Running
      BY DEF JOInv, JO!TypeOK, JO!HandlersTypeOK
<1> QED BY <1>1 DEF JO!Running

\* The last update of a job, in records: of the try block and of the catch block.
JOEnded(r, pc, next, status) ==
    LET j == request[r].on IN
    /\ JO!At(r, pc) /\ j \in Rows /\ UNCHANGED <<clients, exported, broken, stopped, raced>>
    /\ JOGoes(r, [pc |-> next, on |-> j, summary |-> request[r].summary])
    /\ request[r].summary \in JO!Summary
    /\ \A i \in Rows \ {j} : job'[i] = job[i]
    /\ job'[j] \in JO!JobRow /\ JO!Present(job'[j])
    /\ job'[j].kind = job[j].kind /\ job'[j].status = status

JOCompleted(r) ==
    LET j == request[r].on IN
    /\ JOEnded(r, "complete", "auditCompleted", "COMPLETED")
    /\ job'[j].summary = request[r].summary /\ (job'[j].file <=> job[j].kind = "export")

JOFailed(r) ==
    LET j == request[r].on IN
    /\ JOEnded(r, "fail", "auditFailed", "FAILED")
    /\ job'[j].file = job[j].file

\* What the two updates do.
LEMMA JOComplete == ASSUME JOInv, NEW r \in Requests, JO!Complete(r) PROVE JOCompleted(r)
<1> DEFINE j == request[r].on
           b == job[j].kind = "export"
           row == [job[j] EXCEPT !.status = "COMPLETED", !.summary = request[r].summary, !.file = b]
<1>1. JO!At(r, "complete") /\ j \in Rows /\ request[r].summary \in JO!Summary
  <2>1. request[r] \in JO!Running /\ request[r].pc = "complete"
        BY DEF JO!Complete, JO!At, JOInv, JO!TypeOK, JO!HandlersTypeOK, JO!Idle
  <2> QED BY <2>1 DEF JO!Running, JO!At
<1>2. JO!Present(job[j]) /\ job[j] \in JO!JobRow
      BY <1>1 DEF JOInv, JOWorks, JOWorksOf, JO!At, JO!Idle, JO!TypeOK, JO!Present
<1>3. b \in BOOLEAN /\ (b <=> job[j].kind = "export")
      OBVIOUS
<1>4. job' = [job EXCEPT ![j] = row]
      BY <1>1 DEF JO!Complete, JOInv, JO!TypeOK
<1> HIDE DEF b
<1>5. row \in JO!JobRow /\ row.kind = job[j].kind /\ row.status = "COMPLETED" /\ row.file = b
          /\ row.summary = request[r].summary
      BY <1>1, <1>2, <1>3 DEF JO!JobRow, JO!Statuses
<1> HIDE DEF row
<1>6. JO!Present(row)
      BY <1>5, JOJobs DEF JO!Present
<1>7. JOGoes(r, [pc |-> "auditCompleted", on |-> j, summary |-> request[r].summary])
      BY DEF JO!Complete, JO!Step, JO!Goto, JOGoes, JOInv, JO!TypeOK, JO!HandlersTypeOK
<1>8. job'[j] = row /\ \A i \in Rows \ {j} : job'[i] = job[i]
      BY <1>1, <1>4 DEF JOInv, JO!TypeOK
<1>9. UNCHANGED <<clients, exported, broken, stopped, raced>>
      BY DEF JO!Complete, JO!Step, JO!Goto
<1> QED BY <1>1, <1>3, <1>5, <1>6, <1>7, <1>8, <1>9 DEF JOCompleted, JOEnded

\* Failing ends the job and leaves its file.
LEMMA JOFail == ASSUME JOInv, NEW r \in Requests, JO!Fail(r) PROVE JOFailed(r)
<1> DEFINE j == request[r].on
           row == [job[j] EXCEPT !.status = "FAILED", !.summary = JO!Nothing]
<1>1. JO!At(r, "fail") /\ j \in Rows /\ request[r].summary \in JO!Summary
  <2>1. request[r] \in JO!Running /\ request[r].pc = "fail"
        BY DEF JO!Fail, JO!At, JOInv, JO!TypeOK, JO!HandlersTypeOK, JO!Idle
  <2> QED BY <2>1 DEF JO!Running, JO!At
<1>2. JO!Present(job[j]) /\ job[j] \in JO!JobRow
      BY <1>1 DEF JOInv, JOWorks, JOWorksOf, JO!At, JO!Idle, JO!TypeOK, JO!Present
<1>4. job' = [job EXCEPT ![j] = row]
      BY <1>1, <1>2 DEF JO!Fail, JOInv, JO!TypeOK, JO!JobRow
<1>3. JO!Nothing \in JO!Summary
      BY NumbersAssumption DEF JO!Summary, JO!Nothing
<1>5. row \in JO!JobRow /\ row.kind = job[j].kind /\ row.status = "FAILED" /\ row.file = job[j].file
      BY <1>2, <1>3 DEF JO!JobRow, JO!Statuses
<1> HIDE DEF row
<1>6. JO!Present(row)
      BY <1>5, JOJobs DEF JO!Present
<1>7. JOGoes(r, [pc |-> "auditFailed", on |-> j, summary |-> request[r].summary])
      BY DEF JO!Fail, JO!Step, JO!Goto, JOGoes, JOInv, JO!TypeOK, JO!HandlersTypeOK
<1>8. job'[j] = row /\ \A i \in Rows \ {j} : job'[i] = job[i]
      BY <1>1, <1>4 DEF JOInv, JO!TypeOK
<1>9. UNCHANGED <<clients, exported, broken, stopped, raced>>
      BY DEF JO!Fail, JO!Step, JO!Goto
<1> QED BY <1>1, <1>5, <1>6, <1>7, <1>8, <1>9 DEF JOFailed, JOEnded

\* The handler after a turn of the import.
LEMMA JOTurn ==
    ASSUME NEW h \in [pc : {"importRow"}, on : Rows, summary : JO!Summary, rows : 1..MaxRows], NEW s
    PROVE  [h EXCEPT !.rows = @ - 1, !.summary = s]
               = [pc |-> "importRow", on |-> h.on, summary |-> s, rows |-> h.rows - 1]
<1>1. [h EXCEPT !.rows = @ - 1, !.summary = s] = [[h EXCEPT !.rows = @ - 1] EXCEPT !.summary = s]
      BY Zenon
<1>2. [h EXCEPT !.rows = @ - 1]
          = [pc |-> "importRow", on |-> h.on, summary |-> h.summary, rows |-> h.rows - 1]
      OBVIOUS
<1>3. [pc |-> "importRow", on |-> h.on, summary |-> h.summary, rows |-> h.rows - 1]
          \in [pc : {"importRow"}, on : Rows, summary : JO!Summary, rows : {h.rows - 1}]
      OBVIOUS
<1>4. \A g \in [pc : {"importRow"}, on : Rows, summary : JO!Summary, rows : {h.rows - 1}] :
          [g EXCEPT !.summary = s] = [pc |-> "importRow", on |-> g.on, summary |-> s, rows |-> g.rows]
      OBVIOUS
<1> QED BY <1>1, <1>2, <1>3, <1>4

\* What a turn of the import does.
JOImported(r) ==
    LET q == request[r]
        j == q.on
        c == IF clients'[j] = clients[j] THEN 0 ELSE 1 IN
    /\ JO!At(r, "importRow") /\ j \in Rows /\ UNCHANGED <<job, exported, broken, stopped, raced, started>>
    /\ clients'[j] \in {clients[j], clients[j] + 1} /\ clients'[j] \in 0..MaxRows
    /\ \A i \in Rows \ {j} : clients'[i] = clients[i]
    /\ clients' \in [Rows -> 0..MaxRows]
    /\ \E s \in JO!Summary :
           /\ JOCounted(s, clients'[j]) /\ s.processed = q.summary.processed + 1
           /\ IF q.rows > 1
              THEN JOGoes(r, [pc |-> "importRow", on |-> j, summary |-> s, rows |-> q.rows - 1])
              ELSE JOGoes(r, [pc |-> "complete", on |-> j, summary |-> s])
    /\ q.rows \in 1..MaxRows /\ q.summary.processed + q.rows \in 1..MaxRows /\ q.summary.processed \in Nat

\* A turn of the import processes one row, and counts the client it may insert.
LEMMA JOImport == ASSUME JOInv, NEW r \in Requests, NEW b \in BOOLEAN, JO!ImportRow(r, b) PROVE JOImported(r)
<1> DEFINE q == request[r]
           j == q.on
           c == IF b THEN 1 ELSE 0
           s == [processed |-> q.summary.processed + 1,
                 created |-> q.summary.created + c,
                 failed |-> q.summary.failed + IF b THEN 0 ELSE 1]
<1>1. JO!At(r, "importRow") /\ q \in [pc : {"importRow"}, on : Rows, summary : JO!Summary, rows : 1..MaxRows]
      BY DEF JO!ImportRow, JO!At, JOInv, JO!TypeOK, JO!HandlersTypeOK, JO!Idle, JO!Running
<1>2. /\ q.summary.created \in Nat /\ q.summary.failed \in Nat /\ q.summary.processed \in Nat
      /\ q.rows \in 1..MaxRows /\ j \in Rows
      BY <1>1 DEF JO!Summary
<1>3. /\ q.summary.created = clients[j] /\ q.summary.processed = clients[j] + q.summary.failed
      /\ q.summary.processed + q.rows \in 1..MaxRows
      BY <1>1 DEF JOInv, JOWorks, JOWorksOf, JOCounted, JO!At, JO!Idle
<1>4. s \in JO!Summary
      BY <1>2, <1>3, NumbersAssumption DEF JO!Summary
<1>5. clients' = [clients EXCEPT ![j] = clients[j] + c]
  <2>1. clients' = [clients EXCEPT ![j] = IF b THEN clients[j] + 1 ELSE clients[j]]
        BY <1>2 DEF JO!ImportRow, JOInv, JO!TypeOK
  <2>2. clients[j] \in Nat
        BY <1>2 DEF JOInv, JO!TypeOK
  <2>3. (IF b THEN clients[j] + 1 ELSE clients[j]) = clients[j] + c
        BY <2>2
  <2> QED BY <2>1, <2>3
<1>6. clients[j] + c \in 0..MaxRows
      BY <1>2, <1>3, NumbersAssumption
<1>7. clients' \in [Rows -> 0..MaxRows] /\ clients'[j] = clients[j] + c
          /\ \A i \in Rows \ {j} : clients'[i] = clients[i]
      BY <1>2, <1>5, <1>6 DEF JOInv, JO!TypeOK
<1>8. JOCounted(s, clients'[j]) /\ s.processed = q.summary.processed + 1
      BY <1>2, <1>3, <1>7 DEF JOCounted
<1>9. IF q.rows > 1 THEN JOGoes(r, [pc |-> "importRow", on |-> j, summary |-> s, rows |-> q.rows - 1])
      ELSE JOGoes(r, [pc |-> "complete", on |-> j, summary |-> s])
  <2>1. request' = [request EXCEPT ![r] = IF q.rows > 1 THEN [q EXCEPT !.rows = @ - 1, !.summary = s]
                                          ELSE [pc |-> "complete", on |-> j, summary |-> s]]
        BY DEF JO!ImportRow, JO!Goto
  <2> HIDE DEF s
  <2> QED BY <1>1, <2>1, JOTurn DEF JOGoes, JOInv, JO!TypeOK, JO!HandlersTypeOK
<1>10. UNCHANGED <<job, exported, broken, stopped, raced, started>>
      BY DEF JO!ImportRow, JO!Goto
<1>11. clients'[j] \in {clients[j], clients[j] + 1}
      BY <1>2, <1>3, <1>7
<1> HIDE DEF s, c
<1> QED BY <1>1, <1>2, <1>3, <1>4, <1>6, <1>7, <1>8, <1>9, <1>10, <1>11 DEF JOImported

\* Every step keeps the types.
LEMMA JOTypeStep ==
    ASSUME JOInv, [JO!Next]_JO!vars
    PROVE  JO!TypeOK'
<1> USE MaxStartedAssumption, NumbersAssumption DEF JO!TypeOK, JO!HandlersTypeOK, JO!Kinds,
        JO!Statuses, JO!Summary, JO!Nothing, JO!JobRow, JO!Running,
            JO!jobs, JO!Step, JO!Present, JO!At, JO!Start, JO!Once, JO!Goto, JO!Finish,
            JO!Absent, JO!Gone, JO!Idle,
            JOInv
<1>1. ASSUME NEW r \in Requests, NEW j \in Rows, NEW k \in JO!Kinds, JO!InsertJob(r, j, k)
      PROVE  JO!TypeOK'
      BY <1>1 DEF JO!InsertJob
<1>2. ASSUME NEW r \in Requests, NEW n \in 0..MaxRows, JO!AuditStarted(r, n)
      PROVE  JO!TypeOK'
  <2>1. n # 0 => [pc |-> "importRow", on |-> request[r].on, summary |-> JO!Nothing, rows |-> n] \in JO!Running
        BY <1>2 DEF JO!AuditStarted
  <2>2. [pc |-> "fail", on |-> request[r].on, summary |-> request[r].summary] \in JO!Running
        BY <1>2 DEF JO!AuditStarted
  <2>3. job[request[r].on].kind \in {"export", "import"}
        BY <1>2 DEF JO!AuditStarted, JOWorks, JOWorksOf
  <2>4. [pc |-> "readRows", on |-> request[r].on, summary |-> request[r].summary] \in JO!Running
        BY <1>2 DEF JO!AuditStarted, JOWorks, JOWorksOf
  <2> HIDE DEF JO!Running, JO!Nothing
  <2> QED BY <1>2, <2>1, <2>2, <2>3, <2>4 DEF JO!AuditStarted
<1>3. ASSUME NEW r \in Requests, NEW b \in BOOLEAN, JO!ImportRow(r, b)
      PROVE  JO!TypeOK'
  <2> HIDE DEF JO!TypeOK, JO!HandlersTypeOK, JO!Kinds, JO!Statuses, JO!Summary, JO!Nothing,
           JO!JobRow, JO!Running,
               JO!jobs, JO!Step, JO!Present, JO!At, JO!Start, JO!Once, JO!Goto, JO!Finish,
               JO!Absent, JO!Gone, JO!Idle
  <2>1. JOImported(r)
        BY <1>3, JOImport
  <2>2. request'[r] \in JO!Running
        BY <2>1, NumbersAssumption DEF JOImported, JOGoes, JO!Running
  <2>3. request' \in [Requests -> JO!Running \cup {JO!Idle}]
    <3>1. \A q \in Requests : request'[q] \in JO!Running \cup {JO!Idle}
          BY <2>1, <2>2 DEF JOImported, JOGoes, JOInv, JO!TypeOK, JO!HandlersTypeOK
    <3>2. request' = [q \in Requests |-> request'[q]]
          BY <1>3 DEF JO!ImportRow, JO!Goto, JOInv, JO!TypeOK, JO!HandlersTypeOK
    <3> QED BY <3>1, <3>2
  <2> QED BY <2>1, <2>3 DEF JOImported, JO!TypeOK, JO!HandlersTypeOK, JOInv
<1>4. ASSUME NEW r \in Requests, JO!ReadRows(r)
      PROVE  JO!TypeOK'
      BY <1>4 DEF JO!ReadRows
<1>5. ASSUME NEW r \in Requests, JO!Upload(r)
      PROVE  JO!TypeOK'
      BY <1>5 DEF JO!Upload
<1>6. ASSUME NEW r \in Requests, JO!Complete(r)
      PROVE  JO!TypeOK'
  <2> HIDE DEF JO!TypeOK, JO!HandlersTypeOK, JO!Kinds, JO!Statuses, JO!Summary, JO!Nothing,
           JO!JobRow, JO!Running,
               JO!jobs, JO!Step, JO!Present, JO!At, JO!Start, JO!Once, JO!Goto, JO!Finish,
               JO!Absent, JO!Gone, JO!Idle
  <2>1. JOCompleted(r)
        BY <1>6, JOComplete
  <2>2. job' \in [Rows -> JO!JobRow \cup {JO!Absent}]
        BY <1>6, <2>1 DEF JOCompleted, JOEnded, JOInv, JO!TypeOK, JO!Complete
  <2>3. [pc |-> "auditCompleted", on |-> request[r].on, summary |-> request[r].summary] \in JO!Running
        BY <2>1 DEF JOCompleted, JOEnded, JO!Running
  <2> QED BY <1>6, <2>2, <2>3 DEF JO!Complete, JO!Step, JO!Goto, JO!TypeOK, JO!HandlersTypeOK,
             JOInv
<1>7. ASSUME NEW r \in Requests, JO!Audit(r)
      PROVE  JO!TypeOK'
      BY <1>7 DEF JO!Audit
<1>8. ASSUME NEW r \in Requests, JO!Throws(r)
      PROVE  JO!TypeOK'
      BY <1>8 DEF JO!Throws
<1>9. ASSUME NEW r \in Requests, JO!Fail(r)
      PROVE  JO!TypeOK'
  <2> HIDE DEF JO!TypeOK, JO!HandlersTypeOK, JO!Kinds, JO!Statuses, JO!Summary, JO!Nothing,
           JO!JobRow, JO!Running,
               JO!jobs, JO!Step, JO!Present, JO!At, JO!Start, JO!Once, JO!Goto, JO!Finish,
               JO!Absent, JO!Gone, JO!Idle
  <2>1. JOFailed(r)
        BY <1>9, JOFail
  <2>2. job' \in [Rows -> JO!JobRow \cup {JO!Absent}]
        BY <1>9, <2>1 DEF JOFailed, JOEnded, JOInv, JO!TypeOK, JO!Fail
  <2>3. [pc |-> "auditFailed", on |-> request[r].on, summary |-> request[r].summary] \in JO!Running
        BY <2>1 DEF JOFailed, JOEnded, JO!Running
  <2> QED BY <1>9, <2>2, <2>3 DEF JO!Fail, JO!Step, JO!Goto, JO!TypeOK, JO!HandlersTypeOK, JOInv
<1>10. ASSUME NEW r \in Requests, JO!Abort(r)
      PROVE  JO!TypeOK'
      BY <1>10 DEF JO!Abort, JO!Stop
<1>11. CASE UNCHANGED JO!vars
      BY <1>11 DEF JO!vars
<1> HIDE DEF JO!TypeOK, JO!HandlersTypeOK, JO!Kinds, JO!Statuses, JO!Summary, JO!Nothing,
         JO!JobRow, JO!Running,
             JO!jobs, JO!Step, JO!Present, JO!At, JO!Start, JO!Once, JO!Goto, JO!Finish,
             JO!Absent, JO!Gone, JO!Idle,
             JOInv
<1> QED BY <1>1, <1>2, <1>3, <1>4, <1>5, <1>6, <1>7, <1>8, <1>9, <1>10, <1>11 DEF JO!Next

\* A step of one handler is about its own job.
LEMMA JOLocal ==
    ASSUME JOInv, NEW r \in Requests, NEW j \in Rows, request[r] # JO!Idle, request[r].on = j,
           request'[r] # JO!Idle, request'[r].on = j, \A q \in Requests \ {r} : request'[q] = request[q],
           \A i \in Rows \ {j} : job'[i] = job[i] /\ clients'[i] = clients[i],
           exported' = exported, broken' = broken, stopped' = stopped, JOWorksOf(r)', JORowOf(j)'
    PROVE  JOAlone' /\ JOWorks' /\ JORows'
<1>1. \A q \in Requests \ {r} : request[q] # JO!Idle => request[q].on \in Rows \ {j}
      BY JOOn DEF JOInv, JOAlone
<1>2. JOAlone'
      BY <1>1 DEF JOInv, JOAlone, JO!Idle
<1>3. ASSUME NEW q \in Requests \ {r} PROVE JOWorksOf(q)'
  <2>1. JOWorksOf(q) /\ request'[q] = request[q]
        BY DEF JOInv, JOWorks
  <2> QED BY <1>1, <2>1 DEF JOWorksOf, JO!Idle, JOCounted, JO!Present
<1>4. ASSUME NEW i \in Rows \ {j} PROVE JORowOf(i)'
  <2>1. JORowOf(i)
        BY DEF JOInv, JORows
  <2>2. JO!Handled(i)' <=> JO!Handled(i)
        BY DEF JO!Handled, JO!Idle
  <2> QED BY <2>1, <2>2 DEF JORowOf, JOCounted, JO!Present
<1>5. JOWorks'
      BY <1>3 DEF JOWorks
<1>6. JORows'
      BY <1>4 DEF JORows
<1> QED BY <1>2, <1>5, <1>6

\* Every step keeps what the handlers and the rows say.
LEMMA JORestStep ==
    ASSUME JOInv, [JO!Next]_JO!vars
    PROVE  JOAlone' /\ JOWorks' /\ JORows'
<1> USE NumbersAssumption, JOOn DEF JO!TypeOK, JO!HandlersTypeOK, JO!Kinds, JO!Statuses,
        JO!Summary, JO!Nothing, JO!JobRow, JO!Running,
            JO!jobs, JO!Step, JO!Present, JO!At, JO!Start, JO!Once, JO!Goto, JO!Finish,
            JO!Absent, JO!Gone, JO!Idle,
            JOInv, JOAlone, JOWorks, JOWorksOf, JORows, JORowOf, JO!Handled, JOCounted
<1>1. ASSUME NEW r \in Requests, NEW j \in Rows, NEW k \in JO!Kinds, JO!InsertJob(r, j, k)
      PROVE  JOAlone' /\ JOWorks' /\ JORows'
  <2>1. JOAlone'
        BY <1>1 DEF JO!InsertJob
  <2>2. JOWorks'
        BY SMTT(20), <1>1 DEF JO!InsertJob
  <2>3. JORows'
        BY <1>1 DEF JO!InsertJob
  <2> QED BY <2>1, <2>2, <2>3
<1>2. ASSUME NEW r \in Requests, NEW n \in 0..MaxRows, JO!AuditStarted(r, n)
      PROVE  JOAlone' /\ JOWorks' /\ JORows'
  <2>1. JOAlone'
        BY <1>2 DEF JO!AuditStarted
  <2>2. JOWorks'
        BY <1>2 DEF JO!AuditStarted
  <2>3. JORows'
        BY <1>2 DEF JO!AuditStarted
  <2> QED BY <2>1, <2>2, <2>3
<1>3. ASSUME NEW r \in Requests, NEW b \in BOOLEAN, JO!ImportRow(r, b)
      PROVE  JOAlone' /\ JOWorks' /\ JORows'
  <2> HIDE DEF JO!TypeOK, JO!HandlersTypeOK, JO!Kinds, JO!Statuses, JO!Summary, JO!Nothing,
           JO!JobRow, JO!Running,
               JO!jobs, JO!Step, JO!Present, JO!At, JO!Start, JO!Once, JO!Goto, JO!Finish,
               JO!Absent, JO!Gone, JO!Idle,
               JOInv, JOAlone, JOWorks, JORows, JOWorksOf, JORowOf, JO!Handled, JOCounted
  <2>1. JOImported(r)
        BY <1>3, JOImport
  <2>2. PICK j \in Rows : j = request[r].on
        BY <2>1 DEF JOImported
  <2>3. /\ request[r] # JO!Idle /\ request'[r] # JO!Idle /\ request'[r].on = j
        /\ \A q \in Requests \ {r} : request'[q] = request[q]
        /\ \A i \in Rows \ {j} : job'[i] = job[i] /\ clients'[i] = clients[i]
        /\ exported' = exported /\ broken' = broken /\ stopped' = stopped
        BY <2>1, <2>2 DEF JOImported, JOGoes, JO!At, JO!Idle
  <2>4. JOWorksOf(r) /\ JORowOf(j)
        BY DEF JOInv, JOWorks, JORows
  <2>5. JOWorksOf(r)'
        BY <2>1, <2>2, <2>3, <2>4 DEF JOImported, JOGoes, JOWorksOf, JORowOf, JOCounted, JO!At,
           JO!Idle
  <2>6. JO!Handled(j)'
        BY <2>3 DEF JO!Handled, JO!Idle
  <2>7. JORowOf(j)'
        BY <2>1, <2>2, <2>3, <2>4, <2>6 DEF JOImported, JOGoes, JOWorksOf, JORowOf, JOCounted,
           JO!At, JO!Idle
  <2> QED BY <2>2, <2>3, <2>5, <2>7, JOLocal
<1>4. ASSUME NEW r \in Requests, JO!ReadRows(r)
      PROVE  JOAlone' /\ JOWorks' /\ JORows'
  <2>1. JOAlone'
        BY <1>4 DEF JO!ReadRows
  <2>2. JOWorks'
        BY <1>4 DEF JO!ReadRows
  <2>3. JORows'
        BY <1>4 DEF JO!ReadRows
  <2> QED BY <2>1, <2>2, <2>3
<1>5. ASSUME NEW r \in Requests, JO!Upload(r)
      PROVE  JOAlone' /\ JOWorks' /\ JORows'
  <2>1. JOAlone'
        BY <1>5 DEF JO!Upload
  <2>2. JOWorks'
        BY SMTT(20), <1>5 DEF JO!Upload
  <2>3. JORows'
        BY <1>5 DEF JO!Upload
  <2> QED BY <2>1, <2>2, <2>3
<1>6. ASSUME NEW r \in Requests, JO!Complete(r)
      PROVE  JOAlone' /\ JOWorks' /\ JORows'
  <2> HIDE DEF JO!TypeOK, JO!HandlersTypeOK, JO!Kinds, JO!Statuses, JO!Summary, JO!Nothing,
           JO!JobRow, JO!Running,
               JO!jobs, JO!Step, JO!Present, JO!At, JO!Start, JO!Once, JO!Goto, JO!Finish,
               JO!Absent, JO!Gone, JO!Idle,
               JOInv, JOAlone, JOWorks, JORows, JOWorksOf, JORowOf, JO!Handled, JOCounted
  <2>1. JOCompleted(r)
        BY <1>6, JOComplete
  <2>2. PICK j \in Rows : j = request[r].on
        BY <2>1 DEF JOCompleted, JOEnded
  <2>3. /\ request[r] # JO!Idle /\ request'[r] # JO!Idle /\ request'[r].on = j
        /\ \A q \in Requests \ {r} : request'[q] = request[q]
        /\ \A i \in Rows \ {j} : job'[i] = job[i] /\ clients'[i] = clients[i]
        /\ exported' = exported /\ broken' = broken /\ stopped' = stopped
        BY <2>1, <2>2 DEF JOCompleted, JOEnded, JOGoes, JO!At, JO!Idle
  <2>4. JOWorksOf(r) /\ JORowOf(j)
        BY DEF JOInv, JOWorks, JORows
  <2>5. JOWorksOf(r)'
        BY <2>1, <2>2, <2>3, <2>4 DEF JOCompleted, JOEnded, JOGoes, JOWorksOf, JORowOf,
           JOCounted, JO!At, JO!Idle
  <2>6. JO!Handled(j)'
        BY <2>3 DEF JO!Handled, JO!Idle
  <2>7. JORowOf(j)'
        BY <2>1, <2>2, <2>3, <2>4, <2>6 DEF JOCompleted, JOEnded, JOGoes, JOWorksOf, JORowOf,
           JOCounted, JO!At, JO!Idle
  <2> QED BY <2>2, <2>3, <2>5, <2>7, JOLocal
<1>7. ASSUME NEW r \in Requests, JO!Audit(r)
      PROVE  JOAlone' /\ JOWorks' /\ JORows'
  <2>1. JOAlone'
        BY <1>7 DEF JO!Audit
  <2>2. JOWorks'
        BY <1>7 DEF JO!Audit
  <2>3. JORows'
        BY <1>7 DEF JO!Audit
  <2> QED BY <2>1, <2>2, <2>3
<1>8. ASSUME NEW r \in Requests, JO!Throws(r)
      PROVE  JOAlone' /\ JOWorks' /\ JORows'
  <2>1. JOAlone'
        BY <1>8 DEF JO!Throws
  <2>2. JOWorks'
        BY <1>8 DEF JO!Throws
  <2>3. JORows'
        BY <1>8 DEF JO!Throws
  <2> QED BY <2>1, <2>2, <2>3
<1>9. ASSUME NEW r \in Requests, JO!Fail(r)
      PROVE  JOAlone' /\ JOWorks' /\ JORows'
  <2> HIDE DEF JO!TypeOK, JO!HandlersTypeOK, JO!Kinds, JO!Statuses, JO!Summary, JO!Nothing,
           JO!JobRow, JO!Running,
               JO!jobs, JO!Step, JO!Present, JO!At, JO!Start, JO!Once, JO!Goto, JO!Finish,
               JO!Absent, JO!Gone, JO!Idle,
               JOInv, JOAlone, JOWorks, JORows, JOWorksOf, JORowOf, JO!Handled, JOCounted
  <2>1. JOFailed(r)
        BY <1>9, JOFail
  <2>2. PICK j \in Rows : j = request[r].on
        BY <2>1 DEF JOFailed, JOEnded
  <2>3. /\ request[r] # JO!Idle /\ request'[r] # JO!Idle /\ request'[r].on = j
        /\ \A q \in Requests \ {r} : request'[q] = request[q]
        /\ \A i \in Rows \ {j} : job'[i] = job[i] /\ clients'[i] = clients[i]
        /\ exported' = exported /\ broken' = broken /\ stopped' = stopped
        BY <2>1, <2>2 DEF JOFailed, JOEnded, JOGoes, JO!At, JO!Idle
  <2>4. JOWorksOf(r) /\ JORowOf(j)
        BY DEF JOInv, JOWorks, JORows
  <2>5. JOWorksOf(r)'
        BY <2>1, <2>2, <2>3, <2>4 DEF JOFailed, JOEnded, JOGoes, JOWorksOf, JORowOf, JOCounted,
           JO!At, JO!Idle
  <2>6. JO!Handled(j)'
        BY <2>3 DEF JO!Handled, JO!Idle
  <2>7. JORowOf(j)'
        BY <2>1, <2>2, <2>3, <2>4, <2>6 DEF JOFailed, JOEnded, JOGoes, JOWorksOf, JORowOf,
           JOCounted, JO!At, JO!Idle
  <2> QED BY <2>2, <2>3, <2>5, <2>7, JOLocal
<1>10. ASSUME NEW r \in Requests, JO!Abort(r)
      PROVE  JOAlone' /\ JOWorks' /\ JORows'
  <2>1. JOAlone'
        BY <1>10 DEF JO!Abort, JO!Stop
  <2>2. JOWorks'
        BY <1>10 DEF JO!Abort, JO!Stop
  <2>3. JORows'
        BY <1>10 DEF JO!Abort, JO!Stop
  <2> QED BY <2>1, <2>2, <2>3
<1>11. CASE UNCHANGED JO!vars
      BY <1>11 DEF JO!vars
<1> HIDE DEF JO!TypeOK, JO!HandlersTypeOK, JO!Kinds, JO!Statuses, JO!Summary, JO!Nothing,
         JO!JobRow, JO!Running,
             JO!jobs, JO!Step, JO!Present, JO!At, JO!Start, JO!Once, JO!Goto, JO!Finish,
             JO!Absent, JO!Gone, JO!Idle,
             JOInv, JOAlone, JOWorks, JOWorksOf, JORows, JORowOf, JO!Handled, JOCounted
<1> QED BY <1>1, <1>2, <1>3, <1>4, <1>5, <1>6, <1>7, <1>8, <1>9, <1>10, <1>11 DEF JO!Next

\* What is true of the rows is what the jobs say.
LEMMA JOTells == JOInv => JO!SummaryTells /\ JO!FileTells /\ JO!LeftOnlyByStop
BY DEF JOInv, JORows, JORowOf, JOCounted, JO!TypeOK, JO!JobRow, JO!Kinds, JO!Present,
   JO!SummaryTells, JO!FileTells, JO!LeftOnlyByStop, JO!Ended

\* Every step keeps the invariant.
LEMMA JOInvStep == ASSUME JOInv, [JO!Next]_JO!vars PROVE JOInv'
BY JOTypeStep, JORestStep DEF JOInv
=============================================================================
