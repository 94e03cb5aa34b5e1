------------------------ MODULE CustomsEntriesProofs ------------------------
(***************************************************************************)
(* Proofs about CustomsEntries, for any entries, parts, contents and       *)
(* number of concurrent requests.                                          *)
(***************************************************************************)
EXTENDS CustomsEntries, TLAPS

(***************************************************************************)
(* The inductive invariant.                                                *)
(***************************************************************************)

\* The row's status and the status a pending change starts from have been the
\* entry's; that is what makes the stale write harmless.
StageInv ==
    /\ NoStageSkipped
    /\ \A e \in Entries : Exists(e) => entry[e].status \in been[e]
    /\ \A e \in Entries : entry[e] = Absent => been[e] = {}
    /\ \A r \in Requests : At(r, "writeStatus") =>
         /\ request[r].previous \in been[request[r].e]
         /\ request[r].new \in Transitions(request[r].previous)

\* An entry never handled by two requests at once: its handler is the only one,
\* and what it decided on still holds of the row.
AloneInv ==
    \A e \in Entries \ raced : \A r \in Requests : Handling(r, e) =>
        /\ \A q \in Requests : Handling(q, e) => q = r
        /\ At(r, "update") => Editable(e)
        /\ At(r, "delete") => Exists(e) /\ entry[e].status = "DRAFT"
        /\ At(r, "writeStatus") => Exists(e) /\ entry[e].status = request[r].previous

Inv == TypeOK /\ StageInv /\ AloneInv

(***************************************************************************)
(* Lemmas.                                                                 *)
(***************************************************************************)

\* Each stage has one way in from the stage before.
LEMMA OneStageBack ==
    ASSUME NEW s, NEW i \in 1..6, Stage[i + 1] \in Transitions(s)
    PROVE  Stage[i] = s
<1>1. /\ Stage[1] = "DRAFT" /\ Stage[2] = "PREVALIDATED" /\ Stage[3] = "VALIDATED"
      /\ Stage[4] = "PAID" /\ Stage[5] = "DISPATCHED" /\ Stage[6] = "RELEASED"
      /\ Stage[7] = "RECTIFIED"
      BY DEF Stage
<1>2. i = 1 \/ i = 2 \/ i = 3 \/ i = 4 \/ i = 5 \/ i = 6
      OBVIOUS
<1>3. CASE i = 1 BY <1>1, <1>3 DEF Transitions
<1>4. CASE i = 2 BY <1>1, <1>4 DEF Transitions
<1>5. CASE i = 3 BY <1>1, <1>5 DEF Transitions
<1>6. CASE i = 4 BY <1>1, <1>6 DEF Transitions
<1>7. CASE i = 5 BY <1>1, <1>7 DEF Transitions
<1>8. CASE i = 6 BY <1>1, <1>8 DEF Transitions
<1> QED BY <1>2, <1>3, <1>4, <1>5, <1>6, <1>7, <1>8

LEMMA TransitionTargets == \A s : Transitions(s) \subseteq Statuses
BY DEF Transitions, Statuses

LEMMA InitInv == Init => Inv
<1> SUFFICES ASSUME Init PROVE Inv
    OBVIOUS
<1>1. TypeOK
      BY MaxStartedAssumption DEF Init, TypeOK
<1>2. StageInv
      BY DEF Init, StageInv, NoStageSkipped, Exists, At, Idle
<1>3. AloneInv
      BY DEF Init, AloneInv, Handling
<1> QED BY <1>1, <1>2, <1>3 DEF Inv

\* A request starts with a record that fits.
LEMMA StartType ==
    ASSUME TypeOK, NEW r \in Requests, NEW e \in Entries, NEW record \in Running,
           Start(r, e, record)
    PROVE  /\ request' \in [Requests -> Running \cup {Idle}]
           /\ started' \in 0..MaxStarted
           /\ raced' \subseteq Entries
           /\ UNCHANGED <<part, history, torn>>
BY MaxStartedAssumption DEF TypeOK, Start, Goto

\* What each action that begins a request does.
LEMMA BeginForm ==
    ASSUME TypeOK, NEW r \in Requests, NEW e \in Entries, BeginOn(r, e)
    PROVE  \/ \E v \in Contents : InsertEntry(r, e, v)
           \/ \E record \in Running :
                /\ Begin(r, e, record) /\ record.e = e
                /\ record.pc = "update" => Editable(e)
                /\ record.pc = "delete" => Exists(e) /\ entry[e].status = "DRAFT"
                /\ record.pc = "writeStatus" =>
                     /\ Exists(e) /\ entry[e].status = record.previous
                     /\ record.new \in Transitions(record.previous)
<1>1. CASE \E v \in Contents : InsertEntry(r, e, v)
      BY <1>1
<1>2. ASSUME NEW v \in Contents, BeginUpdate(r, e, v)
      PROVE  \E record \in Running :
                /\ Begin(r, e, record) /\ record.e = e /\ Editable(e)
                /\ record.pc = "update"
  <2> DEFINE record == [pc |-> "update", e |-> e, content |-> v]
  <2>1. record \in Running
        BY DEF Running
  <2> QED BY <1>2, <2>1 DEF BeginUpdate
<1>3. CASE BeginDelete(r, e)
  <2> DEFINE record == [pc |-> "delete", e |-> e]
  <2>1. record \in Running
        BY DEF Running
  <2> QED BY <1>3, <2>1 DEF BeginDelete
<1>4. ASSUME NEW s \in Statuses, BeginChangeStatus(r, e, s)
      PROVE  \E record \in Running :
                /\ Begin(r, e, record) /\ record.e = e /\ record.pc = "writeStatus"
                /\ Exists(e) /\ entry[e].status = record.previous
                /\ record.new \in Transitions(record.previous)
  <2> DEFINE record == [pc |-> "writeStatus", e |-> e,
                        previous |-> entry[e].status, new |-> s]
  <2>1. entry[e].status \in Statuses
        BY <1>4 DEF BeginChangeStatus, TypeOK, Exists, EntryRow
  <2>2. record \in Running
        BY <2>1 DEF Running
  <2> QED BY <1>4, <2>2 DEF BeginChangeStatus
<1>5. ASSUME NEW kind \in Kinds, BeginAddPart(r, e, kind)
      PROVE  \E record \in Running :
                Begin(r, e, record) /\ record.e = e /\ record.pc = "insertPart"
  <2> DEFINE record == [pc |-> "insertPart", e |-> e, kind |-> kind]
  <2>1. record \in Running
        BY DEF Running
  <2> QED BY <1>5, <2>1 DEF BeginAddPart
<1>6. ASSUME NEW c \in Parts, BeginRemoveItem(r, e, c) \/ BeginRemovePart(r, e, c)
      PROVE  \E record \in Running :
                /\ Begin(r, e, record) /\ record.e = e
                /\ record.pc \in {"findItem", "deletePart"}
  <2> DEFINE find == [pc |-> "findItem", e |-> e, c |-> c]
             delete == [pc |-> "deletePart", e |-> e, c |-> c]
  <2>1. find \in Running /\ delete \in Running
        BY DEF Running
  <2> QED BY <1>6, <2>1 DEF BeginRemoveItem, BeginRemovePart
<1> QED BY <1>1, <1>2, <1>3, <1>4, <1>5, <1>6 DEF BeginOn

\* A handler that goes on has a record with the fields of its step.
LEMMA AdvanceFields ==
    ASSUME TypeOK, NEW r \in Requests, Advance(r)
    PROVE  request[r] \in Running /\ request[r].e \in Entries /\ request[r] # Idle
<1>1. request[r] # Idle
      BY DEF Advance, Update, Delete, WriteStatus, InsertHistory, InsertPart, FindItem,
             DeletePart, Abort, At, Idle
<1>2. request[r] \in Running
      BY <1>1 DEF TypeOK
<1> QED BY <1>1, <1>2 DEF Running

LEMMA TypeStep ==
    ASSUME Inv, [Next]_vars
    PROVE  TypeOK'
<1> USE DEF Inv
<1>1. ASSUME NEW r \in Requests, NEW e \in Entries, BeginOn(r, e)
      PROVE  TypeOK'
  <2>1. ASSUME NEW v \in Contents, InsertEntry(r, e, v)
        PROVE  TypeOK'
    <3> DEFINE record == [pc |-> "insertHistory", e |-> e, previous |-> "NONE",
                          new |-> "DRAFT"]
    <3>1. record \in Running
          BY DEF Running, Statuses
    <3>2. Start(r, e, record)
          BY <2>1 DEF InsertEntry
    <3>3. "DRAFT" \in Statuses /\ [status |-> "DRAFT", content |-> v] \in EntryRow
          BY DEF EntryRow, Statuses
    <3> QED BY <2>1, <3>1, <3>2, <3>3, StartType DEF InsertEntry, TypeOK
  <2>2. ASSUME NEW record \in Running, Begin(r, e, record)
        PROVE  TypeOK'
        BY <2>2, StartType DEF Begin, TypeOK
  <2> QED BY <1>1, <2>1, <2>2, BeginForm
<1>2. ASSUME NEW r \in Requests, Advance(r)
      PROVE  TypeOK'
  <2> DEFINE q == request[r]
  <2>1. q \in Running /\ q.e \in Entries
        BY <1>2, AdvanceFields
  <2>2. CASE Update(r)
    <3>1. q.content \in Contents
          BY <2>1, <2>2 DEF Update, At, Running
    <3>2. Exists(q.e) => [entry[q.e] EXCEPT !.content = q.content] \in EntryRow
          BY <2>1, <3>1 DEF TypeOK, Exists, EntryRow
    <3>3. entry' = IF Exists(q.e)
                   THEN [entry EXCEPT ![q.e] = [entry[q.e] EXCEPT !.content = q.content]]
                   ELSE entry
          BY <2>2 DEF Update
    <3>4. entry' \in [Entries -> EntryRow \cup {Absent, Gone}]
          BY <2>1, <3>2, <3>3 DEF TypeOK
    <3> QED BY <2>2, <3>4 DEF Update, TypeOK, Goto
  <2>3. CASE Delete(r)
        BY <2>1, <2>3 DEF Delete, TypeOK, Goto
  <2>4. CASE WriteStatus(r)
    <3>1. q.new \in Statuses /\ [q EXCEPT !.pc = "insertHistory"] \in Running
          BY <2>1, <2>4 DEF WriteStatus, At, Running
    <3>2. Exists(q.e) => [entry[q.e] EXCEPT !.status = q.new] \in EntryRow
          BY <2>1, <3>1 DEF TypeOK, Exists, EntryRow
    <3>3. CASE Exists(q.e)
      <4>1. entry' = [entry EXCEPT ![q.e] = [entry[q.e] EXCEPT !.status = q.new]]
            BY <2>4, <3>3 DEF WriteStatus
      <4>2. entry' \in [Entries -> EntryRow \cup {Absent, Gone}]
            BY <2>1, <3>2, <3>3, <4>1 DEF TypeOK
      <4>3. been' \in [Entries -> SUBSET Statuses]
          <5>1. been[q.e] \cup {q.new} \in SUBSET Statuses
              BY <2>1, <3>1 DEF TypeOK
        <5>2. been' = [been EXCEPT ![q.e] = been[q.e] \cup {q.new}]
              BY <2>4, <3>3 DEF WriteStatus
        <5> QED BY <2>1, <5>1, <5>2 DEF TypeOK
      <4> QED BY <2>4, <3>1, <4>2, <4>3 DEF WriteStatus, TypeOK, Goto
    <3>4. CASE ~Exists(q.e)
          BY <2>4, <3>1, <3>4 DEF WriteStatus, TypeOK, Goto
    <3> QED BY <3>3, <3>4
  <2>5. CASE InsertHistory(r)
    <3>1. [previous |-> q.previous, new |-> q.new] \in HistoryRow
          BY <2>1, <2>5 DEF InsertHistory, At, Running, HistoryRow
    <3>2. history' \in [Entries -> Seq(HistoryRow)]
          BY <2>1, <2>5, <3>1 DEF InsertHistory, TypeOK
    <3> QED BY <2>5, <3>2 DEF InsertHistory, TypeOK, Goto
  <2>6. ASSUME NEW c \in Parts, InsertPart(r, c)
        PROVE  TypeOK'
    <3>1. [kind |-> q.kind, of |-> q.e] \in PartRow
          BY <2>1, <2>6 DEF InsertPart, At, Running, PartRow
    <3> QED BY <2>6, <3>1 DEF InsertPart, TypeOK, Goto
  <2>7. CASE FindItem(r)
    <3>1. [pc |-> "deletePart", e |-> q.e, c |-> q.c] \in Running
          BY <2>1, <2>7 DEF FindItem, At, Running
    <3> QED BY <2>7, <3>1 DEF FindItem, TypeOK, Goto
  <2>8. CASE DeletePart(r)
        BY <2>1, <2>8 DEF DeletePart, TypeOK, Goto
  <2>9. CASE Abort(r)
        BY <2>1, <2>9 DEF Abort, TypeOK, Goto
  <2> QED BY <1>2, <2>2, <2>3, <2>4, <2>5, <2>6, <2>7, <2>8, <2>9 DEF Advance
<1>3. CASE UNCHANGED vars
      BY <1>3 DEF vars, TypeOK
<1> QED BY <1>1, <1>2, <1>3 DEF Next

\* A handler that goes on touches its own entry's row and its own request, which
\* is over or in one of the steps that do not write the row.
LEMMA AdvanceFrame ==
    ASSUME TypeOK, NEW r \in Requests, Advance(r)
    PROVE  /\ \A e \in Entries : e # request[r].e => entry'[e] = entry[e]
           /\ \A p \in Requests : p # r => request'[p] = request[p]
           /\ \/ request'[r] = Idle
              \/ /\ request'[r].e = request[r].e
                 /\ request'[r].pc \in {"insertHistory", "deletePart"}
           /\ raced' = raced
<1> DEFINE q == request[r]
<1>1. q \in Running /\ q.e \in Entries
      BY AdvanceFields
<1>2. CASE Update(r)
  <2>1. entry' = entry \/ entry' = [entry EXCEPT ![q.e] = [entry[q.e] EXCEPT !.content = q.content]]
        BY <1>2 DEF Update
  <2> QED BY <1>2, <2>1 DEF Update, Goto, TypeOK
<1>3. CASE Delete(r)
      BY <1>3 DEF Delete, Goto, TypeOK
<1>4. CASE WriteStatus(r)
  <2>1. entry' = entry \/ entry' = [entry EXCEPT ![q.e] = [entry[q.e] EXCEPT !.status = q.new]]
        BY <1>4 DEF WriteStatus
  <2>2. [q EXCEPT !.pc = "insertHistory"].e = q.e
        BY <1>1, <1>4 DEF WriteStatus, At, Running
  <2>3. [q EXCEPT !.pc = "insertHistory"].pc = "insertHistory"
        BY <1>1, <1>4 DEF WriteStatus, At, Running
  <2>4. request' = [request EXCEPT ![r] = [q EXCEPT !.pc = "insertHistory"]] /\ raced' = raced
        BY <1>4 DEF WriteStatus, Goto
  <2>5. request'[r] = [q EXCEPT !.pc = "insertHistory"]
        BY <2>4 DEF TypeOK
  <2>6. \A p \in Requests : p # r => request'[p] = request[p]
        BY <2>4 DEF TypeOK
  <2>7. \A e \in Entries : e # q.e => entry'[e] = entry[e]
        BY <2>1 DEF TypeOK
  <2> QED BY <2>2, <2>3, <2>4, <2>5, <2>6, <2>7
<1>5. CASE InsertHistory(r)
      BY <1>5 DEF InsertHistory, Goto, TypeOK
<1>6. CASE \E c \in Parts : InsertPart(r, c)
      BY <1>6 DEF InsertPart, Goto, TypeOK
<1>7. CASE FindItem(r)
      BY <1>7 DEF FindItem, Goto, TypeOK
<1>8. CASE DeletePart(r)
      BY <1>8 DEF DeletePart, Goto, TypeOK
<1>9. CASE Abort(r)
      BY <1>9 DEF Abort, Goto, TypeOK
<1> QED BY <1>2, <1>3, <1>4, <1>5, <1>6, <1>7, <1>8, <1>9 DEF Advance

LEMMA StageStep ==
    ASSUME Inv, [Next]_vars
    PROVE  StageInv'
<1> USE DEF Inv
<1>1. ASSUME NEW r \in Requests, NEW e \in Entries, NEW v \in Contents, InsertEntry(r, e, v)
      PROVE  StageInv'
  <2>1. /\ entry' = [entry EXCEPT ![e] = [status |-> "DRAFT", content |-> v]]
        /\ been' = [been EXCEPT ![e] = {"DRAFT"}]
        /\ request' = [request EXCEPT ![r] =
              [pc |-> "insertHistory", e |-> e, previous |-> "NONE", new |-> "DRAFT"]]
        /\ been[e] = {}
        BY <1>1 DEF InsertEntry, Start, Goto, StageInv
  <2>2. NoStageSkipped'
    <3> SUFFICES ASSUME NEW f \in Entries, NEW i \in 1..6, Stage[i + 1] \in been'[f]
                 PROVE  Stage[i] \in been'[f]
        BY DEF NoStageSkipped
    <3>1. CASE f = e
      <4>1. Stage[i + 1] # "DRAFT"
        <5>1. i = 1 \/ i = 2 \/ i = 3 \/ i = 4 \/ i = 5 \/ i = 6
              OBVIOUS
        <5> QED BY <5>1 DEF Stage
      <4> QED BY <2>1, <3>1, <4>1 DEF TypeOK
    <3>2. CASE f # e
          BY <2>1, <3>2 DEF TypeOK, StageInv, NoStageSkipped
    <3> QED BY <3>1, <3>2
  <2>3. ASSUME NEW f \in Entries
        PROVE  /\ Exists(f)' => entry'[f].status \in been'[f]
               /\ entry'[f] = Absent => been'[f] = {}
    <3>1. CASE f = e
      <4>1. entry'[f] = [status |-> "DRAFT", content |-> v] /\ been'[f] = {"DRAFT"}
            BY <2>1, <3>1 DEF TypeOK
      <4>2. entry'[f] # Absent
            BY <4>1 DEF Absent
      <4> QED BY <4>1, <4>2
    <3>2. CASE f # e
      <4>1. entry'[f] = entry[f] /\ been'[f] = been[f]
            BY <2>1, <3>2 DEF TypeOK
      <4> QED BY <4>1 DEF StageInv, Exists
    <3> QED BY <3>1, <3>2
  <2>4. ASSUME NEW p \in Requests, At(p, "writeStatus")'
        PROVE  /\ request'[p].previous \in been'[request'[p].e]
               /\ request'[p].new \in Transitions(request'[p].previous)
    <3>1. p # r /\ request'[p] = request[p]
          BY <2>1, <2>4 DEF TypeOK, At
    <3>2. At(p, "writeStatus")
          BY <2>4, <3>1 DEF At
    <3>3. request[p].previous \in been[request[p].e]
          BY <3>2 DEF StageInv
    <3>4. request[p] \in Running
          BY <3>2 DEF At, TypeOK, Idle
    <3>5. request[p].e \in Entries
          BY <3>4 DEF Running
    <3>6. request[p].e # e
          BY <2>1, <3>3
    <3> QED BY <2>1, <3>1, <3>2, <3>3, <3>5, <3>6 DEF StageInv, TypeOK
  <2> QED BY <2>2, <2>3, <2>4 DEF StageInv
<1>2. ASSUME NEW r \in Requests, NEW e \in Entries, NEW record \in Running,
             Begin(r, e, record), record.e = e,
             record.pc = "writeStatus" =>
               /\ Exists(e) /\ entry[e].status = record.previous
               /\ record.new \in Transitions(record.previous)
      PROVE  StageInv'
  <2>1. UNCHANGED <<entry, been>> /\ request' = [request EXCEPT ![r] = record]
        BY <1>2 DEF Begin, Start, Goto
  <2>2. ASSUME NEW p \in Requests, At(p, "writeStatus")'
        PROVE  /\ request'[p].previous \in been[request'[p].e]
               /\ request'[p].new \in Transitions(request'[p].previous)
    <3>1. CASE p = r
      <4>1. request'[p] = record /\ record.pc = "writeStatus"
            BY <2>1, <2>2, <3>1 DEF TypeOK, At
      <4> QED BY <1>2, <4>1 DEF StageInv
    <3>2. CASE p # r
          BY <2>1, <2>2, <3>2 DEF TypeOK, At, StageInv
    <3> QED BY <3>1, <3>2
  <2>3. NoStageSkipped'
        BY <2>1 DEF StageInv, NoStageSkipped
  <2>4. ASSUME NEW f \in Entries
        PROVE  /\ Exists(f)' => entry'[f].status \in been'[f]
               /\ entry'[f] = Absent => been'[f] = {}
        BY <2>1 DEF StageInv, Exists
  <2> QED BY <2>1, <2>2, <2>3, <2>4 DEF StageInv
<1>3. ASSUME NEW r \in Requests, NEW e \in Entries, BeginOn(r, e)
      PROVE  StageInv'
      BY <1>1, <1>2, <1>3, BeginForm
<1>4. ASSUME NEW r \in Requests, Advance(r), UNCHANGED been,
             \A f \in Entries :
                /\ Exists(f)' => Exists(f) /\ entry'[f].status = entry[f].status
                /\ entry'[f] = Absent => entry[f] = Absent
      PROVE  StageInv'
  <2>1. NoStageSkipped'
        BY <1>4 DEF StageInv, NoStageSkipped
  <2>2. ASSUME NEW f \in Entries
        PROVE  /\ Exists(f)' => entry'[f].status \in been'[f]
               /\ entry'[f] = Absent => been'[f] = {}
        BY <1>4 DEF StageInv
  <2>3. ASSUME NEW p \in Requests, At(p, "writeStatus")'
        PROVE  request'[p] = request[p] /\ At(p, "writeStatus")
        BY <1>4, <2>3, AdvanceFrame DEF At, Idle
  <2>4. ASSUME NEW p \in Requests, At(p, "writeStatus")'
        PROVE  /\ request'[p].previous \in been'[request'[p].e]
               /\ request'[p].new \in Transitions(request'[p].previous)
        BY <1>4, <2>3, <2>4 DEF StageInv
  <2> QED BY <2>1, <2>2, <2>4 DEF StageInv
<1>5. ASSUME NEW r \in Requests, WriteStatus(r)
      PROVE  StageInv'
  <2> DEFINE q == request[r]
  <2>1. Advance(r)
        BY <1>5 DEF Advance
  <2>2. q \in Running /\ q.e \in Entries
        BY <2>1, AdvanceFields
  <2>3. At(r, "writeStatus") /\ q.previous \in been[q.e] /\ q.new \in Transitions(q.previous)
        BY <1>5 DEF WriteStatus, StageInv
  <2>4. CASE ~Exists(q.e)
        BY <1>4, <1>5, <2>1, <2>4 DEF WriteStatus, Exists
  <2>5. CASE Exists(q.e)
    <3>1. been' = [been EXCEPT ![q.e] = been[q.e] \cup {q.new}]
          BY <1>5, <2>5 DEF WriteStatus
    <3>2. entry' = [entry EXCEPT ![q.e] = [entry[q.e] EXCEPT !.status = q.new]]
          BY <1>5, <2>5 DEF WriteStatus
    <3>3. NoStageSkipped'
      <4> SUFFICES ASSUME NEW f \in Entries, NEW i \in 1..6, Stage[i + 1] \in been'[f]
                   PROVE  Stage[i] \in been'[f]
          BY DEF NoStageSkipped
      <4>1. CASE Stage[i + 1] \in been[f]
            BY <2>2, <3>1, <4>1 DEF StageInv, NoStageSkipped, TypeOK
      <4>2. CASE f = q.e /\ Stage[i + 1] = q.new
        <5>1. Stage[i] = q.previous
              BY <2>3, <4>2, OneStageBack
        <5> QED BY <2>2, <2>3, <3>1, <4>2, <5>1 DEF TypeOK
      <4> QED BY <2>2, <3>1, <4>1, <4>2 DEF TypeOK
    <3>4. ASSUME NEW f \in Entries
          PROVE  /\ Exists(f)' => entry'[f].status \in been'[f]
                 /\ entry'[f] = Absent => been'[f] = {}
      <4>1. CASE f = q.e
        <5>1. entry[f] \in EntryRow
              BY <2>5, <4>1 DEF Exists, TypeOK
        <5>2. [entry[f] EXCEPT !.status = q.new].status = q.new
              BY <5>1 DEF EntryRow
        <5>3. [entry[f] EXCEPT !.status = q.new] \in EntryRow
              BY <2>2, <2>3, <5>1, TransitionTargets DEF EntryRow
        <5>4. entry'[f] # Absent
              BY <2>2, <3>2, <4>1, <5>3 DEF TypeOK, EntryRow, Absent
        <5>5. entry'[f].status = q.new /\ q.new \in been'[f]
              BY <2>2, <3>1, <3>2, <4>1, <5>2 DEF TypeOK
        <5> QED BY <5>4, <5>5
      <4>2. CASE f # q.e
        <5>1. entry'[f] = entry[f] /\ been'[f] = been[f]
              BY <2>2, <3>1, <3>2, <4>2 DEF TypeOK
        <5> QED BY <5>1 DEF StageInv, Exists
      <4> QED BY <4>1, <4>2
    <3>5. ASSUME NEW p \in Requests, At(p, "writeStatus")'
          PROVE  /\ request'[p].previous \in been'[request'[p].e]
                 /\ request'[p].new \in Transitions(request'[p].previous)
      <4>1. request'[p] = request[p] /\ At(p, "writeStatus")
            BY <2>1, <3>5, AdvanceFrame DEF At, Idle
      <4>2. request[p] \in Running
            BY <4>1 DEF At, TypeOK, Idle
      <4>3. request[p].e \in Entries
            BY <4>2 DEF Running
      <4> QED BY <2>2, <3>1, <4>1, <4>3 DEF StageInv, TypeOK
    <3> QED BY <3>3, <3>4, <3>5 DEF StageInv
  <2> QED BY <2>4, <2>5
<1>6. ASSUME NEW r \in Requests, Update(r)
      PROVE  StageInv'
  <2> DEFINE q == request[r]
  <2>1. Advance(r)
        BY <1>6 DEF Advance
  <2>2. q.e \in Entries
        BY <2>1, AdvanceFields
  <2>3. ASSUME NEW f \in Entries
        PROVE  /\ Exists(f)' => Exists(f) /\ entry'[f].status = entry[f].status
               /\ entry'[f] = Absent => entry[f] = Absent
    <3>1. CASE Exists(q.e) /\ f = q.e
      <4>1. entry' = [entry EXCEPT ![q.e] = [entry[q.e] EXCEPT !.content = q.content]]
            BY <1>6, <3>1 DEF Update
      <4>2. entry[f] \in EntryRow
            BY <3>1 DEF Exists, TypeOK
      <4>3. /\ [entry[f] EXCEPT !.content = q.content].status = entry[f].status
            /\ [entry[f] EXCEPT !.content = q.content] # Absent
            BY <4>2 DEF EntryRow, Absent
      <4> QED BY <2>2, <3>1, <4>1, <4>3 DEF TypeOK
    <3>2. CASE ~Exists(q.e)
          BY <1>6, <3>2 DEF Update, Exists
    <3>3. CASE f # q.e
          BY <2>1, <3>3, AdvanceFrame DEF Exists
    <3> QED BY <3>1, <3>2, <3>3
  <2> QED BY <1>4, <1>6, <2>1, <2>3 DEF Update
<1>7. ASSUME NEW r \in Requests, Delete(r)
      PROVE  StageInv'
  <2>1. Advance(r)
        BY <1>7 DEF Advance
  <2>2. ASSUME NEW f \in Entries
        PROVE  /\ Exists(f)' => Exists(f) /\ entry'[f].status = entry[f].status
               /\ entry'[f] = Absent => entry[f] = Absent
        BY <1>7 DEF Delete, TypeOK, Exists, Gone, Absent
  <2> QED BY <1>4, <1>7, <2>1, <2>2 DEF Delete
<1>8. ASSUME NEW r \in Requests,
             \/ InsertHistory(r) \/ FindItem(r) \/ DeletePart(r) \/ Abort(r)
             \/ \E c \in Parts : InsertPart(r, c)
      PROVE  StageInv'
  <2>1. Advance(r) /\ UNCHANGED <<entry, been>>
        BY <1>8 DEF Advance, InsertHistory, FindItem, DeletePart, Abort, InsertPart
  <2> QED BY <1>4, <2>1 DEF Exists
<1>9. CASE UNCHANGED vars
      BY <1>9 DEF vars, StageInv, NoStageSkipped, Exists, At
<1> QED BY <1>3, <1>5, <1>6, <1>7, <1>8, <1>9 DEF Next, Advance

LEMMA AloneStep ==
    ASSUME Inv, [Next]_vars
    PROVE  AloneInv'
<1> USE DEF Inv
<1>1. ASSUME NEW r \in Requests, NEW e \in Entries, NEW record \in Running,
             Start(r, e, record), record.e = e,
             \A f \in Entries : f # e => entry'[f] = entry[f],
             record.pc = "update" => Editable(e)',
             record.pc = "delete" => Exists(e)' /\ entry'[e].status = "DRAFT",
             record.pc = "writeStatus" =>
               Exists(e)' /\ entry'[e].status = record.previous
      PROVE  AloneInv'
  <2>1. /\ request[r] = Idle /\ request' = [request EXCEPT ![r] = record]
        /\ raced' = IF \E q \in Requests : Handling(q, e) THEN raced \cup {e} ELSE raced
        BY <1>1 DEF Start, Goto
  <2>2. record # Idle
        BY DEF Running, Idle
  <2> SUFFICES ASSUME NEW f \in Entries, f \notin raced', NEW p \in Requests, Handling(p, f)'
               PROVE  /\ \A q \in Requests : Handling(q, f)' => q = p
                      /\ At(p, "update")' => Editable(f)'
                      /\ At(p, "delete")' => Exists(f)' /\ entry'[f].status = "DRAFT"
                      /\ At(p, "writeStatus")' =>
                           Exists(f)' /\ entry'[f].status = request'[p].previous
      BY DEF AloneInv
  <2>3. f \notin raced
        BY <2>1
  <2>4. request'[r] = record /\ \A q \in Requests : q # r => request'[q] = request[q]
        BY <2>1 DEF TypeOK
  <2>5. CASE f = e
    <3>1. \A q \in Requests : ~Handling(q, e)
          BY <2>1, <2>5
    <3>2. \A q \in Requests : Handling(q, f)' => q = r
          BY <2>4, <2>5, <3>1 DEF Handling
    <3>3. p = r
          BY <3>2
    <3> QED BY <1>1, <2>4, <2>5, <3>2, <3>3 DEF At
  <2>6. CASE f # e
    <3>1. \A q \in Requests : Handling(q, f)' => q # r /\ Handling(q, f)
          BY <1>1, <2>4, <2>6 DEF Handling
    <3>2. Handling(p, f) /\ request'[p] = request[p] /\ entry'[f] = entry[f]
          BY <1>1, <2>4, <2>6, <3>1
    <3>3. /\ \A q \in Requests : Handling(q, f) => q = p
          /\ At(p, "update") => Editable(f)
          /\ At(p, "delete") => Exists(f) /\ entry[f].status = "DRAFT"
          /\ At(p, "writeStatus") => Exists(f) /\ entry[f].status = request[p].previous
          BY <2>3, <3>2 DEF AloneInv
    <3> QED BY <3>1, <3>2, <3>3 DEF At, Editable, Exists
  <2> QED BY <2>5, <2>6
<1>2. ASSUME NEW r \in Requests, NEW e \in Entries, BeginOn(r, e)
      PROVE  AloneInv'
  <2>1. ASSUME NEW v \in Contents, InsertEntry(r, e, v)
        PROVE  AloneInv'
    <3> DEFINE record == [pc |-> "insertHistory", e |-> e, previous |-> "NONE",
                          new |-> "DRAFT"]
    <3>1. record \in Running /\ record.e = e
          BY DEF Running, Statuses
    <3>2. Start(r, e, record) /\ record.pc = "insertHistory"
          BY <2>1 DEF InsertEntry
    <3>3. \A f \in Entries : f # e => entry'[f] = entry[f]
          BY <2>1 DEF InsertEntry, TypeOK
    <3> QED BY <1>1, <3>1, <3>2, <3>3
  <2>2. ASSUME NEW record \in Running, Begin(r, e, record), record.e = e,
               record.pc = "update" => Editable(e),
               record.pc = "delete" => Exists(e) /\ entry[e].status = "DRAFT",
               record.pc = "writeStatus" => Exists(e) /\ entry[e].status = record.previous
        PROVE  AloneInv'
    <3>1. Start(r, e, record) /\ entry' = entry
          BY <2>2 DEF Begin
    <3>2. (Editable(e) => Editable(e)') /\ (Exists(e) => Exists(e)')
          BY <3>1 DEF Editable, Exists
    <3> QED BY <1>1, <2>2, <3>1, <3>2
  <2> QED BY <1>2, <2>1, <2>2, BeginForm
<1>3. ASSUME NEW r \in Requests, Advance(r)
      PROVE  AloneInv'
  <2> DEFINE e == request[r].e
  <2>1. e \in Entries /\ request[r] # Idle
        BY <1>3, AdvanceFields
  <2>2. /\ \A f \in Entries : f # e => entry'[f] = entry[f]
        /\ \A q \in Requests : q # r => request'[q] = request[q]
        /\ \/ request'[r] = Idle
           \/ request'[r].e = e /\ request'[r].pc \in {"insertHistory", "deletePart"}
        /\ raced' = raced
        BY <1>3, AdvanceFrame
  <2>3. \A f \in Entries, q \in Requests : Handling(q, f)' => Handling(q, f)
        BY <2>1, <2>2 DEF Handling
  <2> SUFFICES ASSUME NEW f \in Entries, f \notin raced', NEW p \in Requests, Handling(p, f)'
               PROVE  /\ \A q \in Requests : Handling(q, f)' => q = p
                      /\ At(p, "update")' => Editable(f)'
                      /\ At(p, "delete")' => Exists(f)' /\ entry'[f].status = "DRAFT"
                      /\ At(p, "writeStatus")' =>
                           Exists(f)' /\ entry'[f].status = request'[p].previous
      BY DEF AloneInv
  <2>4. /\ f \notin raced /\ Handling(p, f)
        /\ \A q \in Requests : Handling(q, f) => q = p
        BY <2>2, <2>3 DEF AloneInv
  <2>5. CASE p = r
        BY <2>2, <2>3, <2>4, <2>5 DEF At, Handling
  <2>6. CASE p # r
    <3>1. f # e
          BY <2>1, <2>4, <2>6 DEF Handling
    <3>2. request'[p] = request[p] /\ entry'[f] = entry[f]
          BY <2>2, <2>6, <3>1
    <3>3. /\ At(p, "update") => Editable(f)
          /\ At(p, "delete") => Exists(f) /\ entry[f].status = "DRAFT"
          /\ At(p, "writeStatus") => Exists(f) /\ entry[f].status = request[p].previous
          BY <2>4 DEF AloneInv
    <3> QED BY <2>3, <2>4, <3>2, <3>3 DEF At, Editable, Exists
  <2> QED BY <2>5, <2>6
<1>4. CASE UNCHANGED vars
      BY <1>4 DEF vars, AloneInv, Handling, At, Editable, Exists
<1> QED BY <1>2, <1>3, <1>4 DEF Next

LEMMA Invariance == Spec => []Inv
<1>1. Inv /\ [Next]_vars => Inv'
      BY TypeStep, StageStep, AloneStep DEF Inv
<1> QED BY InitInv, <1>1, PTL DEF Spec

(***************************************************************************)
(* Theorems.                                                               *)
(***************************************************************************)

\* Rows, parts, histories and requests have their types in every behaviour.
THEOREM TypeCorrect == Spec => []TypeOK
BY Invariance, PTL DEF Inv

\* No stage of an entry is ever skipped (changeStatus), for any number of
\* concurrent requests.
THEOREM StagesCorrect == Spec => []NoStageSkipped
BY Invariance, PTL DEF Inv, StageInv

\* An entry that two requests never met on keeps CANCELLED and RECTIFIED for ever
\* (STATUS_TRANSITIONS).
THEOREM FinishedKept == Spec => FinishedIsFinal
<1> DEFINE Final(e) == Exists(e) /\ entry[e].status \in {"CANCELLED", "RECTIFIED"}
<1>1. ASSUME Inv, [Next]_vars, NEW e \in Entries, e \notin raced', Exists(e),
             entry[e].status \in {"CANCELLED", "RECTIFIED"}
      PROVE  entry'[e] = entry[e]
  <2> USE <1>1 DEF Inv
  <2>1. ASSUME NEW r \in Requests, NEW f \in Entries, NEW v \in Contents, InsertEntry(r, f, v)
        PROVE  entry'[e] = entry[e]
        BY <2>1 DEF InsertEntry, Exists, TypeOK
  <2>2. ASSUME NEW r \in Requests, NEW f \in Entries, BeginOn(r, f)
        PROVE  entry'[e] = entry[e]
        BY <2>1, <2>2, BeginForm DEF Begin
  <2>3. ASSUME NEW r \in Requests, Advance(r)
        PROVE  entry'[e] = entry[e]
    <3>1. CASE request[r].e # e
          BY <2>3, <3>1, AdvanceFrame
    <3>2. CASE request[r].e = e
      <4>1. e \notin raced /\ Handling(r, e)
            BY <2>3, <3>2, AdvanceFields, AdvanceFrame DEF Handling
      <4>2. ~At(r, "update") /\ ~At(r, "delete")
            BY <4>1 DEF AloneInv, Editable, EditableStatuses
      <4>3. At(r, "writeStatus") =>
              /\ entry[e].status = request[r].previous
              /\ request[r].new \in Transitions(request[r].previous)
            BY <4>1 DEF AloneInv, StageInv
      <4>4. ~At(r, "writeStatus")
            BY <4>3 DEF Transitions
      <4> QED BY <2>3, <4>2, <4>4 DEF Advance, Update, Delete, WriteStatus, InsertHistory,
                 InsertPart, FindItem, DeletePart, Abort
    <3> QED BY <3>1, <3>2
  <2>4. CASE UNCHANGED vars
        BY <2>4 DEF vars
  <2> QED BY <2>2, <2>3, <2>4 DEF Next
<1>2. Inv /\ [Next]_vars =>
        [\A e \in Entries \ raced' : Final(e) => entry'[e] = entry[e]]_vars
      BY <1>1
<1> QED BY Invariance, <1>2, PTL DEF Spec, FinishedIsFinal

(***************************************************************************)
(* The history of the status.                                              *)
(***************************************************************************)

\* r's handler is about to insert the history row of e.
Noting(r, e) == At(r, "insertHistory") /\ request[r].e = e

\* The rows are a path to the status, or, while the handler that wrote the
\* status has not inserted its row, to the status before.
HistoryOf(e) ==
    /\ entry[e] = Absent => history[e] = <<>>
    /\ (e \notin raced \cup torn /\ Exists(e)) =>
         /\ IsPath(history[e])
         /\ (\A r \in Requests : ~Noting(r, e)) =>
              /\ history[e] # <<>>
              /\ history[e][Len(history[e])].new = entry[e].status
         /\ \A r \in Requests : Noting(r, e) =>
              /\ request[r].new = entry[e].status
              /\ IF history[e] = <<>>
                 THEN request[r].previous = "NONE" /\ request[r].new = "DRAFT"
                 ELSE /\ request[r].previous = history[e][Len(history[e])].new
                      /\ request[r].new \in Transitions(request[r].previous)

HistoryInv == \A e \in Entries : HistoryOf(e)

\* A path goes on with a row that starts where it ends.
LEMMA PathAppend ==
    ASSUME NEW h \in Seq(HistoryRow), NEW row \in HistoryRow, IsPath(h),
           h = <<>> => row = [previous |-> "NONE", new |-> "DRAFT"],
           h # <<>> => /\ row.previous = h[Len(h)].new
                       /\ row.new \in Transitions(row.previous)
    PROVE  /\ IsPath(Append(h, row))
           /\ Append(h, row) \in Seq(HistoryRow)
           /\ Append(h, row) # <<>>
           /\ Append(h, row)[Len(Append(h, row))] = row
<1> DEFINE g == Append(h, row)
<1>1. /\ g \in Seq(HistoryRow) /\ Len(g) = Len(h) + 1 /\ Len(h) \in Nat
      /\ \A i \in 1..Len(h) : g[i] = h[i]
      /\ g[Len(h) + 1] = row /\ DOMAIN g = 1..(Len(h) + 1) /\ DOMAIN h = 1..Len(h)
      OBVIOUS
<1>2. h = <<>> <=> Len(h) = 0
      OBVIOUS
<1>3. ASSUME NEW i \in DOMAIN g
      PROVE  IF i = 1 THEN g[1] = [previous |-> "NONE", new |-> "DRAFT"]
             ELSE g[i].previous = g[i - 1].new /\ g[i].new \in Transitions(g[i].previous)
  <2>1. CASE i \in 1..Len(h)
    <3>1. IF i = 1 THEN h[1] = [previous |-> "NONE", new |-> "DRAFT"]
          ELSE h[i].previous = h[i - 1].new /\ h[i].new \in Transitions(h[i].previous)
          BY <1>1, <2>1 DEF IsPath
    <3>2. g[i] = h[i] /\ (i # 1 => g[i - 1] = h[i - 1])
          BY <1>1, <2>1
    <3> QED BY <3>1, <3>2
  <2>2. CASE i = Len(h) + 1 /\ Len(h) = 0
        BY <1>1, <1>2, <2>2
  <2>3. CASE i = Len(h) + 1 /\ Len(h) > 0
    <3>1. i - 1 = Len(h) /\ Len(h) \in 1..Len(h) /\ i # 1 /\ h # <<>>
          BY <1>1, <1>2, <2>3
    <3>2. row.previous = h[Len(h)].new /\ row.new \in Transitions(row.previous)
          BY <3>1
    <3>3. g[i] = row /\ g[i - 1] = h[Len(h)]
          BY <1>1, <2>3, <3>1
    <3> HIDE DEF g
    <3> QED BY <3>1, <3>2, <3>3
  <2> QED BY <1>1, <2>1, <2>2, <2>3
<1>4. IsPath(g)
      BY <1>3 DEF IsPath
<1>5. g # <<>> /\ g[Len(g)] = row
      BY <1>1
<1> QED BY <1>1, <1>4, <1>5

\* What a request that begins finds, by the step it goes to.
Finds(r, e) ==
    IF At(r, "insertHistory")'
    THEN /\ entry[e] = Absent /\ Exists(e)' /\ entry'[e].status = "DRAFT"
         /\ request'[r].previous = "NONE" /\ request'[r].new = "DRAFT"
    ELSE /\ entry' = entry
         /\ At(r, "insertPart")' => request'[r].kind = "document" \/ Editable(e)
         /\ At(r, "findItem")' => Editable(e)
         /\ At(r, "deletePart")' => /\ request'[r].c \in Parts
                                    /\ Parted(request'[r].c)
                                    /\ part[request'[r].c].kind # "item"

\* A request that begins leaves the parts, the history rows, the other requests
\* and the other entries.
LEMMA BeginFinds ==
    ASSUME TypeOK, NEW r \in Requests, NEW e \in Entries, BeginOn(r, e)
    PROVE  /\ request[r] = Idle /\ request'[r] \in Running /\ request'[r].e = e
           /\ \A q \in Requests \ {r} : request'[q] = request[q]
           /\ \A f \in Entries \ {e} : entry'[f] = entry[f]
           /\ UNCHANGED <<part, history, torn>>
           /\ raced' = IF \E q \in Requests : Handling(q, e) THEN raced \cup {e} ELSE raced
           /\ Finds(r, e)
<1>1. ASSUME NEW record \in Running, record.e = e, Start(r, e, record)
      PROVE  /\ request[r] = Idle /\ request'[r] = record
             /\ \A q \in Requests \ {r} : request'[q] = request[q]
             /\ UNCHANGED <<part, history, torn>>
             /\ raced' = IF \E q \in Requests : Handling(q, e) THEN raced \cup {e} ELSE raced
      BY <1>1 DEF Start, Goto, TypeOK
<1>2. CASE \E v \in Contents : InsertEntry(r, e, v)
  <2>1. PICK v \in Contents : InsertEntry(r, e, v)
        BY <1>2
  <2> DEFINE record == [pc |-> "insertHistory", e |-> e, previous |-> "NONE", new |-> "DRAFT"]
  <2>2. record \in Running /\ record.e = e /\ Start(r, e, record)
        BY <2>1 DEF Running, Statuses, InsertEntry
  <2>3. entry'[e] = [status |-> "DRAFT", content |-> v]
        BY <2>1 DEF InsertEntry, TypeOK
  <2>4. Exists(e)' /\ entry'[e].status = "DRAFT"
        BY <2>3 DEF Exists, Absent, Gone
  <2>5. entry[e] = Absent /\ \A f \in Entries \ {e} : entry'[f] = entry[f]
        BY <2>1 DEF InsertEntry, TypeOK
  <2>6. request'[r] = record
        BY <1>1, <2>2
  <2>7. Finds(r, e)
        BY <2>4, <2>5, <2>6 DEF Finds, At
  <2>8. UNCHANGED <<part, history, torn>>
        BY <1>1, <2>2
  <2> QED BY <1>1, <2>2, <2>5, <2>6, <2>7, <2>8
<1>3. ASSUME NEW record \in Running, record.e = e, Begin(r, e, record),
             record.pc # "insertHistory",
             record.pc = "insertPart" => record.kind = "document" \/ Editable(e),
             record.pc = "findItem" => Editable(e),
             record.pc = "deletePart" => /\ record.c \in Parts /\ Parted(record.c)
                                         /\ part[record.c].kind # "item"
      PROVE  /\ request[r] = Idle /\ request'[r] = record
             /\ \A q \in Requests \ {r} : request'[q] = request[q]
             /\ UNCHANGED <<entry, part, history, torn>>
             /\ raced' = IF \E q \in Requests : Handling(q, e) THEN raced \cup {e} ELSE raced
             /\ Finds(r, e)
  <2>1. Start(r, e, record) /\ entry' = entry
        BY <1>3 DEF Begin
  <2>2. request'[r] = record
        BY <1>1, <1>3, <2>1
  <2>3. Finds(r, e)
        BY <1>3, <2>1, <2>2 DEF Finds, At
  <2> QED BY <1>1, <1>3, <2>1, <2>2, <2>3
<1>4. ASSUME NEW v \in Contents, BeginUpdate(r, e, v)
      PROVE  \E record \in Running : Begin(r, e, record) /\ record.e = e /\ record.pc = "update"
  <2>1. [pc |-> "update", e |-> e, content |-> v] \in Running
        BY DEF Running
  <2> QED BY <1>4, <2>1 DEF BeginUpdate
<1>5. CASE BeginDelete(r, e)
  <2>1. [pc |-> "delete", e |-> e] \in Running
        BY DEF Running
  <2>2. \E record \in Running : Begin(r, e, record) /\ record.e = e /\ record.pc = "delete"
        BY <1>5, <2>1 DEF BeginDelete
  <2> QED BY <1>3, <2>2
<1>6. ASSUME NEW s \in Statuses, BeginChangeStatus(r, e, s)
      PROVE  \E record \in Running :
                Begin(r, e, record) /\ record.e = e /\ record.pc = "writeStatus"
  <2>1. entry[e].status \in Statuses
        BY <1>6 DEF BeginChangeStatus, TypeOK, Exists, EntryRow
  <2>2. [pc |-> "writeStatus", e |-> e, previous |-> entry[e].status, new |-> s] \in Running
        BY <2>1 DEF Running
  <2> QED BY <1>6, <2>2 DEF BeginChangeStatus
<1>7. ASSUME NEW kind \in Kinds, BeginAddPart(r, e, kind)
      PROVE  \E record \in Running :
                /\ Begin(r, e, record) /\ record.e = e /\ record.pc = "insertPart"
                /\ record.kind = "document" \/ Editable(e)
  <2>1. [pc |-> "insertPart", e |-> e, kind |-> kind] \in Running
        BY DEF Running
  <2> QED BY <1>7, <2>1 DEF BeginAddPart
<1>8. ASSUME NEW c \in Parts, BeginRemoveItem(r, e, c)
      PROVE  \E record \in Running :
                /\ Begin(r, e, record) /\ record.e = e /\ record.pc = "findItem"
                /\ Editable(e)
  <2>1. [pc |-> "findItem", e |-> e, c |-> c] \in Running
        BY DEF Running
  <2> QED BY <1>8, <2>1 DEF BeginRemoveItem
<1>9. ASSUME NEW c \in Parts, BeginRemovePart(r, e, c)
      PROVE  \E record \in Running :
                /\ Begin(r, e, record) /\ record.e = e /\ record.pc = "deletePart"
                /\ record.c \in Parts /\ Parted(record.c) /\ part[record.c].kind # "item"
  <2>1. [pc |-> "deletePart", e |-> e, c |-> c] \in Running
        BY DEF Running
  <2> QED BY <1>9, <2>1 DEF BeginRemovePart
<1> QED BY <1>2, <1>3, <1>4, <1>5, <1>6, <1>7, <1>8, <1>9 DEF BeginOn

\* A request that goes on leaves the history of other entries; what it leaves of
\* the rows of its own entry depends on the step.
LEMMA AdvanceOther ==
    ASSUME TypeOK, NEW r \in Requests, Advance(r)
    PROVE  /\ \A f \in Entries \ {request[r].e} : history'[f] = history[f]
           /\ torn \subseteq torn'
           /\ At(r, "insertHistory")' => WriteStatus(r)
<1>1. request[r] \in Running /\ request[r].e \in Entries
      BY AdvanceFields
<1> QED BY <1>1 DEF Advance, Update, Delete, WriteStatus, InsertHistory, InsertPart, FindItem,
        DeletePart, Abort, Goto, At, Idle, TypeOK

\* A step that leaves the status and the history of an entry, and the handler
\* about to insert a row of it, leaves them consistent.
LEMMA HistoryFrame ==
    ASSUME NEW f \in Entries, HistoryOf(f), history'[f] = history[f],
           entry'[f] = Absent => entry[f] = Absent,
           Exists(f)' => Exists(f) /\ entry'[f].status = entry[f].status,
           raced \subseteq raced', torn \subseteq torn',
           f \notin raced' \cup torn' => \A q \in Requests :
              /\ Noting(q, f)' <=> Noting(q, f)
              /\ Noting(q, f) => request'[q] = request[q]
    PROVE  HistoryOf(f)'
<1>1. entry'[f] = Absent => history'[f] = <<>>
      BY DEF HistoryOf
<1>2. CASE f \notin raced' \cup torn' /\ Exists(f)'
  <2>1. /\ f \notin raced \cup torn /\ Exists(f)
        /\ history'[f] = history[f] /\ entry'[f].status = entry[f].status
        BY <1>2
  <2>2. \A q \in Requests : /\ Noting(q, f)' <=> Noting(q, f)
                            /\ Noting(q, f) => request'[q] = request[q]
        BY <1>2
  <2> QED BY <1>1, <2>1, <2>2 DEF HistoryOf
<1> QED BY <1>1, <1>2 DEF HistoryOf

\* A request that begins notes nothing of another entry, and creates its own
\* with an empty history.
LEMMA HistoryBegin ==
    ASSUME Inv, NEW r \in Requests, NEW e \in Entries, BeginOn(r, e),
           NEW f \in Entries, HistoryOf(f)
    PROVE  HistoryOf(f)'
<1>1. /\ request[r] = Idle /\ request'[r].e = e
      /\ \A q \in Requests \ {r} : request'[q] = request[q]
      /\ \A g \in Entries \ {e} : entry'[g] = entry[g]
      /\ history' = history /\ torn' = torn
      /\ raced' = IF \E q \in Requests : Handling(q, e) THEN raced \cup {e} ELSE raced
      /\ Finds(r, e)
      BY BeginFinds DEF Inv
<1>2. \A q \in Requests : Noting(q, f) => q # r /\ request'[q] = request[q]
      BY <1>1 DEF Noting, At, Idle
<1>3. CASE f # e
  <2>1. \A q \in Requests : Noting(q, f)' <=> Noting(q, f)
        BY <1>1, <1>2, <1>3 DEF Noting, At
  <2> QED BY <1>1, <1>2, <1>3, <2>1, HistoryFrame DEF Exists
<1>4. CASE f = e /\ ~At(r, "insertHistory")'
  <2>1. \A q \in Requests : Noting(q, f)' <=> Noting(q, f)
        BY <1>1, <1>2, <1>4 DEF Noting, At
  <2>2. entry' = entry
        BY <1>1, <1>4 DEF Finds
  <2> QED BY <1>1, <1>2, <2>1, <2>2, HistoryFrame DEF Exists
<1>5. CASE f = e /\ At(r, "insertHistory")'
  <2>1. /\ entry[f] = Absent /\ Exists(f)' /\ entry'[f].status = "DRAFT"
        /\ request'[r].previous = "NONE" /\ request'[r].new = "DRAFT"
        BY <1>1, <1>5 DEF Finds
  <2>2. history'[f] = <<>> /\ entry'[f] # Absent
        BY <1>1, <2>1 DEF HistoryOf, Exists
  <2>3. IsPath(<<>>)
        BY DEF IsPath
  <2>4. Noting(r, f)'
        BY <1>1, <1>5 DEF Noting
  <2>5. ASSUME f \notin raced' PROVE \A q \in Requests : Noting(q, f)' => q = r
        BY <1>1, <1>5, <2>5 DEF Noting, At, Handling, Idle
  <2> QED BY <2>1, <2>2, <2>3, <2>4, <2>5 DEF HistoryOf
<1> QED BY <1>3, <1>4, <1>5

\* The handler that wrote the status inserts its row where the path ended.
LEMMA HistoryAdvance ==
    ASSUME Inv, NEW r \in Requests, Advance(r), NEW f \in Entries, HistoryOf(f)
    PROVE  HistoryOf(f)'
<1> DEFINE q0 == request[r]
<1> USE DEF Inv
<1>1. q0 \in Running /\ q0.e \in Entries /\ q0 # Idle
      BY AdvanceFields
<1>2. /\ \A g \in Entries \ {q0.e} : entry'[g] = entry[g] /\ history'[g] = history[g]
      /\ \A p \in Requests \ {r} : request'[p] = request[p]
      /\ request'[r] = Idle \/ request'[r].e = q0.e
      /\ raced' = raced /\ torn \subseteq torn'
      BY AdvanceFrame, AdvanceOther
<1>3. CASE f # q0.e
  <2>1. \A p \in Requests : /\ Noting(p, f)' <=> Noting(p, f)
                            /\ Noting(p, f) => request'[p] = request[p]
        BY <1>1, <1>2, <1>3 DEF Noting, At, Idle
  <2> QED BY <1>2, <1>3, <2>1, HistoryFrame DEF Exists
<1>4. CASE f = q0.e /\ WriteStatus(r)
  <2>1. /\ q0.pc = "writeStatus" /\ request'[r] = [q0 EXCEPT !.pc = "insertHistory"]
        /\ UNCHANGED <<history, torn>>
        BY <1>4 DEF WriteStatus, Goto, At, TypeOK
  <2>2. CASE ~Exists(f)
    <3>1. entry' = entry
          BY <1>4, <2>2 DEF WriteStatus
    <3> QED BY <2>1, <2>2, <3>1 DEF HistoryOf, Exists
  <2>3. CASE Exists(f)
    <3>1. entry'[f] = [entry[f] EXCEPT !.status = q0.new] /\ entry[f] \in EntryRow
          BY <1>4, <2>3 DEF WriteStatus, TypeOK, Exists
    <3>2. entry'[f].status = q0.new /\ entry'[f] # Absent
          BY <3>1 DEF EntryRow, Absent
    <3>3. CASE f \in raced' \cup torn'
          BY <3>2, <3>3 DEF HistoryOf
    <3>4. CASE f \notin raced' \cup torn'
      <4>1. Handling(r, f) /\ f \notin raced /\ f \notin torn
            BY <1>1, <1>2, <1>4, <3>4 DEF Handling
      <4>2. /\ \A p \in Requests : Handling(p, f) => p = r
            /\ entry[f].status = q0.previous /\ q0.new \in Transitions(q0.previous)
            BY <2>1, <4>1 DEF AloneInv, StageInv, At
      <4>3. \A p \in Requests : ~Noting(p, f)
            BY <2>1, <4>2 DEF Noting, Handling, At, Idle
      <4>4. /\ IsPath(history[f]) /\ history[f] # <<>>
            /\ history[f][Len(history[f])].new = q0.previous
            BY <2>3, <4>1, <4>2, <4>3 DEF HistoryOf
      <4>5. /\ request'[r].new = q0.new /\ request'[r].previous = q0.previous
            /\ request'[r].e = f /\ At(r, "insertHistory")'
            BY <1>1, <1>4, <2>1 DEF Running, At
      <4>6. \A p \in Requests : Noting(p, f)' <=> p = r
            BY <1>2, <4>3, <4>5 DEF Noting, At
      <4> QED BY <2>1, <3>2, <4>2, <4>4, <4>5, <4>6 DEF HistoryOf
    <3> QED BY <3>3, <3>4
  <2> QED BY <2>2, <2>3
<1>5. CASE f = q0.e /\ InsertHistory(r)
  <2> DEFINE row == [previous |-> q0.previous, new |-> q0.new]
  <2>1. /\ q0.pc = "insertHistory" /\ request'[r] = Idle /\ entry' = entry /\ torn' = torn
        /\ row \in HistoryRow /\ history[f] \in Seq(HistoryRow)
        BY <1>1, <1>5 DEF InsertHistory, Goto, At, TypeOK, Running, HistoryRow
  <2>2. CASE ~Exists(f)
    <3>1. history' = history
          BY <1>5, <2>2 DEF InsertHistory
    <3> QED BY <2>1, <2>2, <3>1 DEF HistoryOf, Exists
  <2>3. CASE Exists(f)
    <3>1. history'[f] = Append(history[f], row) /\ entry'[f] # Absent
          BY <1>5, <2>1, <2>3 DEF InsertHistory, TypeOK, Exists
    <3>2. CASE f \in raced' \cup torn'
          BY <3>1, <3>2 DEF HistoryOf
    <3>3. CASE f \notin raced' \cup torn'
      <4>1. Handling(r, f) /\ Noting(r, f) /\ f \notin raced \cup torn
            BY <1>1, <1>2, <1>5, <2>1, <3>3 DEF Handling, Noting, At
      <4>2. \A p \in Requests : Handling(p, f) => p = r
            BY <4>1 DEF AloneInv
      <4>3. /\ IsPath(history[f]) /\ q0.new = entry[f].status
            /\ IF history[f] = <<>> THEN q0.previous = "NONE" /\ q0.new = "DRAFT"
               ELSE /\ q0.previous = history[f][Len(history[f])].new
                    /\ q0.new \in Transitions(q0.previous)
            BY <2>3, <4>1 DEF HistoryOf
      <4>4. /\ IsPath(history'[f]) /\ history'[f] # <<>>
            /\ history'[f][Len(history'[f])] = row
            BY <2>1, <3>1, <4>3, PathAppend
      <4>5. \A p \in Requests : ~Noting(p, f)'
            BY <1>2, <2>1, <4>2 DEF Noting, Handling, At, Idle
      <4> QED BY <2>1, <3>1, <4>3, <4>4, <4>5 DEF HistoryOf
    <3> QED BY <3>2, <3>3
  <2> QED BY <2>2, <2>3
<1>6. CASE f = q0.e /\ Delete(r)
  <2>1. history'[f] = <<>> /\ ~Exists(f)'
        BY <1>6 DEF Delete, TypeOK, Exists
  <2> QED BY <2>1 DEF HistoryOf
<1>7. CASE f = q0.e /\ Abort(r) /\ At(r, "insertHistory")
  <2>1. f \in torn' /\ entry' = entry /\ history' = history
        BY <1>7 DEF Abort
  <2> QED BY <2>1 DEF HistoryOf
<1>8. CASE f = q0.e /\ ~WriteStatus(r) /\ ~InsertHistory(r) /\ ~Delete(r)
             /\ ~(Abort(r) /\ At(r, "insertHistory"))
  <2>1. /\ history' = history
        /\ entry'[f] = Absent => entry[f] = Absent
        /\ Exists(f)' => Exists(f) /\ entry'[f].status = entry[f].status
    <3>1. CASE Update(r)
      <4>1. CASE Exists(f)
        <5>1. entry'[f] = [entry[f] EXCEPT !.content = q0.content] /\ entry[f] \in EntryRow
              BY <1>8, <3>1, <4>1 DEF Update, TypeOK, Exists
        <5>2. entry'[f].status = entry[f].status /\ entry'[f] # Absent
              BY <5>1 DEF EntryRow, Absent
        <5> QED BY <3>1, <4>1, <5>2 DEF Update
      <4>2. CASE ~Exists(f)
            BY <1>8, <3>1, <4>2 DEF Update, Exists
      <4> QED BY <4>1, <4>2
    <3>2. CASE ~Update(r)
          BY <1>8, <3>2 DEF Advance, InsertPart, FindItem, DeletePart, Abort, Exists
    <3> QED BY <3>1, <3>2
  <2>2. ~At(r, "insertHistory") /\ ~At(r, "insertHistory")'
        BY <1>8, AdvanceOther DEF Advance, Update, InsertPart, FindItem, DeletePart, At
  <2>3. \A p \in Requests : /\ Noting(p, f)' <=> Noting(p, f)
                            /\ Noting(p, f) => request'[p] = request[p]
        BY <1>2, <2>2 DEF Noting, At
  <2> QED BY <1>2, <2>1, <2>3, HistoryFrame
<1> QED BY <1>3, <1>4, <1>5, <1>6, <1>7, <1>8

\* The history of the status tells how an entry got it (createEntry and
\* changeStatus): a path of STATUS_TRANSITIONS from DRAFT, unless two requests
\* met on the entry or a handler died before its history row.
THEOREM HistoryCorrect == Spec => []HistoryTells
<1>1. Init => HistoryInv
      BY DEF Init, HistoryInv, HistoryOf, Exists
<1>2. Inv /\ HistoryInv /\ [Next]_vars => HistoryInv'
  <2> SUFFICES ASSUME Inv, HistoryInv, [Next]_vars, NEW f \in Entries
               PROVE  HistoryOf(f)'
      BY DEF HistoryInv
  <2>1. HistoryOf(f)
        BY DEF HistoryInv
  <2>2. CASE UNCHANGED vars
        BY <2>1, <2>2 DEF vars, HistoryOf, Exists, Noting, At
  <2> QED BY <2>1, <2>2, HistoryBegin, HistoryAdvance DEF Next
<1>3. HistoryInv => HistoryTells
  <2> SUFFICES ASSUME HistoryInv, NEW e \in Entries \ (raced \cup torn), Exists(e),
                      \A r \in Requests : ~Handling(r, e)
               PROVE  /\ history[e] # <<>> /\ IsPath(history[e])
                      /\ history[e][Len(history[e])].new = entry[e].status
      BY DEF HistoryTells
  <2>1. \A r \in Requests : ~Noting(r, e)
        BY DEF Noting, Handling, At, Idle
  <2> QED BY <2>1 DEF HistoryInv, HistoryOf
<1> QED BY Invariance, <1>1, <1>2, <1>3, PTL DEF Spec

(***************************************************************************)
(* Items, parties and documents.                                           *)
(***************************************************************************)

IsItem(c) == Parted(c) /\ part[c].kind = "item"

\* An item is removed by a handler of its own entry.
OwnItemInv ==
    \A r \in Requests : At(r, "deletePart") =>
        /\ part[request[r].c] # Absent
        /\ IsItem(request[r].c) => part[request[r].c].of = request[r].e

\* The only handler of an entry adds items and parties, and removes items, only
\* while the entry is editable.
EditsInv ==
    \A e \in Entries \ raced : \A r \in Requests : Handling(r, e) =>
        /\ At(r, "insertPart") => request[r].kind = "document" \/ Editable(e)
        /\ At(r, "findItem") => Editable(e)
        /\ At(r, "deletePart") /\ IsItem(request[r].c) => Editable(e)

PartsInv == OwnItemInv /\ EditsInv


\* What a step of a handler can do to a part: insert it under the handler's
\* entry, delete it, or nothing.
LEMMA PartEffect ==
    ASSUME TypeOK, NEW r \in Requests, Advance(r), NEW c \in Parts
    PROVE  \/ part'[c] = part[c]
           \/ /\ part'[c] = Gone
              /\ \/ Delete(r) /\ part[c].of = request[r].e
                 \/ DeletePart(r) /\ request[r].c = c
           \/ /\ At(r, "insertPart") /\ part[c] = Absent
              /\ part'[c] = [kind |-> request[r].kind, of |-> request[r].e]
<1>1. CASE Delete(r)
      BY <1>1 DEF Delete, PartsOf, TypeOK
<1>2. CASE \E d \in Parts : InsertPart(r, d)
      BY <1>2 DEF InsertPart, TypeOK
<1>3. CASE DeletePart(r)
      BY <1>3 DEF DeletePart, TypeOK
<1>4. CASE ~Delete(r) /\ ~(\E d \in Parts : InsertPart(r, d)) /\ ~DeletePart(r)
      BY <1>4 DEF Advance, Update, WriteStatus, InsertHistory, FindItem, Abort
<1> QED BY <1>1, <1>2, <1>3, <1>4

\* A part that was inserted is never absent again, and stays the item it was.
LEMMA PartKept ==
    ASSUME TypeOK, NEW r \in Requests, Advance(r), NEW c \in Parts, part[c] # Absent
    PROVE  /\ part'[c] # Absent
           /\ IsItem(c)' => part'[c] = part[c]
<1>1. Gone # Absent
      BY DEF Gone, Absent
<1> QED BY <1>1, PartEffect DEF IsItem, Parted

\* Every step keeps what handlers may do to the parts.
LEMMA PartsStep ==
    ASSUME Inv, PartsInv, [Next]_vars
    PROVE  PartsInv'
<1> USE DEF Inv, PartsInv
<1>1. ASSUME NEW r \in Requests, NEW e \in Entries, BeginOn(r, e)
      PROVE  PartsInv'
  <2>1. /\ request[r] = Idle /\ request'[r].e = e
        /\ \A q \in Requests \ {r} : request'[q] = request[q]
        /\ \A g \in Entries \ {e} : entry'[g] = entry[g]
        /\ part' = part
        /\ raced' = IF \E q \in Requests : Handling(q, e) THEN raced \cup {e} ELSE raced
        /\ Finds(r, e)
        BY <1>1, BeginFinds
  <2>2. OwnItemInv'
    <3> SUFFICES ASSUME NEW p \in Requests, At(p, "deletePart")'
                 PROVE  /\ part'[request'[p].c] # Absent
                        /\ IsItem(request[p].c)' => part'[request'[p].c].of = request'[p].e
        BY DEF OwnItemInv
    <3>1. CASE p = r
          BY <2>1, <3>1 DEF Finds, At, IsItem, Parted
    <3>2. CASE p # r
          BY <2>1, <3>2 DEF OwnItemInv, At, IsItem, Parted
    <3> QED BY <3>1, <3>2
  <2>3. EditsInv'
    <3> SUFFICES ASSUME NEW f \in Entries \ raced', NEW p \in Requests, Handling(p, f)'
                 PROVE  /\ At(p, "insertPart")' => request'[p].kind = "document" \/ Editable(f)'
                        /\ At(p, "findItem")' => Editable(f)'
                        /\ At(p, "deletePart")' /\ IsItem(request[p].c)' => Editable(f)'
        BY DEF EditsInv
    <3>1. CASE f = e
      <4>1. p = r
            BY <2>1, <3>1 DEF Handling
      <4>2. entry' = entry => (Editable(f)' <=> Editable(f))
            BY DEF Editable, Exists
      <4> QED BY <2>1, <3>1, <4>1, <4>2 DEF Finds, At, IsItem, Parted
    <3>2. CASE f # e
      <4>1. p # r /\ Handling(p, f) /\ request'[p] = request[p] /\ f \notin raced
            BY <2>1, <3>2 DEF Handling
      <4>2. /\ Editable(f)' <=> Editable(f)
            /\ IsItem(request[p].c)' <=> IsItem(request[p].c)
            BY <2>1, <3>2, <4>1 DEF Editable, Exists, IsItem, Parted
      <4> QED BY <4>1, <4>2 DEF EditsInv, At
    <3> QED BY <3>1, <3>2
  <2> QED BY <2>2, <2>3
<1>2. ASSUME NEW r \in Requests, Advance(r)
      PROVE  PartsInv'
  <2> DEFINE q0 == request[r]
  <2>1. q0 \in Running /\ q0.e \in Entries /\ q0 # Idle
        BY <1>2, AdvanceFields
  <2>2. /\ \A g \in Entries \ {q0.e} : entry'[g] = entry[g]
        /\ \A p \in Requests \ {r} : request'[p] = request[p]
        /\ \/ request'[r] = Idle
           \/ request'[r].e = q0.e /\ request'[r].pc \in {"insertHistory", "deletePart"}
        /\ raced' = raced
        BY <1>2, AdvanceFrame
  <2>3. At(r, "deletePart")' =>
          /\ At(r, "findItem") /\ entry' = entry /\ part' = part
          /\ request'[r].c = q0.c /\ request'[r].e = q0.e
          /\ part[q0.c] = [kind |-> "item", of |-> q0.e]
        BY <1>2, <2>1 DEF Advance, Update, Delete, WriteStatus, InsertHistory, InsertPart,
           FindItem, DeletePart, Abort, Goto, At, Idle, TypeOK, Running
  <2>4. ASSUME NEW p \in Requests, At(p, "deletePart"), p # r
        PROVE  /\ request[p].c \in Parts /\ part'[request[p].c] # Absent
               /\ IsItem(request[p].c)' => /\ IsItem(request[p].c)
                                           /\ part'[request[p].c] = part[request[p].c]
    <3>1. request[p] \in Running
          BY <2>4 DEF At, Idle, TypeOK
    <3>2. PICK c \in Parts : c = request[p].c
          BY <2>4, <3>1 DEF At, Running
    <3>3. part[c] # Absent
          BY <2>4, <3>2 DEF OwnItemInv
    <3>4. part'[c] # Absent /\ (IsItem(c)' => part'[c] = part[c])
          BY <1>2, <3>3, PartKept
    <3>5. request'[p].c = c
          BY <2>2, <2>4, <3>2
    <3> QED BY <3>2, <3>4, <3>5 DEF IsItem, Parted
  <2>5. OwnItemInv'
    <3> SUFFICES ASSUME NEW p \in Requests, At(p, "deletePart")'
                 PROVE  /\ part'[request'[p].c] # Absent
                        /\ IsItem(request[p].c)' => part'[request'[p].c].of = request'[p].e
        BY DEF OwnItemInv
    <3>1. CASE p = r
          BY <2>3, <3>1 DEF Absent
    <3>2. CASE p # r
      <4>1. At(p, "deletePart") /\ request'[p] = request[p]
            BY <2>2, <3>2 DEF At
      <4> QED BY <2>4, <3>2, <4>1 DEF OwnItemInv
    <3> QED BY <3>1, <3>2
  <2>6. EditsInv'
    <3> SUFFICES ASSUME NEW f \in Entries \ raced', NEW p \in Requests, Handling(p, f)'
                 PROVE  /\ At(p, "insertPart")' => request'[p].kind = "document" \/ Editable(f)'
                        /\ At(p, "findItem")' => Editable(f)'
                        /\ At(p, "deletePart")' /\ IsItem(request[p].c)' => Editable(f)'
        BY DEF EditsInv
    <3>1. CASE p = r
      <4>1. Handling(r, f) /\ f \notin raced
            BY <2>1, <2>2, <3>1 DEF Handling
      <4>2. At(r, "deletePart")' => Editable(f)'
            BY <2>3, <4>1 DEF EditsInv, Editable, Exists
      <4> QED BY <2>2, <3>1, <4>2 DEF At, Handling
    <3>2. CASE p # r
      <4>1. Handling(p, f) /\ request'[p] = request[p] /\ f \notin raced
            BY <2>2, <3>2 DEF Handling
      <4>2. f # q0.e
            BY <1>2, <2>1, <3>2, <4>1 DEF AloneInv, Handling
      <4>3. Editable(f)' <=> Editable(f)
            BY <2>2, <4>2 DEF Editable, Exists
      <4>4. At(p, "deletePart") /\ IsItem(request[p].c)' => IsItem(request[p].c)
            BY <2>4, <3>2
      <4> QED BY <4>1, <4>3, <4>4 DEF EditsInv, At
    <3> QED BY <3>1, <3>2
  <2> QED BY <2>5, <2>6
<1>3. CASE UNCHANGED vars
      BY <1>3 DEF vars, OwnItemInv, EditsInv, At, Handling, IsItem, Parted, Editable, Exists
<1> QED BY <1>1, <1>2, <1>3 DEF Next

\* An entry that is no longer editable is frozen (assertEditable): whatever the
\* other requests do, and through whichever entry a part is removed, unless two
\* requests met on it.
THEOREM FrozenKept == Spec => FrozenOnceValidated
<1>1. ASSUME Inv, PartsInv, [Next]_vars, NEW e \in Entries \ raced', Exists(e), ~Editable(e)
      PROVE  /\ entry'[e] # Gone /\ entry'[e].content = entry[e].content
             /\ Items(e)' = Items(e) /\ Parties(e)' \subseteq Parties(e)
  <2> USE <1>1 DEF Inv, PartsInv
  <2>1. ASSUME entry'[e] = entry[e], part' = part
        PROVE  /\ entry'[e] # Gone /\ entry'[e].content = entry[e].content
               /\ Items(e)' = Items(e) /\ Parties(e)' \subseteq Parties(e)
        BY <2>1 DEF Exists, Items, Parties, PartsOf, Parted
  <2>2. ASSUME NEW r \in Requests, NEW f \in Entries, BeginOn(r, f)
        PROVE  entry'[e] = entry[e] /\ part' = part
    <3>1. part' = part /\ Finds(r, f) /\ (f # e => entry'[e] = entry[e])
          BY <2>2, BeginFinds
    <3> QED BY <3>1 DEF Finds, Exists
  <2>3. ASSUME NEW r \in Requests, Advance(r)
        PROVE  /\ entry'[e] # Gone /\ entry'[e].content = entry[e].content
               /\ Items(e)' = Items(e) /\ Parties(e)' \subseteq Parties(e)
    <3> DEFINE q0 == request[r]
    <3>1. q0 \in Running /\ q0.e \in Entries /\ q0 # Idle /\ raced' = raced
          BY <2>3, AdvanceFields, AdvanceFrame
    <3>2. q0.e = e => /\ ~At(r, "update") /\ ~At(r, "delete")
                      /\ At(r, "insertPart") => q0.kind = "document"
                      /\ At(r, "deletePart") => ~IsItem(q0.c)
      <4> SUFFICES ASSUME q0.e = e
                   PROVE  /\ ~At(r, "update") /\ ~At(r, "delete")
                          /\ At(r, "insertPart") => q0.kind = "document"
                          /\ At(r, "deletePart") => ~IsItem(q0.c)
          OBVIOUS
      <4>1. Handling(r, e) /\ e \notin raced
            BY <3>1 DEF Handling
      <4>2. ~At(r, "update") /\ ~At(r, "delete")
            BY <4>1 DEF AloneInv, Editable, EditableStatuses
      <4> QED BY <4>1, <4>2 DEF EditsInv
    <3>3. entry'[e] # Gone /\ entry'[e].content = entry[e].content
      <4>1. CASE q0.e # e
            BY <2>3, <4>1, AdvanceFrame DEF Exists
      <4>2. CASE q0.e = e /\ WriteStatus(r)
        <5>1. entry'[e] = [entry[e] EXCEPT !.status = q0.new] /\ entry[e] \in EntryRow
              BY <4>2 DEF WriteStatus, TypeOK, Exists
        <5> QED BY <5>1 DEF EntryRow, Gone
      <4>3. CASE q0.e = e /\ ~WriteStatus(r)
        <5>1. entry' = entry
              BY <2>3, <3>2, <4>3 DEF Advance, Update, Delete, InsertHistory, InsertPart, FindItem,
                 DeletePart, Abort
        <5> QED BY <5>1 DEF Exists
      <4> QED BY <4>1, <4>2, <4>3
    <3>4. ASSUME NEW c \in Parts
          PROVE  /\ c \in Items(e)' <=> c \in Items(e)
                 /\ c \in Parties(e)' => c \in Parties(e)
      <4>1. CASE part'[c] = part[c]
            BY <4>1 DEF Items, Parties, PartsOf, Parted
      <4>2. CASE /\ part'[c] = Gone
                 /\ \/ Delete(r) /\ part[c].of = q0.e
                    \/ DeletePart(r) /\ q0.c = c
        <5>1. c \notin Items(e)' /\ c \notin Parties(e)'
              BY <4>2 DEF Items, Parties, PartsOf, Parted
        <5>2. c \notin Items(e)
          <6>1. CASE Delete(r) /\ part[c].of = q0.e
                BY <3>2, <6>1 DEF Delete, Items, PartsOf
          <6>2. CASE DeletePart(r) /\ q0.c = c
            <7>1. At(r, "deletePart")
                  BY <6>2 DEF DeletePart
            <7>2. IsItem(c) => part[c].of = q0.e /\ q0.e # e
                  BY <3>2, <6>2, <7>1 DEF OwnItemInv
            <7> QED BY <7>2 DEF Items, PartsOf, IsItem
          <6> QED BY <4>2, <6>1, <6>2
        <5> QED BY <5>1, <5>2
      <4>3. CASE /\ At(r, "insertPart") /\ part[c] = Absent
                 /\ part'[c] = [kind |-> q0.kind, of |-> q0.e]
        <5>1. c \notin Items(e)
              BY <4>3 DEF Items, PartsOf, Parted
        <5>2. CASE q0.e # e
              BY <4>3, <5>1, <5>2 DEF Items, Parties, PartsOf
        <5>3. CASE q0.e = e
              BY <3>2, <4>3, <5>1, <5>3 DEF Items, Parties, PartsOf
        <5> QED BY <5>2, <5>3
      <4> QED BY <2>3, <4>1, <4>2, <4>3, PartEffect
    <3> QED BY <3>3, <3>4 DEF Items, Parties, PartsOf
  <2>4. CASE UNCHANGED vars
        BY <2>1, <2>4 DEF vars
  <2> QED BY <2>1, <2>2, <2>3, <2>4 DEF Next
<1>2. Inv /\ PartsInv /\ [Next]_vars =>
        [\A e \in Entries \ raced' :
           (Exists(e) /\ ~Editable(e)) =>
             /\ entry'[e] # Gone
             /\ entry'[e].content = entry[e].content
             /\ Items(e)' = Items(e)
             /\ Parties(e)' \subseteq Parties(e)]_vars
      BY <1>1
<1>3. Init => PartsInv
      BY DEF Init, PartsInv, OwnItemInv, EditsInv, At, Handling, Idle
<1> QED BY Invariance, PartsStep, <1>2, <1>3, PTL DEF Spec, FrozenOnceValidated
=============================================================================
