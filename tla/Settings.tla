------------------------------ MODULE Settings ------------------------------
(***************************************************************************)
(* Rows of which an organization has one for each subject, looked for in   *)
(* one statement and written in another: feature-flags (one for a key),    *)
(* billing-overrides (one for an organization), and the preferences of     *)
(* notifications (one for a user and a type).  The first two have a unique *)
(* key in the database, the preferences have none.  A flag of the whole    *)
(* platform has no organization, and the key does not compare what is null. *)
(***************************************************************************)
EXTENDS Handlers, FiniteSets

CONSTANTS
    Ids,        \* ids of rows
    Values,     \* what a row says: isEnabled, discountPercent, the channels
    Keep        \* the request leaves the value out

Kinds == {"flag", "override", "preference", "global"}
Unique == {"flag", "override"}

VARIABLES
    setting,    \* setting[i]: the row
    asked,      \* history: asked[i], the value last asked for
    globals     \* history: times the flag of the platform was set

settings == <<setting, asked, globals>>
vars == <<setting, asked, globals, request, started, raced>>

SettingRow == [kind : Kinds, value : Values]
Running ==
    [pc : {"insert"}, on : Kinds, value : Values]
    \cup [pc : {"update"}, on : Kinds, id : Ids, value : Values, wants : Values \cup {Keep}]
    \cup [pc : {"delete"}, on : Kinds, id : Ids]

TypeOK ==
    /\ setting \in [Ids -> SettingRow \cup {Absent, Gone}]
    /\ asked \in [Ids -> Values \cup {Keep}]
    /\ globals \in 0..Cardinality(Ids)
    /\ HandlersTypeOK(Running, Kinds)

Init ==
    /\ setting = [i \in Ids |-> Absent]
    /\ asked = [i \in Ids |-> Keep]
    /\ globals = 0
    /\ HandlersInit

Of(kind) == {i \in Ids : Present(setting[i]) /\ setting[i].kind = kind}

\* create of flags and overrides: none was found.
BeginCreate(r, kind, v) ==
    /\ kind \in Unique
    /\ Of(kind) = {}
    /\ Start(r, [pc |-> "insert", on |-> kind, value |-> v])
    /\ UNCHANGED settings

\* Fault: what the request leaves out becomes what it is on creation.
HeldDefault(i, v) == IF v = Keep THEN CHOOSE w \in Values : TRUE ELSE v

\* What the request leaves out is written as it was read.
Held(i, v) == IF v = Keep THEN setting[i].value ELSE v

\* update, of flags and overrides
BeginUpdate(r, i, v) ==
    /\ Present(setting[i])
    /\ setting[i].kind \in Unique
    /\ Start(r, [pc |-> "update", on |-> setting[i].kind, id |-> i, value |-> Held(i, v), wants |-> v])
    /\ UNCHANGED settings

BeginDelete(r, i) ==
    /\ Present(setting[i])
    /\ setting[i].kind \in Unique
    /\ Start(r, [pc |-> "delete", on |-> setting[i].kind, id |-> i])
    /\ UNCHANGED settings

\* Fault: every preference is another row.
BeginUpsertAlways(r, v) ==
    /\ Start(r, [pc |-> "insert", on |-> "preference", value |-> v])
    /\ UNCHANGED settings

\* upsertPreference: any of the rows found is updated, or one is inserted.
BeginUpsert(r, v) ==
    /\ IF Of("preference") = {}
       THEN Start(r, [pc |-> "insert", on |-> "preference", value |-> v])
       ELSE \E i \in Of("preference") :
                Start(r, [pc |-> "update", on |-> "preference", id |-> i, value |-> v, wants |-> v])
    /\ UNCHANGED settings

Put(i, kind, v) ==
    /\ setting' = [setting EXCEPT ![i] = [kind |-> kind, value |-> v]]
    /\ asked' = [asked EXCEPT ![i] = v]

\* setFeatureFlag for an organization: one statement inserts the row or updates it.
SetFlag(r, i, v) ==
    /\ Once(r, "flag")
    /\ IF Of("flag") = {} THEN setting[i] = Absent ELSE i \in Of("flag")
    /\ Put(i, "flag", v)
    /\ UNCHANGED globals

\* Fault: the row there is, is updated.
SetGlobalOnce(r, i, v) ==
    /\ Once(r, "global")
    /\ IF Of("global") = {} THEN setting[i] = Absent ELSE i \in Of("global")
    /\ Put(i, "global", v)
    /\ globals' = globals + 1

\* setFeatureFlag for the platform: no row conflicts with one whose organization
\* is null, so every time is another row.
SetGlobal(r, i, v) ==
    /\ Once(r, "global")
    /\ setting[i] = Absent
    /\ Put(i, "global", v)
    /\ globals' = globals + 1

\* The key refuses a second row of a kind that has one.
Insert(r, i) ==
    LET q == request[r] IN
    /\ At(r, "insert")
    /\ setting[i] = Absent
    /\ IF q.on \in Unique /\ Of(q.on) # {}
       THEN UNCHANGED settings
       ELSE Put(i, q.on, q.value) /\ UNCHANGED globals
    /\ Finish(r)

Update(r) ==
    LET q == request[r] IN
    /\ At(r, "update")
    /\ IF Present(setting[q.id])
       THEN /\ setting' = [setting EXCEPT ![q.id].value = q.value]
            /\ asked' = IF q.wants = Keep THEN asked ELSE [asked EXCEPT ![q.id] = q.wants]
       ELSE UNCHANGED <<setting, asked>>
    /\ Finish(r)
    /\ UNCHANGED globals

Delete(r) ==
    /\ At(r, "delete")
    /\ setting' = [setting EXCEPT ![request[r].id] = Gone]
    /\ Finish(r)
    /\ UNCHANGED <<asked, globals>>

Abort(r) == Stop(r) /\ UNCHANGED settings

Next ==
    \E r \in Requests :
        \/ \E v \in Values :
            \/ \E kind \in Kinds : BeginCreate(r, kind, v)
            \/ BeginUpsert(r, v)
        \/ \E i \in Ids :
            \/ \E v \in Values \cup {Keep} : BeginUpdate(r, i, v)
            \/ \E v \in Values : SetFlag(r, i, v) \/ SetGlobal(r, i, v)
            \/ BeginDelete(r, i) \/ Insert(r, i)
        \/ Update(r) \/ Delete(r) \/ Abort(r)

Spec == Init /\ [][Next]_vars

(***************************************************************************)
(* Properties.                                                             *)
(***************************************************************************)

\* There is one row of a kind: of flags and overrides always, of preferences
\* unless two requests looked for it at once (findPreference, then insert).
OneRowEach ==
    \A kind \in Kinds \ {"global"} : kind \in Unique \/ kind \notin raced => Cardinality(Of(kind)) <= 1

\* Every setting of a flag of the platform leaves a row of its own, so that one
\* switched on and off has a row for each (setFeatureFlag).
GlobalFlagsPile == Cardinality(Of("global")) = globals

\* A row says what was last asked of it: a request that leaves the value out
\* writes back what it read (update of flags and overrides), which is the same
\* unless two requests handled the row at once.
SaysWhatWasAsked ==
    \A i \in Ids : Present(setting[i]) /\ setting[i].kind \notin raced => setting[i].value = asked[i]
=============================================================================
