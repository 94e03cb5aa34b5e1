----------------------------- MODULE Compliance -----------------------------
(***************************************************************************)
(* The rules of an organization and what they say of an operation:         *)
(* compliance-rule-sets, compliance-document-requirements,                 *)
(* compliance-status-rules, operation-compliance.                          *)
(*                                                                         *)
(* An evaluation reads five tables in five statements and writes nothing,  *)
(* so one at a time is enough.  The handlers of the rules write one row in *)
(* one statement; what they look for before, the keys of the database ask  *)
(* for again.  The operation has one type and one status, and each rule    *)
(* set one transition from it.                                             *)
(*                                                                         *)
(* Of the active documents an evaluation reads a limited number, in no     *)
(* particular order.  Those that make no difference to which categories    *)
(* there are, being of none or not the first of theirs, are counted.       *)
(***************************************************************************)
EXTENDS Integers, FiniteSets

CONSTANTS
    RuleSets,       \* ids of rule sets
    Categories,     \* ids of document categories
    DocumentLimit,  \* documents an evaluation reads at most; 1000 in the code
    MaxSpare        \* bound: active documents beside one of each category

VARIABLES
    ruleSet,        \* ruleSet[s]: "absent", "gone", or whether it is active for the type
    requirement,    \* requirement[s]: the categories it names, and whether it requires them
    rule,           \* rule[s]: its transition, open to all or to those with the documents
    categories,     \* the rows of document_categories
    filed,          \* categories the operation has an active document of
    spare,          \* active documents beside one of each of these
    evaluation,     \* the evaluation under way
    held,           \* history: what was required and missing ever since it began
    wanted,         \* history: what was required at some moment of it
    lacked,         \* history: categories without a document at some moment of it
    outcome         \* history: what the evaluation answered that has just ended

vars == <<ruleSet, requirement, rule, categories, filed, spare, evaluation, held, wanted, lacked, outcome>>
rules == <<ruleSet, requirement, rule, categories, filed, spare>>

Idle == [pc |-> "idle"]
NoOutcome == [says |-> "none"]
Needs == RuleSets \X Categories
Levels == {"none", "optional", "required"}
There(s) == ruleSet[s] \in {"active", "inactive"}

TypeOK ==
    /\ ruleSet \in [RuleSets -> {"absent", "active", "inactive", "gone"}]
    /\ requirement \in [RuleSets -> [Categories -> Levels]]
    /\ rule \in [RuleSets -> {"none", "open", "documents"}]
    /\ categories \subseteq Categories /\ filed \subseteq categories
    /\ spare \in 0..MaxSpare
    /\ \/ evaluation = Idle
       \/ /\ evaluation.pc \in {"requirements", "documents", "categories", "rules"}
          /\ evaluation.set \in RuleSets
          /\ evaluation.required \subseteq Categories
          /\ evaluation.missing \subseteq evaluation.required
          /\ evaluation.cut \in BOOLEAN
    /\ held \subseteq Needs /\ wanted \subseteq Needs /\ lacked \subseteq Categories
    /\ outcome = NoOutcome \/
           /\ outcome.says \in {"open", "blocked"} /\ outcome.needs \in BOOLEAN
           /\ outcome.held \in BOOLEAN /\ outcome.seen \in BOOLEAN
           /\ outcome.cut \in BOOLEAN

Init ==
    /\ ruleSet = [s \in RuleSets |-> "absent"]
    /\ requirement = [s \in RuleSets |-> [c \in Categories |-> "none"]]
    /\ rule = [s \in RuleSets |-> "none"]
    /\ categories \in SUBSET Categories
    /\ filed = {} /\ spare = 0
    /\ evaluation = Idle
    /\ held = {} /\ wanted = {} /\ lacked = {}
    /\ outcome = NoOutcome

(***************************************************************************)
(* The rules, the categories and the documents.  A write that changes      *)
(* nothing is left out.                                                    *)
(***************************************************************************)

\* create and update of a rule set
WriteRuleSet(s, state) ==
    /\ ruleSet[s] \notin {"gone", state}
    /\ state \in {"active", "inactive"}
    /\ ruleSet' = [ruleSet EXCEPT ![s] = state]
    /\ UNCHANGED <<requirement, rule, categories, filed, spare>>

\* delete; the requirements and the rules go with it.
DeleteRuleSet(s) ==
    /\ There(s)
    /\ ruleSet' = [ruleSet EXCEPT ![s] = "gone"]
    /\ requirement' = [requirement EXCEPT ![s] = [c \in Categories |-> "none"]]
    /\ rule' = [rule EXCEPT ![s] = "none"]
    /\ UNCHANGED <<categories, filed, spare>>

\* create, update and delete of a requirement, of a category there is
WriteRequirement(s, c, level) ==
    /\ There(s)
    /\ c \in categories
    /\ requirement[s][c] # level
    /\ requirement' = [requirement EXCEPT ![s][c] = level]
    /\ UNCHANGED <<ruleSet, rule, categories, filed, spare>>

\* create, update and delete of a rule
WriteRule(s, kind) ==
    /\ There(s)
    /\ rule[s] # kind
    /\ rule' = [rule EXCEPT ![s] = kind]
    /\ UNCHANGED <<ruleSet, requirement, categories, filed, spare>>

\* A document of the category comes to be active, or the last one stops being so.
FileDocument(c) ==
    /\ c \in categories \ filed
    /\ filed' = filed \cup {c}
    /\ UNCHANGED <<ruleSet, requirement, rule, categories, spare>>

RemoveDocument(c) ==
    /\ c \in filed
    /\ filed' = filed \ {c}
    /\ UNCHANGED <<ruleSet, requirement, rule, categories, spare>>

\* A document comes to be active, or stops being so, that is of no category or
\* of one there is another of.
FileSpare ==
    /\ spare < MaxSpare
    /\ spare' = spare + 1
    /\ UNCHANGED <<ruleSet, requirement, rule, categories, filed>>

RemoveSpare ==
    /\ spare > 0
    /\ spare' = spare - 1
    /\ UNCHANGED <<ruleSet, requirement, rule, categories, filed>>

\* A category without documents is removed (Documents); the requirements of it
\* go with it, whatever rule set they belong to.
RemoveCategory(c) ==
    /\ c \in categories \ filed
    /\ categories' = categories \ {c}
    /\ requirement' = [s \in RuleSets |-> [requirement[s] EXCEPT ![c] = "none"]]
    /\ UNCHANGED <<ruleSet, rule, filed, spare>>

(***************************************************************************)
(* evaluate                                                                *)
(***************************************************************************)

Stands(s, c) ==
    ruleSet[s] = "active" /\ requirement[s][c] = "required" /\ c \in categories /\ c \notin filed
Now == {n \in Needs : Stands(n[1], n[2])}
Required == {n \in Needs : requirement[n[1]][n[2]] = "required"}
Lacking == Categories \ filed
Goto(record) == evaluation' = record

\* findActiveByOperationType: any active rule set; without one there is nothing to say.
Begin ==
    /\ evaluation = Idle
    /\ \E s \in {t \in RuleSets : ruleSet[t] = "active"} :
        Goto([pc |-> "requirements", set |-> s, required |-> {}, missing |-> {}, cut |-> FALSE])

\* Fault: optional categories count.
ReadRequirementsAll ==
    LET e == evaluation IN
    /\ e.pc = "requirements"
    /\ Goto([e EXCEPT !.pc = "documents",
                      !.required = {c \in Categories : requirement[e.set][c] # "none"}])

ReadRequirements ==
    LET e == evaluation IN
    /\ e.pc = "requirements"
    /\ Goto([e EXCEPT !.pc = "documents",
                      !.required = {c \in Categories : requirement[e.set][c] = "required"}])

Crowded == Cardinality(filed) + spare > DocumentLimit

\* findByOperation, limit 1000: the categories of the documents it returns.
Returned(found) ==
    IF Crowded THEN Cardinality(found) \in (DocumentLimit - spare)..DocumentLimit
    ELSE found = filed

ReadDocuments ==
    LET e == evaluation IN
    /\ e.pc = "documents"
    /\ \E found \in SUBSET filed :
        /\ Returned(found)
        /\ Goto([e EXCEPT !.pc = "categories", !.missing = e.required \ found, !.cut = Crowded])

\* buildCategoryMap: a category removed since is not missing.
ReadCategories ==
    LET e == evaluation IN
    /\ e.pc = "categories"
    /\ Goto([e EXCEPT !.pc = "rules", !.missing = @ \cap categories])

\* Fault: only the last of the documents is waited for.
BlockedByAll(e) == e.missing # {} /\ e.missing = e.required

Blocked(e) == e.missing # {}

\* The transition is open unless it asks for the documents and one is missing.
ReadRules ==
    LET e == evaluation
        needs == rule[e.set] = "documents"
    IN
    /\ e.pc = "rules"
    /\ outcome' = IF rule[e.set] = "none" THEN NoOutcome
                  ELSE [says |-> IF needs /\ Blocked(e) THEN "blocked" ELSE "open",
                        needs |-> needs,
                        held |-> \E c \in Categories : <<e.set, c>> \in held,
                        seen |-> \E c \in lacked : <<e.set, c>> \in wanted,
                        cut |-> e.cut]
    /\ Goto(Idle)

Change ==
    \/ \E s \in RuleSets :
        \/ \E state \in {"active", "inactive"} : WriteRuleSet(s, state)
        \/ DeleteRuleSet(s)
        \/ \E c \in Categories, level \in Levels : WriteRequirement(s, c, level)
        \/ \E kind \in {"none", "open", "documents"} : WriteRule(s, kind)
    \/ \E c \in Categories : FileDocument(c) \/ RemoveDocument(c) \/ RemoveCategory(c)
    \/ FileSpare \/ RemoveSpare

Next ==
    \/ /\ Begin
       /\ held' = Now /\ wanted' = Required /\ lacked' = Lacking
       /\ outcome' = NoOutcome
       /\ UNCHANGED rules
    \/ /\ ReadRequirements \/ ReadDocuments \/ ReadCategories
       /\ UNCHANGED <<rules, held, wanted, lacked, outcome>>
    \/ /\ ReadRules
       /\ held' = {} /\ wanted' = {} /\ lacked' = {}
       /\ UNCHANGED rules
    \/ /\ Change
       /\ IF evaluation = Idle THEN UNCHANGED <<held, wanted, lacked>>
          ELSE /\ held' = held \cap Now'
               /\ wanted' = wanted \cup Required'
               /\ lacked' = lacked \cup Lacking'
       /\ outcome' = NoOutcome
       /\ UNCHANGED evaluation

Spec == Init /\ [][Next]_vars

(***************************************************************************)
(* Properties.                                                             *)
(***************************************************************************)

\* No transition that asks for the documents is shown open while one was missing
\* all through the evaluation, however the rules and the documents change
\* between its reads (evaluate).
MissingBlocks == outcome # NoOutcome /\ outcome.needs /\ outcome.held => outcome.says = "blocked"

\* A transition is shown blocked only when it asks for the documents, and one was
\* required at some moment of the evaluation and missing at some, perhaps another;
\* or when the operation has more active documents than the evaluation reads: one
\* that is there may then be taken for missing.
BlockedForReason ==
    outcome.says = "blocked" => outcome.needs /\ (outcome.seen \/ outcome.cut)
=============================================================================
