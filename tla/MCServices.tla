----------------------------- MODULE MCServices -----------------------------
(* The services that share the handlers and no rows, one of them active in a *)
(* behaviour: their product would show nothing more.  The handlers are those *)
(* of the active service; the rows of the others stay as they are at first.  *)
EXTENDS Handlers, Integers, FiniteSets, TLC

CONSTANTS
    Rows, Parts, Others, Contents, None,    \* ids and contents of rows, no id
    Client, Values,                         \* Contacts, Settings
    Amounts, Days, PageLimit,               \* ClientAccounts
    MaxAmount, MaxRows,                     \* OperationFinance, Jobs
    MaxQuantity, MayFail,                   \* CupoLetters
    OPStarted, WHStarted, CAStarted, XAStarted, DOStarted, CUStarted  \* bounds: requests begun

ASSUME FiniteAssumption == IsFiniteSet(Rows) /\ IsFiniteSet(Parts) /\ IsFiniteSet(Others)
ASSUME NoneAssumption == None \notin Rows \cup Parts \cup Others \cup Contents \cup Values
ASSUME NumbersAssumption ==
    /\ Amounts \subseteq Int /\ Days \subseteq Int
    /\ PageLimit \in Nat /\ MaxAmount \in Nat /\ MaxRows \in Nat
    /\ MaxQuantity \in Nat \ {0} /\ MayFail \in BOOLEAN
ASSUME StartedAssumption ==
    /\ OPStarted \in Nat /\ WHStarted \in Nat /\ CAStarted \in Nat
    /\ XAStarted \in Nat /\ DOStarted \in Nat /\ CUStarted \in Nat
ASSUME OrgsAssumption == "" \notin Others      \* no organization's id is the empty string

VARIABLES
    active,
    document, item, transmitted,                                      \* EDocuments
    declaration, part, been,                                          \* Valuation
    operation, history, members, ever, owed,                          \* Operations
    entry, account,                                                   \* OperationFinance
    exam, changed, filings,                                           \* Examinations
    warehouse, zone, good, movement,                                  \* Warehouse
    shipment, stage, link, commented, entries, completions,           \* Shipments
    movements, funds, statement, unfunded,                            \* ClientAccounts
    expense, expenseItem, untotalled,                                 \* ExpenseAccounts
    doc, versions, stored, category, unpointed, late, stripped,       \* Documents
    checklist, listed, folder, uncounted,                             \* Checklists
    integration, delivery, answers, crossed, unwritten,               \* Deliveries
    job, clients, exported, broken, stopped,                          \* Jobs
    contact, chosen, halfway,                                         \* Contacts
    setting, asked, globals,                                          \* Settings
    post,                                                             \* Blog
    letter, usage                                                     \* CupoLetters

ED == INSTANCE EDocuments WITH Documents <- Rows, Items <- Parts
VA == INSTANCE Valuation WITH Declarations <- Rows
OP == INSTANCE Operations WITH Ids <- Parts, Users <- Others, Nobody <- None,
        MaxStarted <- OPStarted
OF == INSTANCE OperationFinance WITH Ids <- Parts, EntryIds <- Rows \cup Others
EX == INSTANCE Examinations WITH Entries <- Parts, Exams <- Rows
WH == INSTANCE Warehouse WITH Warehouses <- Rows, Zones <- Parts, Goods <- Others, Movements <- Parts,
        MaxStarted <- WHStarted
SH == INSTANCE Shipments WITH Ids <- Rows, Stages <- Parts, Links <- Contents, Entries <- Others
CA == INSTANCE ClientAccounts WITH Clients <- Parts, Dates <- Days, owed <- unfunded,
        MaxStarted <- CAStarted
XA == INSTANCE ExpenseAccounts WITH Ids <- Parts, Items <- Rows, item <- expenseItem, owed <- untotalled,
        MaxStarted <- XAStarted
DO == INSTANCE Documents WITH Ids <- Parts, Categories <- Rows, Codes <- Others, Files <- Contents,
        document <- doc, owed <- unpointed, MaxStarted <- DOStarted
CH == INSTANCE Checklists WITH Ids <- Parts, Items <- Rows, Folders <- Rows, Names <- Contents,
        item <- listed, owed <- uncounted
DE == INSTANCE Deliveries WITH Integrations <- Parts, Ids <- Rows
JO == INSTANCE Jobs WITH Ids <- Rows, stored <- exported
CN == INSTANCE Contacts WITH Ids <- Rows
SE == INSTANCE Settings WITH Ids <- Rows, Keep <- None
BL == INSTANCE Blog WITH Ids <- Rows
CU == INSTANCE CupoLetters WITH Letters <- Parts, UsageIds <- Rows, Orgs <- Others,
        MaxStarted <- CUStarted

edocuments == <<document, item, transmitted>>
valuations == <<declaration, part, been>>
operations == <<operation, history, members, ever, owed>>
finance == <<entry, account>>
exams == <<exam, changed, filings>>
stores == <<warehouse, zone, good, movement>>
shipments == <<shipment, stage, link, commented, entries, completions>>
accounts == <<movements, funds, statement, unfunded>>
expenses == <<expense, expenseItem, untotalled>>
files == <<doc, versions, stored, category, unpointed, late, stripped>>
checklists == <<checklist, listed, folder, uncounted>>
deliveries == <<integration, delivery, answers, crossed, unwritten>>
jobs == <<job, clients, exported, broken, stopped>>
contacts == <<contact, chosen, halfway>>
settings == <<setting, asked, globals>>
quotas == <<letter, usage>>
vars == <<active, handlers, edocuments, valuations, operations, finance, exams, stores, shipments,
          accounts, expenses, files, checklists, deliveries, jobs,
          contacts, settings, post, quotas>>

Init ==
    /\ active \in {"EDocuments", "Valuation", "Operations", "OperationFinance", "Examinations",
                   "Warehouse", "Shipments", "ClientAccounts", "ExpenseAccounts",
                   "Documents", "Checklists", "Deliveries", "Jobs",
                   "Contacts", "Settings", "Blog", "CupoLetters"}
    /\ ED!Init /\ VA!Init /\ OP!Init /\ OF!Init /\ EX!Init /\ WH!Init /\ SH!Init
    /\ CA!Init /\ XA!Init /\ DO!Init /\ CH!Init /\ DE!Init /\ JO!Init
    /\ CN!Init /\ SE!Init /\ BL!Init /\ CU!Init

Next ==
    \/ /\ active = "EDocuments" /\ ED!Next
       /\ UNCHANGED <<active, valuations, operations, finance, exams, stores, shipments,
                      accounts, expenses, files, checklists, deliveries, jobs, contacts,
                      settings, post, quotas>>
    \/ /\ active = "Valuation" /\ VA!Next
       /\ UNCHANGED <<active, edocuments, operations, finance, exams, stores, shipments,
                      accounts, expenses, files, checklists, deliveries, jobs, contacts,
                      settings, post, quotas>>
    \/ /\ active = "Operations" /\ OP!Next
       /\ UNCHANGED <<active, edocuments, valuations, finance, exams, stores, shipments,
                      accounts, expenses, files, checklists, deliveries, jobs, contacts,
                      settings, post, quotas>>
    \/ /\ active = "OperationFinance" /\ OF!Next
       /\ UNCHANGED <<active, edocuments, valuations, operations, exams, stores, shipments,
                      accounts, expenses, files, checklists, deliveries, jobs, contacts,
                      settings, post, quotas>>
    \/ /\ active = "Examinations" /\ EX!Next
       /\ UNCHANGED <<active, edocuments, valuations, operations, finance, stores, shipments,
                      accounts, expenses, files, checklists, deliveries, jobs, contacts,
                      settings, post, quotas>>
    \/ /\ active = "Warehouse" /\ WH!Next
       /\ UNCHANGED <<active, edocuments, valuations, operations, finance, exams, shipments,
                      accounts, expenses, files, checklists, deliveries, jobs, contacts,
                      settings, post, quotas>>
    \/ /\ active = "Shipments" /\ SH!Next
       /\ UNCHANGED <<active, edocuments, valuations, operations, finance, exams, stores,
                      accounts, expenses, files, checklists, deliveries, jobs, contacts,
                      settings, post, quotas>>
    \/ /\ active = "ClientAccounts" /\ CA!Next
       /\ UNCHANGED <<active, edocuments, valuations, operations, finance, exams, stores,
                      shipments, expenses, files, checklists, deliveries, jobs, contacts,
                      settings, post, quotas>>
    \/ /\ active = "ExpenseAccounts" /\ XA!Next
       /\ UNCHANGED <<active, edocuments, valuations, operations, finance, exams, stores,
                      shipments, accounts, files, checklists, deliveries, jobs, contacts,
                      settings, post, quotas>>
    \/ /\ active = "Documents" /\ DO!Next
       /\ UNCHANGED <<active, edocuments, valuations, operations, finance, exams, stores,
                      shipments, accounts, expenses, checklists, deliveries, jobs, contacts,
                      settings, post, quotas>>
    \/ /\ active = "Checklists" /\ CH!Next
       /\ UNCHANGED <<active, edocuments, valuations, operations, finance, exams, stores,
                      shipments, accounts, expenses, files, deliveries, jobs, contacts,
                      settings, post, quotas>>
    \/ /\ active = "Deliveries" /\ DE!Next
       /\ UNCHANGED <<active, edocuments, valuations, operations, finance, exams, stores,
                      shipments, accounts, expenses, files, checklists, jobs, contacts,
                      settings, post, quotas>>
    \/ /\ active = "Jobs" /\ JO!Next
       /\ UNCHANGED <<active, edocuments, valuations, operations, finance, exams, stores,
                      shipments, accounts, expenses, files, checklists, deliveries, contacts,
                      settings, post, quotas>>
    \/ /\ active = "Contacts" /\ CN!Next
       /\ UNCHANGED <<active, edocuments, valuations, operations, finance, exams, stores,
                      shipments, accounts, expenses, files, checklists, deliveries, jobs,
                      settings, post, quotas>>
    \/ /\ active = "Settings" /\ SE!Next
       /\ UNCHANGED <<active, edocuments, valuations, operations, finance, exams, stores,
                      shipments, accounts, expenses, files, checklists, deliveries, jobs,
                      contacts, post, quotas>>
    \/ /\ active = "Blog" /\ BL!Next
       /\ UNCHANGED <<active, edocuments, valuations, operations, finance, exams, stores,
                      shipments, accounts, expenses, files, checklists, deliveries, jobs,
                      contacts, settings, quotas>>
    \/ /\ active = "CupoLetters" /\ CU!Next
       /\ UNCHANGED <<active, edocuments, valuations, operations, finance, exams, stores,
                      shipments, accounts, expenses, files, checklists, deliveries, jobs,
                      contacts, settings, post>>

Spec == Init /\ [][Next]_vars

\* Every row and every handler is of its type.
TypesOK ==
    /\ active = "EDocuments" => ED!TypeOK
    /\ active = "Valuation" => VA!TypeOK
    /\ active = "Operations" => OP!TypeOK
    /\ active = "OperationFinance" => OF!TypeOK
    /\ active = "Examinations" => EX!TypeOK
    /\ active = "Warehouse" => WH!TypeOK
    /\ active = "Shipments" => SH!TypeOK
    /\ active = "ClientAccounts" => CA!TypeOK
    /\ active = "ExpenseAccounts" => XA!TypeOK
    /\ active = "Documents" => DO!TypeOK
    /\ active = "Checklists" => CH!TypeOK
    /\ active = "Deliveries" => DE!TypeOK
    /\ active = "Jobs" => JO!TypeOK
    /\ active = "Contacts" => CN!TypeOK
    /\ active = "Settings" => SE!TypeOK
    /\ active = "Blog" => BL!TypeOK
    /\ active = "CupoLetters" => CU!TypeOK

(***************************************************************************)
(* What the services promise, by the kind of promise; each part is stated  *)
(* where its service is.                                                   *)
(***************************************************************************)

\* A status tells what happened (changeStatus and the handlers of jobs): what is
\* answered, approved or closed carries the dates and has been through the
\* statuses that lead there; a job tells what it did; nothing sets IN_PROCESS; a
\* post has a date exactly when it is published; a quota letter with usages is past
\* its approval.
StatusesTell ==
    /\ active = "EDocuments" => ED!StampsTell
    /\ active = "Valuation" => VA!ApprovedWasSubmitted
    /\ active = "Operations" => OP!ClosedTells
    /\ active = "Jobs" => JO!SummaryTells /\ JO!LeftOnlyByStop
    /\ active = "Warehouse" => WH!NoMovementCompletes
    /\ active = "Blog" => BL!PublishedHasDate
    /\ active = "CupoLetters" => CU!UsedLettersWereApproved

\* Rows that follow each other start where the one before ended, without gap or
\* repetition: the history of an operation, the balances of a client, the
\* rectifications of an entry and the versions of a document (each handler
\* reads the last or counts, and inserts later).
RowsFollowOn ==
    /\ active = "Operations" => OP!HistoryLeads
    /\ active = "ClientAccounts" => CA!BalancesLead
    /\ active = "Examinations" => EX!NumberedInOrder
    /\ active = "Documents" => DO!VersionsNumbered

\* A column derived from rows agrees with them once no handler is under way: the
\* funds of a client, the total of an expense account, the progress of a
\* checklist, the attempts of a delivery (the recalculations, in statements of
\* their own); and a setting says what it was last asked to say, although updates
\* write back what they read.
DerivedAgree ==
    /\ active = "ClientAccounts" => CA!FundsFollow
    /\ active = "ExpenseAccounts" => XA!TotalIsOfItems
    /\ active = "Checklists" => CH!ProgressTells
    /\ active = "Deliveries" => DE!AttemptsCounted /\ DE!NeverOvercounted
    /\ active = "Settings" => SE!SaysWhatWasAsked

\* Nothing refers to what is not there, although handlers check before they
\* write: goods and their zone, assignees and memberships, versions and jobs and
\* their files, documents and their category, folders and their parent's path.
NothingDangles ==
    /\ active = "Warehouse" => WH!EverythingHasItsPlace
    /\ active = "Operations" => OP!AssignedToMembers
    /\ active = "Documents" => DO!FilesKept /\ DO!CategoryInUseStays
    /\ active = "Jobs" => JO!FileTells
    /\ active = "Checklists" => CH!PathBelowParent

\* What may happen once happens once: filing a rectification, completing a stage,
\* linking an entry, taking a code, choosing the primary contact, the row of a
\* setting (each found not done, then done); the flag of the platform, whose key
\* compares nothing, gets a row each time.
DoneOnce ==
    /\ active = "Examinations" => EX!FiledOnce
    /\ active = "Shipments" => SH!StageCompletedOnce /\ SH!LinkedOnce
    /\ active = "Documents" => DO!CodesDiffer
    /\ active = "Contacts" => CN!PrimaryIsChosen
    /\ active = "Settings" => SE!OneRowEach /\ SE!GlobalFlagsPile

\* What was decided stays: sent documents, declared values, approved accounts,
\* results of examinations and shipments under way (the EDITABLE_STATUSES and
\* tables of transitions), unless two requests handled the row at once.
DecidedStays ==
    ED!FrozenOnceSent /\ VA!FrozenOnceDeclared /\ XA!ApprovedIsFixed
    /\ EX!ResultsStay /\ SH!UnderWayStays

\* What is made of the rows when it is written: the account of an operation is
\* that of one moment and not too generous (getSummary), and a statement of a
\* client counts its own period twice (generateStatement).
SummariesTell == OF!AccountOfOneMoment /\ CA!StatementCountsTwice

Signs == {-1, 1}
TwoDays == 1..2
Symmetry == Permutations(Rows) \cup Permutations(Contents) \cup Permutations(Requests)
=============================================================================
