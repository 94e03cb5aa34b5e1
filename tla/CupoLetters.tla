---------------------------- MODULE CupoLetters ----------------------------
(***************************************************************************)
(* Quota (CUPO) letters and the usages registered against them:            *)
(* modules/cupo-letters/cupo-letters.service.ts.                           *)
(*                                                                         *)
(* A letter authorizes a quantity; usages consume it.  usedQuantity,       *)
(* remainingQuantity and, partly, the status are derived columns that      *)
(* recalculateUsage rewrites after every change of the usages.  Handlers   *)
(* interleave between their statements, one action per statement.  Audit   *)
(* rows and descriptive columns (updateCupoLetter) are left out.           *)
(***************************************************************************)
EXTENDS Integers, FiniteSetsExt

CONSTANTS
    Letters,        \* ids of letters
    UsageIds,       \* ids of usages
    Requests,       \* requests in progress at once
    Orgs,           \* organizations
    MaxQuantity,    \* bound: quantities are 1..MaxQuantity units
    MayFail,        \* whether statements can fail
    MaxStarted      \* bound: requests that are more than one statement

Quantities == 1..MaxQuantity

Transitions ==
    [DRAFT          |-> {"SUBMITTED", "CANCELLED"},
     SUBMITTED      |-> {"APPROVED", "REJECTED"},
     APPROVED       |-> {"PARTIALLY_USED", "FULLY_USED", "EXPIRED", "CANCELLED"},
     PARTIALLY_USED |-> {"FULLY_USED", "EXPIRED", "CANCELLED"},
     REJECTED       |-> {"DRAFT"},
     FULLY_USED     |-> {},
     EXPIRED        |-> {},
     CANCELLED      |-> {}]
Statuses == DOMAIN Transitions

VARIABLES
    letter,     \* letter[l]: the row of cupo_letters, or Absent
    usage,      \* usage[u]: the row of cupo_letter_usages, or Absent
    request,    \* request[r]: the handler r runs
    started,    \* requests begun, for the bound
    raced       \* history: letters two status changes were decided on at once

vars == <<letter, usage, request, started, raced>>

Absent == [row |-> "absent"]    \* not inserted yet
Gone == [row |-> "gone"]        \* deleted; ids are never used again
Idle == [pc |-> "idle"]
LetterRow == [org : Orgs, status : Statuses, authorized : Quantities,
              used : Int, remaining : Int]
UsageRow == [of : Letters, quantity : Quantities]
Running == [pc : {"writeStatus"}, l : Letters, new : Statuses]
    \cup [pc : {"insertUsage"}, l : Letters, quantity : Quantities]
    \cup [pc : {"deleteUsage"}, l : Letters, u : UsageIds]
    \cup [pc : {"recalculate"}, l : Letters]

TypeOK ==
    /\ letter \in [Letters -> LetterRow \cup {Absent, Gone}]
    /\ usage \in [UsageIds -> UsageRow \cup {Absent, Gone}]
    /\ request \in [Requests -> Running \cup {Idle}]
    /\ started \in 0..MaxStarted
    /\ raced \subseteq Letters

Init ==
    /\ letter = [l \in Letters |-> Absent]
    /\ usage = [u \in UsageIds |-> Absent]
    /\ request = [r \in Requests |-> Idle]
    /\ started = 0
    /\ raced = {}

Exists(l) == letter[l] \notin {Absent, Gone}

\* findByIdAndOrg: a row is found only by its own organization.
Found(l, org) == Exists(l) /\ letter[l].org = org

UsagesOf(l) == {u \in UsageIds : usage[u] \notin {Absent, Gone} /\ usage[u].of = l}
TotalUsed(l) == MapThenSumSet(LAMBDA u : usage[u].quantity, UsagesOf(l))

Begin(r, record) ==
    /\ request[r] = Idle
    /\ started < MaxStarted
    /\ started' = started + 1
    /\ request' = [request EXCEPT ![r] = record]

Goto(r, record) == request' = [request EXCEPT ![r] = record]

\* Fault: the authorized quantity is not stored.
CreateLetterUnauthorized(l, org, quantity) ==
    /\ letter[l] = Absent
    /\ letter' = [letter EXCEPT ![l] =
                    [org |-> org, status |-> "DRAFT", authorized |-> 0,
                     used |-> 0, remaining |-> quantity]]
    /\ UNCHANGED <<usage, request, started, raced>>

CreateLetter(l, org, quantity) ==
    /\ letter[l] = Absent
    /\ letter' = [letter EXCEPT ![l] =
                    [org |-> org, status |-> "DRAFT", authorized |-> quantity,
                     used |-> 0, remaining |-> quantity]]
    /\ UNCHANGED <<usage, request, started, raced>>

\* The foreign key of the usages (no cascade) refuses a letter that has some.
DeleteLetter(l) ==
    /\ Exists(l)
    /\ UsagesOf(l) = {}
    /\ letter' = [letter EXCEPT ![l] = Gone]
    /\ UNCHANGED <<usage, request, started, raced>>

BeginChangeStatus(r, l, new) ==
    /\ Exists(l)
    /\ new \in Transitions[letter[l].status]
    /\ Begin(r, [pc |-> "writeStatus", l |-> l, new |-> new])
    /\ raced' = IF \E q \in Requests : request[q] # Idle /\ request[q].pc = "writeStatus"
                                         /\ request[q].l = l
                THEN raced \cup {l} ELSE raced
    /\ UNCHANGED <<letter, usage>>

WriteStatus(r) ==
    LET q == request[r] IN
    /\ q.pc = "writeStatus"
    /\ letter' = IF Exists(q.l) THEN [letter EXCEPT ![q.l].status = q.new]
                              ELSE letter
    /\ Goto(r, Idle)
    /\ UNCHANGED <<usage, started, raced>>

\* Fault: registerUsage forgets the status check.
BeginRegisterAlways(r, l, quantity) ==
    /\ Exists(l)
    /\ quantity <= letter[l].remaining
    /\ Begin(r, [pc |-> "insertUsage", l |-> l, quantity |-> quantity])
    /\ UNCHANGED <<letter, usage, raced>>

BeginRegisterUsage(r, l, quantity) ==
    /\ Exists(l)
    /\ letter[l].status \in {"APPROVED", "PARTIALLY_USED"}
    /\ quantity <= letter[l].remaining
    /\ Begin(r, [pc |-> "insertUsage", l |-> l, quantity |-> quantity])
    /\ UNCHANGED <<letter, usage, raced>>

\* The insert fails, and with it the request, when the letter is gone.
InsertUsage(r, u) ==
    LET q == request[r] IN
    /\ q.pc = "insertUsage"
    /\ usage[u] = Absent
    /\ IF Exists(q.l)
       THEN /\ usage' = [usage EXCEPT ![u] = [of |-> q.l, quantity |-> q.quantity]]
            /\ Goto(r, [pc |-> "recalculate", l |-> q.l])
       ELSE Goto(r, Idle) /\ usage' = usage
    /\ UNCHANGED <<letter, started, raced>>

BeginDeleteUsage(r, l, u) ==
    /\ Exists(l)
    /\ u \in UsagesOf(l)
    /\ Begin(r, [pc |-> "deleteUsage", l |-> l, u |-> u])
    /\ UNCHANGED <<letter, usage, raced>>

DeleteUsage(r) ==
    LET q == request[r] IN
    /\ q.pc = "deleteUsage"
    /\ usage' = [usage EXCEPT ![q.u] = Gone]
    /\ Goto(r, [pc |-> "recalculate", l |-> q.l])
    /\ UNCHANGED <<letter, started, raced>>

NewStatus(l) ==
    CASE TotalUsed(l) >= letter[l].authorized -> "FULLY_USED"
      [] TotalUsed(l) \in 1..(letter[l].authorized - 1) -> "PARTIALLY_USED"
      [] TotalUsed(l) = 0 /\ letter[l].status = "PARTIALLY_USED" -> "APPROVED"
      [] OTHER -> letter[l].status

\* recalculateUsage looks the letter up in organization '' and returns when it
\* is not found.  The read of the usages and the write that follow are one
\* step here: the lookup never lets a handler reach them.
Recalculate(r) ==
    LET l == request[r].l IN
    /\ request[r].pc = "recalculate"
    /\ letter' = IF ~Found(l, "") THEN letter
                 ELSE [letter EXCEPT ![l].used = TotalUsed(l),
                                     ![l].remaining = letter[l].authorized - TotalUsed(l),
                                     ![l].status = NewStatus(l)]
    /\ Goto(r, Idle)
    /\ UNCHANGED <<usage, started, raced>>

\* A statement fails or the process dies between two statements.
Abort(r) ==
    /\ MayFail
    /\ request[r] # Idle
    /\ Goto(r, Idle)
    /\ UNCHANGED <<letter, usage, started, raced>>

Step(r) ==
    \/ \E l \in Letters, new \in Statuses : BeginChangeStatus(r, l, new)
    \/ \E l \in Letters, n \in Quantities : BeginRegisterUsage(r, l, n)
    \/ \E l \in Letters, u \in UsageIds : BeginDeleteUsage(r, l, u)
    \/ \E u \in UsageIds : InsertUsage(r, u)
    \/ WriteStatus(r) \/ DeleteUsage(r) \/ Recalculate(r)

Next ==
    \/ \E l \in Letters, org \in Orgs, n \in Quantities : CreateLetter(l, org, n)
    \/ \E l \in Letters : DeleteLetter(l)
    \/ \E r \in Requests : Step(r) \/ Abort(r)

Spec == Init /\ [][Next]_vars

(***************************************************************************)
(* Properties.                                                             *)
(***************************************************************************)

\* A usage is evidence of an approval (registerUsage, changeCupoLetterStatus):
\* as long as no two status changes of a letter were decided at once, a letter
\* that has usages is not a draft, submitted or rejected one, even when usages
\* are registered while the status changes.
UsedLettersWereApproved ==
    \A l \in Letters \ raced :
        UsagesOf(l) # {} => letter[l].status \notin {"DRAFT", "SUBMITTED", "REJECTED"}

\* What cupo-letters.service.spec.ts asserts of recalculateUsage: when no
\* request is in progress, the remaining quantity is the authorized one less
\* what the usages consumed.
RemainingTracksUsages ==
    (\A r \in Requests : request[r] = Idle) =>
        \A l \in Letters : Exists(l) =>
            letter[l].remaining = letter[l].authorized - TotalUsed(l)
=============================================================================
