----------------------------- MODULE MCSurface -----------------------------
(* Who gets through to what, one part of it active in a behaviour: the      *)
(* guards of a route, the score of abuse, the portal of the clients, and    *)
(* the rules an operation is held to.  They share no rows.                  *)
EXTENDS GuardChain, TLC

VARIABLES
    active,
    clock, signals, blocked, recording, reported, recorded, overlapped, failed,  \* AbuseDetection
    document, grant, open, shown, visit, visits, crossed,                        \* Portal
    ruleSet, requirement, rule, categories, filed, spare,                        \* Compliance
    evaluation, held, wanted, lacked, outcome

AD == INSTANCE AbuseDetection WITH
    Signals <- {"account_lockout", "rapid_fire"}, Recordings <- Requests,
    Window <- 2, MaxTime <- 3, MaxRecorded <- 3,
    now <- clock, raced <- overlapped, broken <- failed
PO == INSTANCE Portal WITH
    Users <- Users, Clients <- {"importer", "exporter"}, Documents <- {"invoice"},
    Grants <- {"first", "second"}, MaxStarted <- 5,
    request <- visit, started <- visits, raced <- crossed
CO == INSTANCE Compliance WITH RuleSets <- {"imports"}, Categories <- {"invoice", "permit"},
        DocumentLimit <- 2, MaxSpare <- 1

abuse == <<clock, signals, blocked, recording, reported, recorded, overlapped, failed>>
portal == <<document, grant, open, shown, visit, visits, crossed>>
compliance == <<ruleSet, requirement, rule, categories, filed, spare,
                evaluation, held, wanted, lacked, outcome>>
surface == <<active, allVars, abuse, portal, compliance>>

\* One route of each way through the guards.
SomeRoutes ==
    Once(Guarded, {"ai.search", "invoices.cancel"}) \cup Writes(Guarded, {"invoices.update"})
    \cup Reads(Permitted, {"client_accounts.read"}) \cup Writes(Limited, {"tariff.delete"})
    \cup Writes(AdminOnly, {Nothing})
AllKeys == LockKeys(ClientKeys \cup Paths)
HeaderKeys == LockKeys(ClientKeys)

SurfaceInit ==
    /\ active \in {"GuardChain", "AbuseDetection", "Portal", "Compliance"}
    /\ ChainInit /\ AD!Init /\ PO!Init /\ CO!Init
    /\ active # "GuardChain" => admins = {}
    /\ active # "Compliance" => categories = {}
    /\ active # "Portal" => document = [d \in {"invoice"} |->
                               [visible |-> FALSE, active |-> FALSE, client |-> "importer"]]

SurfaceNext ==
    \/ active = "GuardChain" /\ ChainNext /\ UNCHANGED <<active, abuse, portal, compliance>>
    \/ active = "AbuseDetection" /\ AD!Next /\ UNCHANGED <<active, allVars, portal, compliance>>
    \/ active = "Portal" /\ PO!Next /\ UNCHANGED <<active, allVars, abuse, compliance>>
    \/ active = "Compliance" /\ CO!Next /\ UNCHANGED <<active, allVars, abuse, portal>>

SurfaceSpec == SurfaceInit /\ [][SurfaceNext]_surface

\* Requests, scores, access and rules are of their types.
TypesOK ==
    /\ active = "GuardChain" => ChainTypeOK
    /\ active = "AbuseDetection" => AD!TypeOK
    /\ active = "Portal" => PO!TypeOK
    /\ active = "Compliance" => CO!TypeOK

\* The table of permissions gives a higher role what a lower one has
\* (permission.map.ts); the portal shows a client what was meant for clients and
\* is of one it has access to (portal.service.ts).
PermissionsHold == RolesFitRoutes /\ PO!ShownToGranted

\* A block is there when, and only when, there is a reason for it: of an address,
\* the signals of the last hour (record and score of abuse-detection.service.ts);
\* of a transition, a required document missing (operation-compliance.service.ts).
BlocksHold == AD!BlockIsEarned /\ AD!ThresholdBlocks /\ CO!MissingBlocks /\ CO!BlockedForReason

Symmetry == Permutations(Users) \cup Permutations(Requests)
=============================================================================
