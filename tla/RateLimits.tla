----------------------------- MODULE RateLimits -----------------------------
(***************************************************************************)
(* RateLimitGuard: a request is checked against the window of its user and *)
(* then, when it names one, against that of its organization, each with    *)
(* its limit.  IpRateLimitMiddleware checks an address in the same way,    *)
(* and nothing else.                                                       *)
(***************************************************************************)
EXTENDS SlidingWindow

CONSTANTS
    Tenant,         \* the key of the organization; the others are of users and addresses
    UserLimit,      \* limit of a user or an address in a window
    TenantLimit     \* limit of the organization in a window

VARIABLE
    through     \* history: through[k], entries of the checks on k that said yes

vars == <<limiter, through>>

Limit(k) == IF k = Tenant THEN TenantLimit ELSE UserLimit

TypeOK ==
    /\ WindowTypeOK(CheckPcs, {"tenant", "handler"})
    /\ through \in [Keys -> SUBSET Entries]

Init == WindowInit /\ through = [k \in Keys |-> {}]

BeginRequest(c, user, then) ==
    /\ Begin(c, user, "prune", then)
    /\ UNCHANGED through

Pass(c) ==
    /\ At(c, "allowed")
    /\ through' = [through EXCEPT ![check[c].k] = @ \cup {check[c].entry}]
    /\ IF check[c].then = "tenant" THEN Again(c, Tenant, "handler") ELSE Finish(c)

Refuse(c) ==
    /\ At(c, "refused")
    /\ Finish(c)
    /\ UNCHANGED through

Next ==
    \/ Tick /\ UNCHANGED through
    \/ \E c \in Checks, user \in Keys \ {Tenant}, then \in {"tenant", "handler"} :
           BeginRequest(c, user, then)
    \/ \E c \in Checks :
        \/ (Prune(c) \/ Count(c, Limit(check[c].k)) \/ Add(c) \/ Remove(c) \/ FailOpen(c))
               /\ UNCHANGED through
        \/ Pass(c) \/ Refuse(c)

Spec == Init /\ [][Next]_vars

(***************************************************************************)
(* Properties.                                                             *)
(***************************************************************************)

Passed(k, t) == {e \in through[k] : e.at > t - Window /\ e.at <= t}

\* The limit holds in every window, not only in those a check looked at (check):
\* without overlapping checks of the key and with Redis up, no stretch of time
\* of a window's length lets more requests through than the limit.
LimitHolds ==
    \A k \in Keys \ (raced \cup broken), t \in 0..MaxTime :
        Cardinality(Passed(k, t)) <= Limit(k)

\* Overlapping checks count before either adds (the pipeline in check): they let
\* through more than the limit, but only by as many as overlap, unless a check
\* counted after one with a later clock had pruned the window.
ExcessIsOverlap ==
    \A k \in Keys \ (slow \cup broken), t \in 0..MaxTime :
        Cardinality(Passed(k, t)) <= Limit(k) + Cardinality(Checks) - 1

\* Nobody is refused below the limit (the entry added before the decision and
\* removed after it): without overlapping checks a refusal finds the limit used
\* up in the window, so refused requests never count against later ones.
RefusedAtLimit ==
    \A c \in Checks :
        (At(c, "remove") /\ check[c].k \notin raced \cup broken) =>
            Cardinality(Passed(check[c].k, check[c].entry.at)) >= Limit(check[c].k)
=============================================================================
