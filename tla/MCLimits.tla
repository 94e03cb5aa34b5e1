------------------------------ MODULE MCLimits ------------------------------
(* Components that keep a count or an amount within bounds, one of them     *)
(* active in a behaviour: they share no rows, so their product would show   *)
(* nothing more.  The treasury serves one request at a time here.           *)
EXTENDS Treasury

CONSTANTS
    Checks,                 \* requests in progress at once on the other parts
    Member, Organization    \* the keys of the windows

VARIABLES
    active,
    now, window, check, begun, overlapped, slow, broken,            \* SlidingWindow
    through,                                                        \* RateLimits
    failures,                                                       \* Lockout
    hour, current, ended, copy, reader, reads, newest, slowest, mixed   \* ExchangeRates

RL == INSTANCE RateLimits WITH
    Keys <- {Member, Organization}, Tenant <- Organization,
    UserLimit <- 1, TenantLimit <- 1, Window <- 2, MaxTime <- 2, MaxStarted <- 3,
    started <- begun, raced <- overlapped
LO == INSTANCE Lockout WITH
    Keys <- {Member}, LOCKOUT_THRESHOLD <- 2,
    Window <- 2, MaxTime <- 3, MaxStarted <- 4,
    started <- begun, raced <- overlapped
ER == INSTANCE ExchangeRates WITH
    Readers <- Checks, TTL <- 2, MaxTime <- 4, MaxRates <- 2, MaxReads <- 3, now <- hour

limiter == <<now, window, check, begun, overlapped, slow, broken>>
rates == <<hour, current, ended, copy, reader, reads, newest, slowest, mixed>>

\* The limits and the lockout keep their windows in the same service.
LimitsInit ==
    /\ active \in {"Treasury", "RateLimits", "Lockout", "ExchangeRates"}
    /\ Init /\ ER!Init
    /\ IF active = "Lockout" THEN LO!Init /\ through = <<>> ELSE RL!Init /\ failures = <<>>

LimitsNext ==
    \/ active = "Treasury" /\ Next /\ UNCHANGED <<active, limiter, through, failures, rates>>
    \/ active = "RateLimits" /\ RL!Next /\ UNCHANGED <<active, vars, failures, rates>>
    \/ active = "Lockout" /\ LO!Next /\ UNCHANGED <<active, vars, through, rates>>
    \/ active = "ExchangeRates" /\ ER!Next
           /\ UNCHANGED <<active, vars, limiter, through, failures>>

LimitsSpec ==
    LimitsInit /\ [][LimitsNext]_<<active, vars, limiter, through, failures, rates>>

\* The window of a limit or of the lockout lets through what it should and
\* refuses nobody else, and overlapping checks exceed it by as many as overlap;
\* a copied rate is no older than its time to live and the request that copied it.
LimitsHold ==
    /\ active = "RateLimits" => RL!LimitHolds /\ RL!ExcessIsOverlap /\ RL!RefusedAtLimit
    /\ active = "Lockout" => LO!LockoutHolds /\ LO!ExtraFailuresAreConcurrent
    /\ ER!CopyIsRecent /\ ER!CopyGoesForward

LimitsSymmetry == Permutations(Accounts) \cup Permutations(Checks)
=============================================================================
