----------------------------- MODULE MCOutside -----------------------------
(* The parts that keep state outside PostgreSQL and need fairness to finish, *)
(* one of them active in a behaviour: the buffer of events, the locks in     *)
(* Redis, the billing at Stripe.  They share nothing.                        *)
EXTENDS EventTracking

CONSTANTS Keys, Keyed, Requests, MayFail, Orgs, Subs, Webhooks, MaxEvents, MaxStarted

VARIABLES
    active,
    lock, request, succeeded, exposed,
    customer, sub, marked, remote, customers, received, handler, started, raced, disordered

ID == INSTANCE Idempotency
SB == INSTANCE StripeBilling WITH Requests <- Webhooks, request <- handler, events <- received

locks == <<lock, request, succeeded, exposed>>
stripe == <<customer, sub, marked, remote, customers, received, handler, started, raced, disordered>>
outside == <<active, vars, locks, stripe>>

OutsideInit ==
    /\ active \in {"EventTracking", "Idempotency", "StripeBilling"}
    /\ Init /\ ID!Init /\ SB!Init

OutsideNext ==
    \/ active = "EventTracking" /\ Next /\ UNCHANGED <<active, locks, stripe>>
    \/ active = "Idempotency" /\ ID!Next /\ UNCHANGED <<active, vars, stripe>>
    \/ active = "StripeBilling" /\ SB!Next /\ UNCHANGED <<active, vars, locks>>

\* Nothing is enabled of what is not active.
OutsideSpec ==
    /\ OutsideInit /\ [][OutsideNext]_outside
    /\ Fairness /\ ID!Fairness /\ SB!Fairness

\* Nothing waits for ever: an event in the buffer is stored or lost, a lock comes
\* free, and an event of Stripe is decided, if the timer fires, Redis expires
\* keys and Stripe delivers again.
EverythingSettles == EventsArrive /\ ID!KeyComesFree /\ SB!EventsSettle
=============================================================================
