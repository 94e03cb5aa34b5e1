--------------------------- MODULE StripeBilling ---------------------------
(***************************************************************************)
(* Subscriptions paid through Stripe: the webhook controller and service   *)
(* of modules/stripe, modules/subscriptions/subscriptions.service.ts and   *)
(* the subscription-status guard.                                          *)
(*                                                                         *)
(* Stripe is outside: it keeps the subscriptions, records every change as  *)
(* an event, and delivers an event again and again, in any order, until a  *)
(* delivery is answered 200.  The controller claims an event by inserting  *)
(* its id; a claimed event is answered 200 and skipped.  Plans, prices and *)
(* dates are left out; a grace period is "running" until it is "over".     *)
(***************************************************************************)
EXTENDS Integers, Sequences

CONSTANTS
    Orgs,           \* organizations
    Subs,           \* checkout sessions and the subscriptions they become
    Requests,       \* requests in progress at once
    MaxEvents,      \* bound: events Stripe records
    MaxStarted,     \* bound: requests that are not webhooks
    MayFail         \* whether statements can fail and processes die

ASSUME BoundsAssumption ==
    MaxEvents \in Nat /\ MaxStarted \in Nat /\ MayFail \in BOOLEAN
\* No subscription's id is what stands for none.
ASSUME SubsAssumption == "none" \notin Subs

VARIABLES
    customer,   \* customer[o]: stripeCustomerId of the organization, or None
    sub,        \* sub[o]: the row of organization_subscriptions, or Absent
    marked,     \* stripe_processed_events
    remote,     \* remote[s]: session or subscription s as Stripe has it
    customers,  \* how many customers Stripe has created
    events,     \* the events, as Stripe recorded them, and what became of each
    request,    \* request[r]: the handler r runs
    started,    \* requests begun, for the bound
    raced,      \* history: organizations two checkouts looked for a customer of
    disordered  \* history: organizations handled at once or out of order

vars == <<customer, sub, marked, remote, customers, events, request, started,
          raced, disordered>>
stripe == <<remote, customers>>

None == 0
Absent == [row |-> "absent"]
Idle == [pc |-> "idle"]
NoSub == "none"

Statuses == {"ACTIVE", "TRIALING", "PAST_DUE", "CANCELLED", "EXPIRED"}

\* Fault: a status that is not in the enumeration.
MapStatusMisspelt(status) ==
    CASE status = "active"   -> "ACTIVE"
      [] status = "trialing" -> "TRIALING"
      [] status = "past_due" -> "PAST_DUE"
      [] status = "canceled" -> "CANCELED"
      [] OTHER               -> "EXPIRED"

\* STRIPE_STATUS_MAP; every status it does not list is EXPIRED.
MapStatus(status) ==
    CASE status = "active"   -> "ACTIVE"
      [] status = "trialing" -> "TRIALING"
      [] status = "past_due" -> "PAST_DUE"
      [] status = "canceled" -> "CANCELLED"
      [] OTHER               -> "EXPIRED"

StripeStatuses == {"active", "trialing", "past_due", "canceled", "unpaid"}
Types == {"checkout", "updated", "deleted", "paid", "failed"}
Customers == Nat \ {0}
Rows == [of : Subs \cup {NoSub}, cancelAtEnd : BOOLEAN,
         status : Statuses,
         grace : {"none", "running", "over"}]
EventIds == 1..MaxEvents
EventRows == [type : Types, s : Subs, status : StripeStatuses, cancel : BOOLEAN,
              fate : {"issued", "handling", "done", "lost"}]
Running ==
    [pc : {"readOrg", "fetch", "find"}, e : EventIds]
    \cup [pc : {"findOrg", "insert", "update"}, e : EventIds, status : StripeStatuses]
    \cup [pc : {"write"}, e : EventIds, o : Orgs, seen : Statuses]
    \cup [pc : {"createCustomer"}, o : Orgs, s : Subs]
    \cup [pc : {"writeCustomer", "createSession"}, o : Orgs, s : Subs, c : Customers]
    \cup [pc : {"assign"}, o : Orgs]
    \cup [pc : {"callStripe"}, s : Subs, cancel : BOOLEAN]

TypeOK ==
    /\ customer \in [Orgs -> Customers \cup {None}]
    /\ sub \in [Orgs -> Rows \cup {Absent}]
    /\ marked \subseteq EventIds
    /\ remote \in [Subs -> [state : {"none"}]
                     \cup [state : {"open"}, o : Orgs, c : Customers]
                     \cup [state : StripeStatuses, o : Orgs, c : Customers,
                           cancel : BOOLEAN]]
    /\ customers \in Customers \cup {0}
    /\ events \in Seq(EventRows) /\ Len(events) <= MaxEvents
    /\ request \in [Requests -> Running \cup {Idle}]
    /\ started \in 0..MaxStarted
    /\ raced \subseteq Orgs /\ disordered \subseteq Orgs

Init ==
    /\ customer = [o \in Orgs |-> None]
    /\ sub = [o \in Orgs |-> Absent]
    /\ marked = {}
    /\ remote = [s \in Subs |-> [state |-> "none"]]
    /\ customers = 0
    /\ events = <<>>
    /\ request = [r \in Requests |-> Idle]
    /\ started = 0
    /\ raced = {} /\ disordered = {}

At(r, pc) == request[r].pc = pc
Goto(r, record) == request' = [request EXCEPT ![r] = record]
Begin(r, record) ==
    /\ request[r] = Idle
    /\ started < MaxStarted
    /\ started' = started + 1
    /\ Goto(r, record)

\* Answered 200: Stripe will not deliver the event again.
Settle(r, e, fate) ==
    /\ events' = [events EXCEPT ![e].fate = fate]
    /\ Goto(r, Idle)

OrgOf(e) == remote[events[e].s].o

\* The organization whose row the request may write.
Touches(q, o) ==
    CASE q.pc \in {"assign", "write"} -> q.o = o
      [] q.pc \in {"readOrg", "fetch", "find", "findOrg", "insert", "update"} -> OrgOf(q.e) = o
      [] OTHER -> FALSE

(***************************************************************************)
(* Stripe.  Every change is recorded as the events the handlers know.      *)
(***************************************************************************)

Live(s) == remote[s].state \in StripeStatuses \ {"canceled"}

Change(s, new, types) ==
    LET record(type) == [type |-> type, s |-> s, status |-> new.state,
                         cancel |-> new.cancel, fate |-> "issued"]
    IN /\ Len(events) + Len(types) <= MaxEvents
       /\ remote' = [remote EXCEPT ![s] = new]
       /\ events' = events \o [i \in DOMAIN types |-> record(types[i])]

CompleteCheckout(s) ==
    /\ remote[s].state = "open"
    /\ \E status \in {"active", "trialing"} :
         Change(s, [state |-> status, o |-> remote[s].o, c |-> remote[s].c,
                    cancel |-> FALSE], <<"checkout">>)
    /\ UNCHANGED <<customer, sub, marked, customers, request, started, raced, disordered>>

StripeChanges(s) ==
    /\ Live(s)
    /\ \/ Change(s, [remote[s] EXCEPT !.state = "past_due"], <<"failed", "updated">>)
       \/ /\ remote[s].state = "past_due"
          /\ Change(s, [remote[s] EXCEPT !.state = "unpaid"], <<"updated">>)
       \/ /\ remote[s].state \in {"past_due", "unpaid"}
          /\ Change(s, [remote[s] EXCEPT !.state = "active"], <<"paid", "updated">>)
       \/ Change(s, [remote[s] EXCEPT !.state = "canceled", !.cancel = FALSE],
                 <<"deleted">>)
    /\ UNCHANGED <<customer, sub, marked, customers, request, started, raced, disordered>>

GracePeriodEnds(o) ==
    /\ sub[o] # Absent
    /\ sub[o].grace = "running"
    /\ sub' = [sub EXCEPT ![o].grace = "over"]
    /\ UNCHANGED <<customer, marked, stripe, events, request, started, raced, disordered>>

(***************************************************************************)
(* handleWebhook: one insert claims the event.                             *)
(***************************************************************************)

Handler(e) == CASE events[e].type = "checkout" -> [pc |-> "readOrg", e |-> e]
                [] OTHER                       -> [pc |-> "find", e |-> e]

\* History: another request is writing the organization's row, or an earlier
\* event of it has not been handled.
Disorder(e) ==
    LET o == OrgOf(e) IN
    disordered' = IF \/ \E q \in Requests : Touches(request[q], o)
                     \/ \E f \in 1..(e - 1) : OrgOf(f) = o /\ events[f].fate # "done"
                  THEN disordered \cup {o} ELSE disordered

\* Fault: events are dispatched without looking at the marker.
DeliverUnchecked(r, e) ==
    /\ request[r] = Idle
    /\ marked' = marked \cup {e}
    /\ events' = [events EXCEPT ![e].fate = "handling"]
    /\ Goto(r, Handler(e))
    /\ Disorder(e)
    /\ UNCHANGED <<customer, sub, stripe, started, raced>>

Deliver(r, e) ==
    /\ request[r] = Idle
    /\ e \notin marked
    /\ marked' = marked \cup {e}
    /\ events' = [events EXCEPT ![e].fate = "handling"]
    /\ Goto(r, Handler(e))
    /\ Disorder(e)
    /\ UNCHANGED <<customer, sub, stripe, started, raced>>

\* checkout.session.completed: the organization's customer is stored if it has
\* none.  Then the subscription is fetched as it is NOW at Stripe.
ReadOrg(r) ==
    LET o == OrgOf(request[r].e) IN
    /\ At(r, "readOrg")
    /\ customer' = IF customer[o] # None THEN customer
                   ELSE [customer EXCEPT ![o] = remote[events[request[r].e].s].c]
    /\ Goto(r, [pc |-> "fetch", e |-> request[r].e])
    /\ UNCHANGED <<sub, marked, stripe, events, started, raced, disordered>>

Fetch(r) ==
    LET e == request[r].e IN
    /\ At(r, "fetch")
    /\ Goto(r, [pc |-> "findOrg", e |-> e, status |-> remote[events[e].s].state])
    /\ UNCHANGED <<customer, sub, marked, stripe, events, started, raced, disordered>>

FindByOrg(r) ==
    LET q == request[r] IN
    /\ At(r, "findOrg")
    /\ Goto(r, [q EXCEPT !.pc = IF sub[OrgOf(q.e)] = Absent THEN "insert" ELSE "update"])
    /\ UNCHANGED <<customer, sub, marked, stripe, events, started, raced, disordered>>

CheckoutRow(q) == [of |-> events[q.e].s, status |-> MapStatus(q.status),
                   cancelAtEnd |-> FALSE, grace |-> "none"]

\* The organization's row is unique: if somebody inserted it since, the insert
\* fails, and the handler logs the error and returns.
InsertSub(r) ==
    LET q == request[r] IN LET o == OrgOf(q.e) IN
    /\ At(r, "insert")
    /\ IF sub[o] = Absent
       THEN sub' = [sub EXCEPT ![o] = CheckoutRow(q)] /\ Settle(r, q.e, "done")
       ELSE sub' = sub /\ Settle(r, q.e, "lost")
    /\ UNCHANGED <<customer, marked, stripe, started, raced, disordered>>

\* Fault: an existing row keeps the id of the previous subscription.
UpdateSubKeepsId(r) ==
    LET q == request[r] IN LET o == OrgOf(q.e) IN
    /\ At(r, "update")
    /\ sub' = [sub EXCEPT ![o] = [CheckoutRow(q) EXCEPT !.of = sub[o].of]]
    /\ Settle(r, q.e, "done")
    /\ UNCHANGED <<customer, marked, stripe, started, raced, disordered>>

UpdateSub(r) ==
    LET q == request[r] IN
    /\ At(r, "update")
    /\ sub' = [sub EXCEPT ![OrgOf(q.e)] = CheckoutRow(q)]
    /\ Settle(r, q.e, "done")
    /\ UNCHANGED <<customer, marked, stripe, started, raced, disordered>>

\* Fault: an event of an unknown subscription is never answered.
FindBySubUnanswered(r) ==
    LET e == request[r].e
        rows == {o \in Orgs : sub[o] # Absent /\ sub[o].of = events[e].s}
    IN
    /\ At(r, "find")
    /\ IF rows = {} THEN Goto(r, Idle)
       ELSE \E o \in rows :
              Goto(r, [pc |-> "write", e |-> e, o |-> o, seen |-> sub[o].status])
    /\ UNCHANGED <<customer, sub, marked, stripe, events, started, raced, disordered>>

\* The other handlers look the row up by the subscription's id and ignore the
\* event when there is none.
FindBySub(r) ==
    LET e == request[r].e
        rows == {o \in Orgs : sub[o] # Absent /\ sub[o].of = events[e].s}
    IN
    /\ At(r, "find")
    /\ IF rows = {} THEN Settle(r, e, "done")
       ELSE /\ \E o \in rows :
                 Goto(r, [pc |-> "write", e |-> e, o |-> o, seen |-> sub[o].status])
            /\ events' = events
    /\ UNCHANGED <<customer, sub, marked, stripe, started, raced, disordered>>

\* Fault: a failed payment starts no grace period.
HandledNoGrace(row, event, seen) ==
    CASE event.type = "updated" -> [row EXCEPT !.status = MapStatus(event.status),
                                               !.cancelAtEnd = event.cancel]
      [] event.type = "deleted" -> [row EXCEPT !.status = "CANCELLED",
                                               !.cancelAtEnd = FALSE]
      [] event.type = "failed"  -> [row EXCEPT !.status = "PAST_DUE"]
      [] event.type = "paid" /\ seen = "PAST_DUE" ->
                                   [row EXCEPT !.status = "ACTIVE", !.grace = "none"]
      [] OTHER -> row

\* Fault: a deleted subscription still waits for its cancellation.
HandledKeepsFlag(row, event, seen) ==
    CASE event.type = "updated" -> [row EXCEPT !.status = MapStatus(event.status),
                                               !.cancelAtEnd = event.cancel]
      [] event.type = "deleted" -> [row EXCEPT !.status = "CANCELLED"]
      [] event.type = "failed"  -> [row EXCEPT !.status = "PAST_DUE",
                                               !.grace = "running"]
      [] event.type = "paid" /\ seen = "PAST_DUE" ->
                                   [row EXCEPT !.status = "ACTIVE", !.grace = "none"]
      [] OTHER -> row

\* What the handler of the event makes of the row; seen is the status read.
Handled(row, event, seen) ==
    CASE event.type = "updated" -> [row EXCEPT !.status = MapStatus(event.status),
                                               !.cancelAtEnd = event.cancel]
      [] event.type = "deleted" -> [row EXCEPT !.status = "CANCELLED",
                                               !.cancelAtEnd = FALSE]
      [] event.type = "failed"  -> [row EXCEPT !.status = "PAST_DUE",
                                               !.grace = "running"]
      [] event.type = "paid" /\ seen = "PAST_DUE" ->
                                   [row EXCEPT !.status = "ACTIVE", !.grace = "none"]
      [] OTHER -> row

WriteSub(r) ==
    LET q == request[r] IN
    /\ At(r, "write")
    /\ sub' = [sub EXCEPT ![q.o] = Handled(@, events[q.e], q.seen)]
    /\ Settle(r, q.e, "done")
    /\ UNCHANGED <<customer, marked, stripe, started, raced, disordered>>

\* A statement of the handler fails.  Its catch logs the error and returns, so
\* the controller answers 200 with the event still marked.  A process that dies
\* leaves the same rows, and the redelivery is answered as a duplicate.
HandlerFails(r) ==
    /\ MayFail
    /\ request[r] # Idle
    /\ IF "e" \in DOMAIN request[r] THEN Settle(r, request[r].e, "lost")
       ELSE Goto(r, Idle) /\ UNCHANGED events
    /\ UNCHANGED <<customer, sub, marked, stripe, started, raced, disordered>>

(***************************************************************************)
(* subscriptions.service.ts.                                               *)
(***************************************************************************)

\* createCheckoutSession: ensureStripeCustomer reads the organization.
BeginCheckout(r, o, s) ==
    /\ remote[s].state = "none"
    /\ \A q \in Requests : "s" \in DOMAIN request[q] => request[q].s # s
    /\ IF customer[o] = None
       THEN Begin(r, [pc |-> "createCustomer", o |-> o, s |-> s])
       ELSE Begin(r, [pc |-> "createSession", o |-> o, s |-> s, c |-> customer[o]])
    /\ raced' = IF \E q \in Requests : request[q].pc \in {"createCustomer", "writeCustomer"}
                                         /\ request[q].o = o
                THEN raced \cup {o} ELSE raced
    /\ UNCHANGED <<customer, sub, marked, stripe, events, disordered>>

CreateCustomer(r) ==
    LET q == request[r] IN
    /\ At(r, "createCustomer")
    /\ customers' = customers + 1
    /\ Goto(r, [pc |-> "writeCustomer", o |-> q.o, s |-> q.s, c |-> customers + 1])
    /\ UNCHANGED <<customer, sub, marked, remote, events, started, raced, disordered>>

\* Fault: the new customer is used but not stored.
WriteCustomerForgotten(r) ==
    /\ At(r, "writeCustomer")
    /\ Goto(r, [request[r] EXCEPT !.pc = "createSession"])
    /\ UNCHANGED <<customer, sub, marked, stripe, events, started, raced, disordered>>

WriteCustomer(r) ==
    LET q == request[r] IN
    /\ At(r, "writeCustomer")
    /\ customer' = [customer EXCEPT ![q.o] = q.c]
    /\ Goto(r, [q EXCEPT !.pc = "createSession"])
    /\ UNCHANGED <<sub, marked, stripe, events, started, raced, disordered>>

CreateSession(r) ==
    LET q == request[r] IN
    /\ At(r, "createSession")
    /\ remote' = [remote EXCEPT ![q.s] = [state |-> "open", o |-> q.o, c |-> q.c]]
    /\ Goto(r, Idle)
    /\ UNCHANGED <<customer, sub, marked, customers, events, started, raced, disordered>>

\* assignPlan of an existing row writes its plan only, which is left out.
BeginAssign(r, o) ==
    /\ sub[o] = Absent
    /\ Begin(r, [pc |-> "assign", o |-> o])
    /\ disordered' = IF \E q \in Requests : Touches(request[q], o)
                     THEN disordered \cup {o} ELSE disordered
    /\ UNCHANGED <<customer, sub, marked, stripe, events, raced>>

AssignPlan(r) ==
    LET o == request[r].o IN
    /\ At(r, "assign")
    /\ sub' = IF sub[o] # Absent THEN sub
              ELSE [sub EXCEPT ![o] = [of |-> NoSub, status |-> "ACTIVE",
                                       cancelAtEnd |-> FALSE, grace |-> "none"]]
    /\ Goto(r, Idle)
    /\ UNCHANGED <<customer, marked, stripe, events, started, raced, disordered>>

\* cancelSubscription, resumeSubscription and changePlan change Stripe only;
\* the row follows with the event.
BeginCancelOrResume(r, o, cancel) ==
    /\ sub[o] # Absent /\ sub[o].of # NoSub
    /\ ~cancel => sub[o].cancelAtEnd
    /\ Begin(r, [pc |-> "callStripe", s |-> sub[o].of, cancel |-> cancel])
    /\ UNCHANGED <<customer, sub, marked, stripe, events, raced, disordered>>

CallStripe(r) ==
    LET q == request[r] IN
    /\ At(r, "callStripe")
    /\ IF Live(q.s)
       THEN Change(q.s, [remote[q.s] EXCEPT !.cancel = q.cancel], <<"updated">>)
       ELSE UNCHANGED <<remote, events>>
    /\ Goto(r, Idle)
    /\ UNCHANGED <<customer, sub, marked, customers, started, raced, disordered>>

\* The answer of SubscriptionStatusGuard, which no controller applies yet, on the
\* row; no row lets a request through.
Allowed(o) ==
    \/ sub[o] = Absent
    \/ sub[o].status \in {"ACTIVE", "TRIALING"}
    \/ sub[o].status = "PAST_DUE" /\ sub[o].grace = "running"

Advance(r) ==
    \/ ReadOrg(r) \/ Fetch(r) \/ FindByOrg(r) \/ InsertSub(r) \/ UpdateSub(r)
    \/ FindBySub(r) \/ WriteSub(r)
    \/ CreateCustomer(r) \/ WriteCustomer(r) \/ CreateSession(r)
    \/ AssignPlan(r) \/ CallStripe(r)

Next ==
    \/ \E s \in Subs : CompleteCheckout(s) \/ StripeChanges(s)
    \/ \E o \in Orgs : GracePeriodEnds(o)
    \/ \E r \in Requests, e \in DOMAIN events : Deliver(r, e)
    \/ \E r \in Requests : Advance(r) \/ HandlerFails(r)
    \/ \E r \in Requests, o \in Orgs, s \in Subs : BeginCheckout(r, o, s)
    \/ \E r \in Requests, o \in Orgs : BeginAssign(r, o)
    \/ \E r \in Requests, o \in Orgs, cancel \in BOOLEAN : BeginCancelOrResume(r, o, cancel)

Spec == Init /\ [][Next]_vars

\* Stripe redelivers an unanswered event for days and the event loop runs every
\* handler it has begun.
Fairness ==
    /\ \A e \in EventIds : WF_vars(e \in DOMAIN events /\ \E r \in Requests : Deliver(r, e))
    /\ \A r \in Requests : WF_vars(Advance(r))

FairSpec == Spec /\ Fairness

(***************************************************************************)
(* Properties.                                                             *)
(***************************************************************************)

\* The marker makes redelivery harmless (markProcessed): an event that was
\* handed to a handler is never handed to one again, and its outcome stands,
\* whatever Stripe redelivers and whichever handlers overlap.
HandledOnce ==
    [][\A e \in DOMAIN events :
         /\ events[e].fate # "issued" => events'[e].fate # "issued"
         /\ events[e].fate \in {"done", "lost"} => events'[e] = events[e]]_vars

\* No request is working on the organization and every event of its
\* subscriptions took effect.
Quiet(o) ==
    /\ \A r \in Requests : ~Touches(request[r], o)
    /\ \A e \in DOMAIN events : OrgOf(e) = o => events[e].fate = "done"

\* The row follows Stripe (the five webhook handlers): when the events of an
\* organization were handled one at a time and in order, its row has the status
\* and the cancellation flag of the subscription it names, also after a second
\* checkout replaced the first subscription.
MirrorsStripe ==
    \A o \in Orgs \ disordered :
        (Quiet(o) /\ sub[o] # Absent /\ sub[o].of # NoSub) =>
            LET s == sub[o].of IN
            /\ sub[o].status = MapStatus(remote[s].state)
            /\ sub[o].cancelAtEnd = remote[s].cancel

\* Access and payment agree (canActivate after the handlers): in the same
\* states the row makes the guard let an organization in exactly when Stripe has
\* its subscription paid for or on trial, or past due with the grace period not
\* over; a past-due organization was always given a grace period.
AccessFollowsPayment ==
    \A o \in Orgs \ disordered :
        (Quiet(o) /\ sub[o] # Absent /\ sub[o].of # NoSub) =>
            LET state == remote[sub[o].of].state IN
            /\ Allowed(o) <=> \/ state \in {"active", "trialing"}
                              \/ state = "past_due" /\ sub[o].grace # "over"
            /\ state = "past_due" => sub[o].grace # "none"

\* The billing portal is opened for the organization's customer
\* (ensureStripeCustomer): unless two checkouts both looked for a customer
\* that was not there yet, the subscription in the row belongs to it.
PortalShowsSubscription ==
    \A o \in Orgs \ raced :
        (sub[o] # Absent /\ sub[o].of # NoSub) => remote[sub[o].of].c = customer[o]

\* Every event Stripe records is handled or lost to a failure; none is claimed
\* and then left undecided.
EventsSettle ==
    \A e \in EventIds :
        e \in DOMAIN events ~> (e \in DOMAIN events /\ events[e].fate \in {"done", "lost"})

\* What the controller's comment and docs/security-audit.md (C4) say: an event
\* whose handler failed is released, so that Stripe's retry handles it again.
FailedEventsAreReleased ==
    \A e \in DOMAIN events : events[e].fate = "lost" => e \notin marked
=============================================================================
