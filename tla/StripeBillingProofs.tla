------------------------ MODULE StripeBillingProofs ------------------------
(***************************************************************************)
(* Proofs about StripeBilling, for any organizations and subscriptions,    *)
(* any number of concurrent handlers and any order of deliveries.          *)
(***************************************************************************)
EXTENDS StripeBilling, TLAPS

(***************************************************************************)
(* The inductive invariant.                                                *)
(***************************************************************************)

\* The steps of the handler of a completed checkout, of the other events, and of
\* a checkout that is not open yet.
CheckoutPcs == {"readOrg", "fetch", "findOrg", "insert", "update"}
EventPcs == CheckoutPcs \cup {"find", "write"}
SessionPcs == {"createCustomer", "writeCustomer", "createSession"}

Holds(r, e) == request[r].pc \in EventPcs /\ request[r].e = e

\* The marker is there exactly for the events that were handed to a handler, and
\* an undecided one of them has that handler only.
EventsInv ==
    /\ marked = {e \in DOMAIN events : events[e].fate # "issued"}
    /\ \A r \in Requests, e \in EventIds : Holds(r, e) =>
         /\ e \in DOMAIN events /\ events[e].fate = "handling"
         /\ events[e].type = "checkout" <=> request[r].pc \in CheckoutPcs
         /\ \A q \in Requests : Holds(q, e) => q = r

Completed(s) == remote[s].state \in StripeStatuses
Named(o) == sub[o] # Absent /\ sub[o].of # NoSub

\* Events, rows and handlers speak of subscriptions that Stripe has, and keep to
\* their organization; a session is opened by one request.
LinksInv ==
    /\ \A e \in DOMAIN events : Completed(events[e].s)
    /\ \A o \in Orgs : Named(o) => Completed(sub[o].of) /\ remote[sub[o].of].o = o
    /\ \A r \in Requests :
         /\ At(r, "write") => sub[request[r].o] # Absent /\ request[r].o = OrgOf(request[r].e)
         /\ At(r, "callStripe") => Completed(request[r].s)
         /\ request[r].pc \in SessionPcs =>
              /\ remote[request[r].s].state = "none"
              /\ \A q \in Requests :
                   request[q].pc \in SessionPcs /\ request[q].s = request[r].s => q = r

\* Unless two checkouts of an organization looked for a customer, it has at most
\* one, and every session and subscription of it is that customer's.
CustomerInv ==
    \A o \in Orgs \ raced :
        /\ \A s \in Subs :
             remote[s].state # "none" /\ remote[s].o = o => remote[s].c = customer[o]
        /\ \A r \in Requests : request[r].pc \in SessionPcs /\ request[r].o = o =>
             IF At(r, "createSession") THEN request[r].c = customer[o]
             ELSE /\ customer[o] = None
                  /\ \A q \in Requests : request[q].pc \in SessionPcs /\ request[q].o = o => q = r

Inv == TypeOK /\ EventsInv /\ LinksInv /\ CustomerInv

(***************************************************************************)
(* What holds of the organizations whose events are handled in order.      *)
(***************************************************************************)

\* Events of the organization are handed out in order, each after the one before
\* took effect, and one request at a time works on its row.
InOrder(o) ==
    /\ \A e, f \in DOMAIN events :
         OrgOf(e) = o /\ OrgOf(f) = o /\ e < f /\ events[f].fate # "issued" => events[e].fate = "done"
    /\ \A r, q \in Requests : Touches(request[r], o) /\ Touches(request[q], o) => q = r

\* The latest event of s.
Latest(e, s) ==
    /\ e \in DOMAIN events /\ events[e].s = s
    /\ \A f \in DOMAIN events : events[f].s = s => f <= e

\* Stripe's latest event tells the subscription as it is.
ToldInv ==
    /\ \A s \in Subs : Completed(s) => \E e \in EventIds : Latest(e, s)
    /\ \A s \in Subs, e \in EventIds : Latest(e, s) =>
         /\ events[e].type \in {"checkout", "updated", "deleted"}
         /\ events[e].status = remote[s].state /\ events[e].cancel = remote[s].cancel
         /\ events[e].type = "checkout" => events[e].status \in {"active", "trialing"} /\ ~events[e].cancel
         /\ events[e].type = "deleted" => events[e].status = "canceled" /\ ~events[e].cancel

\* Events that leave a row with a grace period; past_due is told by one that
\* follows another directly.
Due(e) == events[e].type = "failed" \/ (events[e].type = "updated" /\ events[e].status = "past_due")
Follows(p, e) ==
    /\ p < e /\ events[p].s = events[e].s
    /\ \A f \in DOMAIN events : events[f].s = events[e].s => f <= p \/ e <= f
DueInv ==
    \A e \in DOMAIN events :
        events[e].type = "updated" /\ Due(e) => \E p \in DOMAIN events : Follows(p, e) /\ Due(p)

\* What the handlers hold of an organization in order.
HeldInv(o) ==
    \A r \in Requests, e \in EventIds : Holds(r, e) /\ OrgOf(e) = o =>
        /\ At(r, "write") => sub[o].of = events[e].s
        /\ request[r].pc \in {"findOrg", "insert", "update"} /\ Latest(e, events[e].s) =>
             request[r].status = remote[events[e].s].state

\* What its row holds.
RowInv(o) ==
    Named(o) =>
        /\ \A e \in EventIds : Latest(e, sub[o].of) /\ events[e].fate = "done" =>
             /\ sub[o].status = MapStatus(remote[sub[o].of].state)
             /\ sub[o].cancelAtEnd = remote[sub[o].of].cancel
        /\ \A e \in DOMAIN events :
             /\ events[e].s = sub[o].of /\ events[e].fate = "done" /\ Due(e)
             /\ \A f \in DOMAIN events : events[f].s = sub[o].of /\ events[f].fate = "done" => f <= e
             => sub[o].grace # "none"

OrderInv == \A o \in Orgs \ disordered : InOrder(o) /\ HeldInv(o) /\ RowInv(o)

(***************************************************************************)
(* Lemmas about the data.                                                  *)
(***************************************************************************)

\* Stripe's list of events.
LEMMA EventList ==
    ASSUME TypeOK
    PROVE  /\ \A e \in DOMAIN events : e \in EventIds /\ e \in Nat /\ events[e] \in EventRows
           /\ events \in Seq(EventRows) /\ Len(events) \in Nat /\ DOMAIN events = 1..Len(events)
BY BoundsAssumption DEF TypeOK, EventIds

\* What Stripe keeps of a subscription.
Subscriptions == [state : StripeStatuses, o : Orgs, c : Customers, cancel : BOOLEAN]

\* Stripe has the fields of a subscription for one whose state is a status.
LEMMA RemoteFields ==
    ASSUME TypeOK, NEW s \in Subs
    PROVE  /\ Completed(s) => remote[s] \in Subscriptions
           /\ remote[s].state = "open" => remote[s].o \in Orgs /\ remote[s].c \in Customers
           /\ Completed(s) => remote[s].state \notin {"none", "open"}
BY DEF TypeOK, Completed, StripeStatuses, Subscriptions

\* A request in progress is a record with the fields of its step.
LEMMA Fields ==
    ASSUME TypeOK, NEW r \in Requests
    PROVE  /\ request[r] = Idle <=> request[r].pc = "idle"
           /\ request[r].pc \in EventPcs => request[r].e \in EventIds
           /\ request[r].pc \in {"findOrg", "insert", "update"} => request[r].status \in StripeStatuses
           /\ request[r].pc = "write" => request[r].o \in Orgs /\ request[r].seen \in Statuses
           /\ request[r].pc \in SessionPcs => request[r].o \in Orgs /\ request[r].s \in Subs
           /\ request[r].pc \in {"writeCustomer", "createSession"} => request[r].c \in Customers
           /\ request[r].pc = "assign" => request[r].o \in Orgs
           /\ request[r].pc = "callStripe" => request[r].s \in Subs /\ request[r].cancel \in BOOLEAN
           /\ "e" \in DOMAIN request[r] <=> request[r].pc \in EventPcs
           /\ "s" \in DOMAIN request[r] <=> request[r].pc \in SessionPcs \cup {"callStripe"}
           /\ request[r].pc \in EventPcs \cup SessionPcs \cup {"idle", "assign", "callStripe"}
<1>1. request[r] \in Running \cup {Idle}
      BY DEF TypeOK
<1> QED BY <1>1 DEF Running, Idle, EventPcs, CheckoutPcs, SessionPcs

\* A status of Stripe maps to a status of the row.
LEMMA Mapped ==
    ASSUME NEW status
    PROVE  MapStatus(status) \in Statuses
BY DEF MapStatus, Statuses

\* A handler makes a row of a row, of the same subscription.
LEMMA HandledRow ==
    ASSUME NEW row \in Rows, NEW event \in EventRows, NEW seen
    PROVE  Handled(row, event, seen) \in Rows /\ Handled(row, event, seen).of = row.of
<1>1. MapStatus(event.status) \in Statuses
      BY Mapped
<1> QED BY <1>1 DEF Handled, Rows, EventRows, Statuses

(***************************************************************************)
(* What the steps do.                                                      *)
(***************************************************************************)

\* Stripe changes a subscription and records why.
Recorded(s, new, types) ==
    /\ new \in Subscriptions /\ new.o = remote[s].o /\ new.c = remote[s].c
    /\ types \in Seq(Types)
    /\ \/ /\ remote[s].state = "open" /\ types = <<"checkout">>
          /\ new.state \in {"active", "trialing"} /\ ~new.cancel
       \/ Completed(s) /\ types = <<"failed", "updated">> /\ new.state = "past_due"
       \/ /\ Completed(s) /\ types = <<"updated">>
          /\ new.state = "past_due" => remote[s].state = "past_due"
       \/ Completed(s) /\ types = <<"paid", "updated">> /\ new.state = "active"
       \/ Completed(s) /\ types = <<"deleted">> /\ new.state = "canceled" /\ ~new.cancel
    /\ Change(s, new, types)
    /\ UNCHANGED <<customer, sub, marked, customers, raced, disordered>>

\* Every change of a subscription is one of those.
LEMMA RecordedByStripe ==
    ASSUME TypeOK, NEW s \in Subs, CompleteCheckout(s) \/ StripeChanges(s)
    PROVE  /\ \E new, types : Recorded(s, new, types)
           /\ UNCHANGED <<request, started>>
<1>1. UNCHANGED <<customer, sub, marked, customers, request, started, raced, disordered>>
      BY DEF CompleteCheckout, StripeChanges
<1>2. CASE CompleteCheckout(s)
  <2>1. PICK status \in {"active", "trialing"} :
           Change(s, [state |-> status, o |-> remote[s].o, c |-> remote[s].c,
                      cancel |-> FALSE], <<"checkout">>)
        BY <1>2 DEF CompleteCheckout
  <2>2. remote[s].state = "open" /\ remote[s].o \in Orgs /\ remote[s].c \in Customers
        BY <1>2, RemoteFields DEF CompleteCheckout
  <2> DEFINE new == [state |-> status, o |-> remote[s].o, c |-> remote[s].c, cancel |-> FALSE]
  <2>3. new \in Subscriptions /\ <<"checkout">> \in Seq(Types)
        BY <2>2 DEF Subscriptions, StripeStatuses, Types
  <2>4. Recorded(s, new, <<"checkout">>)
        BY <1>1, <2>1, <2>2, <2>3 DEF Recorded
  <2> QED BY <1>1, <2>4
<1>3. CASE StripeChanges(s)
  <2>1. Completed(s) /\ remote[s] \in Subscriptions
        BY <1>3, RemoteFields DEF StripeChanges, Live, Completed
  <2>2. /\ [remote[s] EXCEPT !.state = "past_due"] \in Subscriptions
        /\ [remote[s] EXCEPT !.state = "unpaid"] \in Subscriptions
        /\ [remote[s] EXCEPT !.state = "active"] \in Subscriptions
        /\ [remote[s] EXCEPT !.state = "canceled", !.cancel = FALSE] \in Subscriptions
        BY <2>1 DEF Subscriptions, StripeStatuses
  <2>3. /\ <<"failed", "updated">> \in Seq(Types) /\ <<"updated">> \in Seq(Types)
        /\ <<"paid", "updated">> \in Seq(Types) /\ <<"deleted">> \in Seq(Types)
        BY DEF Types
  <2>4. CASE Change(s, [remote[s] EXCEPT !.state = "past_due"], <<"failed", "updated">>)
    <3>1. Recorded(s, [remote[s] EXCEPT !.state = "past_due"], <<"failed", "updated">>)
          BY <1>1, <2>1, <2>2, <2>3, <2>4 DEF Recorded, Subscriptions
    <3> QED BY <1>1, <3>1
  <2>5. CASE Change(s, [remote[s] EXCEPT !.state = "unpaid"], <<"updated">>)
    <3>1. Recorded(s, [remote[s] EXCEPT !.state = "unpaid"], <<"updated">>)
          BY <1>1, <2>1, <2>2, <2>3, <2>5 DEF Recorded, Subscriptions
    <3> QED BY <1>1, <3>1
  <2>6. CASE Change(s, [remote[s] EXCEPT !.state = "active"], <<"paid", "updated">>)
    <3>1. Recorded(s, [remote[s] EXCEPT !.state = "active"], <<"paid", "updated">>)
          BY <1>1, <2>1, <2>2, <2>3, <2>6 DEF Recorded, Subscriptions
    <3> QED BY <1>1, <3>1
  <2>7. CASE Change(s, [remote[s] EXCEPT !.state = "canceled", !.cancel = FALSE], <<"deleted">>)
    <3>1. Recorded(s, [remote[s] EXCEPT !.state = "canceled", !.cancel = FALSE], <<"deleted">>)
          BY <1>1, <2>1, <2>2, <2>3, <2>7 DEF Recorded, Subscriptions
    <3> QED BY <1>1, <3>1
  <2> QED BY <1>3, <2>4, <2>5, <2>6, <2>7 DEF StripeChanges
<1> QED BY <1>2, <1>3

\* A cancellation or resumption is one, unless Stripe has given the subscription up.
LEMMA RecordedByCall ==
    ASSUME TypeOK, NEW r \in Requests, CallStripe(r)
    PROVE  /\ \/ \E new, types : Recorded(request[r].s, new, types)
              \/ UNCHANGED <<customer, sub, marked, remote, customers, events, raced, disordered>>
           /\ Goto(r, Idle) /\ started' = started
           /\ request[r].pc = "callStripe" /\ request[r].s \in Subs
<1> DEFINE s == request[r].s
           new == [remote[s] EXCEPT !.cancel = request[r].cancel]
<1>1. /\ request[r].pc = "callStripe" /\ s \in Subs /\ request[r].cancel \in BOOLEAN
      /\ Goto(r, Idle)
      /\ UNCHANGED <<customer, sub, marked, customers, started, raced, disordered>>
      BY Fields DEF CallStripe, At
<1>2. CASE Live(s)
  <2>1. Completed(s) /\ remote[s] \in Subscriptions
        BY <1>1, <1>2, RemoteFields DEF Live, Completed
  <2>2. /\ new \in Subscriptions /\ new.o = remote[s].o /\ new.c = remote[s].c
        /\ new.state = remote[s].state
        BY <1>1, <2>1 DEF Subscriptions
  <2>3. Change(s, new, <<"updated">>)
        BY <1>2 DEF CallStripe
  <2>4. <<"updated">> \in Seq(Types)
        BY DEF Types
  <2>5. Recorded(s, new, <<"updated">>)
        BY <1>1, <2>1, <2>2, <2>3, <2>4 DEF Recorded
  <2> QED BY <1>1, <2>5
<1>3. CASE ~Live(s)
      BY <1>1, <1>3 DEF CallStripe
<1> QED BY <1>2, <1>3

\* Concatenation.
LEMMA Concat ==
    ASSUME NEW S, NEW a \in Seq(S), NEW b \in Seq(S)
    PROVE  /\ a \o b \in Seq(S) /\ Len(a \o b) = Len(a) + Len(b)
           /\ \A i \in DOMAIN a : i \in DOMAIN (a \o b) /\ (a \o b)[i] = a[i]
           /\ \A i \in DOMAIN (a \o b) \ DOMAIN a :
                i - Len(a) \in 1..Len(b) /\ (a \o b)[i] = b[i - Len(a)]
OBVIOUS

\* Recording appends events that tell the subscription as it is now, and changes
\* nothing else.
LEMMA RecordedEffect ==
    ASSUME TypeOK, NEW s \in Subs, NEW new, NEW types, Recorded(s, new, types)
    PROVE  /\ remote' = [remote EXCEPT ![s] = new]
           /\ events' \in Seq(EventRows) /\ Len(events') = Len(events) + Len(types)
           /\ Len(events') <= MaxEvents
           /\ DOMAIN events \subseteq DOMAIN events'
           /\ \A e \in DOMAIN events : events'[e] = events[e]
           /\ \A e \in DOMAIN events' \ DOMAIN events :
                /\ e - Len(events) \in DOMAIN types
                /\ events'[e] = [type |-> types[e - Len(events)], s |-> s, status |-> new.state,
                                 cancel |-> new.cancel, fate |-> "issued"]
<1> DEFINE record(type) == [type |-> type, s |-> s, status |-> new.state,
                            cancel |-> new.cancel, fate |-> "issued"]
           added == [i \in DOMAIN types |-> record(types[i])]
<1>1. /\ remote' = [remote EXCEPT ![s] = new]
      /\ events' = events \o added
      /\ Len(events) + Len(types) <= MaxEvents
      BY DEF Recorded, Change
<1>2. \A type \in Types : record(type) \in EventRows
      BY DEF Recorded, Subscriptions, EventRows
<1>3. types \in Seq(Types) /\ DOMAIN types = 1..Len(types) /\ Len(types) \in Nat
      BY DEF Recorded
<1>4. PICK a \in Seq(EventRows) : events' = events \o a /\ Len(a) = Len(types)
                                  /\ \A i \in 1..Len(types) : a[i] = record(types[i])
  <2>1. added \in [1..Len(types) -> EventRows]
        BY <1>2, <1>3
  <2>2. added \in Seq(EventRows) /\ Len(added) = Len(types)
        BY <1>3, <2>1
  <2> QED BY <1>1, <1>3, <2>2
<1>5. events \in Seq(EventRows)
      BY DEF TypeOK
<1> HIDE DEF record
<1>6. /\ events' \in Seq(EventRows) /\ Len(events') = Len(events) + Len(types)
      /\ \A e \in DOMAIN events : e \in DOMAIN events' /\ events'[e] = events[e]
      /\ \A e \in DOMAIN events' \ DOMAIN events :
           e - Len(events) \in 1..Len(types) /\ events'[e] = record(types[e - Len(events)])
  <2>1. /\ events \o a \in Seq(EventRows) /\ Len(events \o a) = Len(events) + Len(a)
        /\ \A e \in DOMAIN events : e \in DOMAIN (events \o a) /\ (events \o a)[e] = events[e]
        /\ \A e \in DOMAIN (events \o a) \ DOMAIN events :
             e - Len(events) \in 1..Len(a) /\ (events \o a)[e] = a[e - Len(events)]
        BY <1>5, Concat
  <2> QED BY <1>4, <2>1
<1> QED BY <1>1, <1>3, <1>6 DEF record

\* A handler goes on to another statement of its event.
Continues(r) ==
    /\ request[r].pc \in EventPcs /\ request'[r].pc \in EventPcs
    /\ request[r].pc \in CheckoutPcs <=> request'[r].pc \in CheckoutPcs
    /\ request'[r].e = request[r].e
    /\ \A q \in Requests \ {r} : request'[q] = request[q]
    /\ UNCHANGED <<marked, remote, customers, events, started, raced, disordered>>

\* A handler ends, and its event is decided.
Decides(r) ==
    /\ Holds(r, request[r].e)
    /\ \E fate \in {"done", "lost"} : Settle(r, request[r].e, fate)
    /\ UNCHANGED <<customer, marked, remote, customers, started, raced, disordered>>

\* A request that handles no event begins, goes on or ends.
Aside(r) ==
    /\ request[r].pc \notin EventPcs /\ request'[r].pc \notin EventPcs
    /\ \A q \in Requests \ {r} : request'[q] = request[q]
    /\ UNCHANGED <<marked, events>>

\* The statements of the webhook handlers continue or decide.
LEMMA HandlerKinds ==
    ASSUME TypeOK, NEW r \in Requests
    PROVE  /\ ReadOrg(r) => Continues(r) /\ sub' = sub /\ At(r, "readOrg") /\ At(r, "fetch")'
           /\ Fetch(r) => /\ Continues(r) /\ UNCHANGED <<customer, sub>> /\ At(r, "fetch")
                          /\ request'[r].pc = "findOrg"
                          /\ request'[r].status = remote[events[request[r].e].s].state
           /\ FindByOrg(r) => /\ Continues(r) /\ UNCHANGED <<customer, sub>> /\ At(r, "findOrg")
                              /\ request'[r].pc \in {"insert", "update"}
                              /\ request'[r].status = request[r].status
           /\ InsertSub(r) => Decides(r) /\ At(r, "insert")
           /\ UpdateSub(r) => Decides(r) /\ At(r, "update")
           /\ WriteSub(r) => Decides(r) /\ At(r, "write")
<1> USE DEF EventPcs, CheckoutPcs, At
<1>1. request \in [Requests -> Running \cup {Idle}]
      BY DEF TypeOK
<1>2. ReadOrg(r) => Continues(r) /\ sub' = sub /\ At(r, "readOrg") /\ At(r, "fetch")'
      BY <1>1 DEF ReadOrg, Goto, Continues, stripe
<1>3. Fetch(r) => /\ Continues(r) /\ UNCHANGED <<customer, sub>> /\ At(r, "fetch")
                  /\ request'[r].pc = "findOrg"
                  /\ request'[r].status = remote[events[request[r].e].s].state
      BY <1>1 DEF Fetch, Goto, Continues, stripe
<1>4. ASSUME FindByOrg(r)
      PROVE  /\ Continues(r) /\ UNCHANGED <<customer, sub>> /\ At(r, "findOrg")
             /\ request'[r].pc \in {"insert", "update"}
             /\ request'[r].status = request[r].status
  <2>1. PICK pc \in {"insert", "update"} : Goto(r, [request[r] EXCEPT !.pc = pc])
        BY <1>4 DEF FindByOrg
  <2>2. request[r].pc = "findOrg" /\ request[r] # Idle
        BY <1>4 DEF FindByOrg, Idle
  <2>3. request[r] \in [pc : {"findOrg", "insert", "update"}, e : EventIds, status : StripeStatuses]
        BY <1>1, <2>2 DEF Running
  <2>4. request'[r] = [request[r] EXCEPT !.pc = pc]
        BY <1>1, <2>1 DEF Goto
  <2>5. request'[r].pc = pc /\ request'[r].e = request[r].e /\ request'[r].status = request[r].status
        BY <2>3, <2>4
  <2>6. \A q \in Requests \ {r} : request'[q] = request[q]
        BY <1>1, <2>1 DEF Goto
  <2> QED BY <1>4, <2>2, <2>5, <2>6 DEF FindByOrg, Continues, stripe
<1>5. InsertSub(r) => Decides(r) /\ At(r, "insert")
      BY DEF InsertSub, Decides, Holds, stripe
<1>6. UpdateSub(r) => Decides(r) /\ At(r, "update")
      BY DEF UpdateSub, Decides, Holds, stripe
<1>7. WriteSub(r) => Decides(r) /\ At(r, "write")
      BY DEF WriteSub, Decides, Holds, stripe
<1> QED BY <1>2, <1>3, <1>4, <1>5, <1>6, <1>7

\* The rows that name the subscription of r's event.
RowsNaming(r) == {o \in Orgs : sub[o] # Absent /\ sub[o].of = events[request[r].e].s}

\* The other handlers find their row, or have nothing to do.
LEMMA FindKinds ==
    ASSUME TypeOK, NEW r \in Requests, FindBySub(r)
    PROVE  /\ At(r, "find") /\ UNCHANGED <<customer, sub>>
           /\ IF RowsNaming(r) = {} THEN Decides(r)
              ELSE /\ Continues(r)
                   /\ \E o \in RowsNaming(r) :
                        request'[r] = [pc |-> "write", e |-> request[r].e, o |-> o, seen |-> sub[o].status]
<1> USE DEF EventPcs, CheckoutPcs, At
<1>1. request \in [Requests -> Running \cup {Idle}]
      BY DEF TypeOK
<1>2. At(r, "find") /\ UNCHANGED <<customer, sub, marked, stripe, started, raced, disordered>>
      BY DEF FindBySub
<1>3. CASE RowsNaming(r) = {}
  <2>1. Settle(r, request[r].e, "done")
        BY <1>3 DEF FindBySub, RowsNaming
  <2> QED BY <1>2, <1>3, <2>1 DEF Decides, Holds, stripe
<1>4. CASE RowsNaming(r) # {}
  <2>1. PICK o \in RowsNaming(r) :
           Goto(r, [pc |-> "write", e |-> request[r].e, o |-> o, seen |-> sub[o].status])
        BY <1>4 DEF FindBySub, RowsNaming
  <2>2. events' = events
        BY <1>4 DEF FindBySub, RowsNaming
  <2>3. request' = [request EXCEPT ![r] = [pc |-> "write", e |-> request[r].e, o |-> o, seen |-> sub[o].status]]
        BY <2>1 DEF Goto
  <2> HIDE DEF RowsNaming
  <2>4. request'[r] = [pc |-> "write", e |-> request[r].e, o |-> o, seen |-> sub[o].status]
        BY <1>1, <2>3
  <2>5. \A q \in Requests \ {r} : request'[q] = request[q]
        BY <1>1, <2>3
  <2>6. Continues(r)
        BY <1>2, <2>2, <2>4, <2>5 DEF Continues, stripe
  <2> QED BY <1>2, <1>4, <2>4, <2>6
<1> QED BY <1>3, <1>4

\* A failure decides an event or ends a request that handles none.
LEMMA FailureKinds ==
    ASSUME TypeOK, NEW r \in Requests, HandlerFails(r)
    PROVE  /\ IF request[r].pc \in EventPcs THEN Decides(r) ELSE Aside(r)
           /\ Goto(r, Idle) /\ UNCHANGED <<customer, sub, remote, customers, raced, disordered>>
<1>1. "e" \in DOMAIN request[r] <=> request[r].pc \in EventPcs
      BY Fields
<1>2. CASE request[r].pc \in EventPcs
      BY <1>1, <1>2 DEF HandlerFails, Decides, Settle, Holds, stripe
<1>3. CASE request[r].pc \notin EventPcs
      BY <1>1, <1>3 DEF HandlerFails, Aside, Goto, Idle, EventPcs, CheckoutPcs, stripe, TypeOK
<1> QED BY <1>2, <1>3

\* Checkouts, assignments and calls of Stripe handle no event.
LEMMA AsideKinds ==
    ASSUME TypeOK, NEW r \in Requests,
           \/ \E o \in Orgs, s \in Subs : BeginCheckout(r, o, s)
           \/ \E o \in Orgs : BeginAssign(r, o)
           \/ \E o \in Orgs, cancel \in BOOLEAN : BeginCancelOrResume(r, o, cancel)
           \/ CreateCustomer(r) \/ WriteCustomer(r) \/ CreateSession(r) \/ AssignPlan(r)
    PROVE  Aside(r) /\ (remote' = remote \/ CreateSession(r))
<1> USE DEF EventPcs, CheckoutPcs, At, Goto, Begin, Idle, Aside, stripe
<1>1. request \in [Requests -> Running \cup {Idle}]
      BY DEF TypeOK
<1>2. ASSUME NEW o \in Orgs, NEW s \in Subs, BeginCheckout(r, o, s)
      PROVE  Aside(r) /\ remote' = remote
      BY <1>1, <1>2 DEF BeginCheckout
<1>3. ASSUME NEW o \in Orgs, BeginAssign(r, o)
      PROVE  Aside(r) /\ remote' = remote
      BY <1>1, <1>3 DEF BeginAssign
<1>4. ASSUME NEW o \in Orgs, NEW cancel \in BOOLEAN, BeginCancelOrResume(r, o, cancel)
      PROVE  Aside(r) /\ remote' = remote
      BY <1>1, <1>4 DEF BeginCancelOrResume
<1>5. CASE CreateCustomer(r)
      BY <1>1, <1>5 DEF CreateCustomer
<1>6. CASE WriteCustomer(r)
  <2>1. request[r].pc = "writeCustomer" /\ request'[r] = [request[r] EXCEPT !.pc = "createSession"]
        BY <1>1, <1>6 DEF WriteCustomer
  <2>2. request[r] \in [pc : {"writeCustomer", "createSession"}, o : Orgs, s : Subs, c : Customers]
        BY <1>1, <2>1 DEF Running
  <2>3. request'[r].pc = "createSession"
        BY <2>1, <2>2
  <2> QED BY <1>1, <1>6, <2>1, <2>3 DEF WriteCustomer
<1>7. CASE CreateSession(r) \/ AssignPlan(r)
      BY <1>1, <1>7 DEF CreateSession, AssignPlan
<1> QED BY <1>2, <1>3, <1>4, <1>5, <1>6, <1>7

\* What the steps leave of an event, and of a subscription Stripe has.
SameEvent(e) ==
    /\ e \in DOMAIN events'
    /\ events'[e].type = events[e].type /\ events'[e].s = events[e].s
    /\ events'[e].status = events[e].status /\ events'[e].cancel = events[e].cancel
SameOwner(s) == Completed(s)' /\ remote'[s].o = remote[s].o /\ remote'[s].c = remote[s].c

\* Deciding an event changes what became of it, and nothing else.
LEMMA DecidesEffect ==
    ASSUME TypeOK, EventsInv, NEW r \in Requests, Decides(r)
    PROVE  \E e \in DOMAIN events, fate \in {"done", "lost"} :
             /\ Holds(r, e) /\ e = request[r].e /\ events[e].fate = "handling" /\ events'[e].fate = fate
             /\ request' = [request EXCEPT ![r] = Idle]
             /\ DOMAIN events' = DOMAIN events /\ events' \in Seq(EventRows) /\ Len(events') = Len(events)
             /\ \A f \in DOMAIN events : SameEvent(f)
             /\ \A f \in DOMAIN events \ {e} : events'[f] = events[f]
<1> DEFINE e == request[r].e
<1>1. e \in EventIds /\ Holds(r, e)
      BY Fields DEF Decides, Holds
<1>2. e \in DOMAIN events /\ events[e].fate = "handling"
      BY <1>1 DEF EventsInv
<1>3. PICK fate \in {"done", "lost"} : Settle(r, e, fate)
      BY DEF Decides
<1>4. events \in Seq(EventRows) /\ events[e] \in EventRows
      BY <1>2 DEF TypeOK
<1>5. /\ request' = [request EXCEPT ![r] = Idle]
      /\ events' = [events EXCEPT ![e] = [events[e] EXCEPT !.fate = fate]]
      BY <1>3 DEF Settle, Goto
<1>6. /\ [events[e] EXCEPT !.fate = fate] \in EventRows
      /\ [events[e] EXCEPT !.fate = fate].fate = fate
      /\ [events[e] EXCEPT !.fate = fate].type = events[e].type
      /\ [events[e] EXCEPT !.fate = fate].s = events[e].s
      /\ [events[e] EXCEPT !.fate = fate].status = events[e].status
      /\ [events[e] EXCEPT !.fate = fate].cancel = events[e].cancel
      BY <1>4 DEF EventRows
<1>7. PICK row : row = [events[e] EXCEPT !.fate = fate]
      OBVIOUS
<1>8. events' = [events EXCEPT ![e] = row] /\ row \in EventRows
      BY <1>5, <1>6, <1>7
<1>9. /\ DOMAIN events' = DOMAIN events /\ events' \in Seq(EventRows) /\ Len(events') = Len(events)
      /\ events'[e] = row /\ \A f \in DOMAIN events \ {e} : events'[f] = events[f]
      BY <1>2, <1>4, <1>8
<1>10. \A f \in DOMAIN events : SameEvent(f)
      BY <1>6, <1>7, <1>9 DEF SameEvent
<1> QED BY <1>1, <1>2, <1>5, <1>6, <1>7, <1>9, <1>10

\* So does delivering it.
LEMMA DeliverEffect ==
    ASSUME TypeOK, EventsInv, NEW r \in Requests, NEW e \in DOMAIN events, Deliver(r, e)
    PROVE  /\ events[e].fate = "issued" /\ events'[e].fate = "handling"
           /\ request[r] = Idle /\ request' = [request EXCEPT ![r] = Handler(e)]
           /\ DOMAIN events' = DOMAIN events /\ events' \in Seq(EventRows) /\ Len(events') = Len(events)
           /\ \A f \in DOMAIN events : SameEvent(f)
           /\ \A f \in DOMAIN events \ {e} : events'[f] = events[f]
<1>1. /\ request[r] = Idle /\ request' = [request EXCEPT ![r] = Handler(e)]
      /\ events' = [events EXCEPT ![e] = [events[e] EXCEPT !.fate = "handling"]]
      /\ events[e].fate = "issued"
      BY DEF Deliver, Goto, EventsInv
<1>2. events \in Seq(EventRows) /\ events[e] \in EventRows
      BY DEF TypeOK
<1>3. /\ [events[e] EXCEPT !.fate = "handling"] \in EventRows
      /\ [events[e] EXCEPT !.fate = "handling"].fate = "handling"
      /\ [events[e] EXCEPT !.fate = "handling"].type = events[e].type
      /\ [events[e] EXCEPT !.fate = "handling"].s = events[e].s
      /\ [events[e] EXCEPT !.fate = "handling"].status = events[e].status
      /\ [events[e] EXCEPT !.fate = "handling"].cancel = events[e].cancel
      BY <1>2 DEF EventRows
<1>4. PICK row : row = [events[e] EXCEPT !.fate = "handling"]
      OBVIOUS
<1>5. events' = [events EXCEPT ![e] = row] /\ row \in EventRows
      BY <1>1, <1>3, <1>4
<1>6. /\ DOMAIN events' = DOMAIN events /\ events' \in Seq(EventRows) /\ Len(events') = Len(events)
      /\ events'[e] = row /\ \A f \in DOMAIN events \ {e} : events'[f] = events[f]
      BY <1>2, <1>5
<1>7. \A f \in DOMAIN events : SameEvent(f)
      BY <1>3, <1>4, <1>6 DEF SameEvent
<1> QED BY <1>1, <1>3, <1>4, <1>6, <1>7

\* The steps of Next by what they do to the events.
LEMMA Kinds ==
    ASSUME TypeOK, [Next]_vars
    PROVE  \/ \E s \in Subs : \E new, types :
                /\ Recorded(s, new, types)
                /\ \/ request' = request
                   \/ \E r \in Requests : At(r, "callStripe") /\ Goto(r, Idle)
           \/ \E r \in Requests, e \in DOMAIN events : Deliver(r, e)
           \/ \E r \in Requests :
                \/ Continues(r) \/ Decides(r)
                \/ Aside(r) /\ (remote' = remote \/ CreateSession(r))
           \/ UNCHANGED <<marked, events, request, remote>>
<1>1. ASSUME NEW s \in Subs, CompleteCheckout(s) \/ StripeChanges(s)
      PROVE  \E new, types : Recorded(s, new, types) /\ request' = request
      BY <1>1, RecordedByStripe
<1>2. ASSUME NEW r \in Requests, CallStripe(r)
      PROVE  \/ \E s \in Subs : \E new, types : Recorded(s, new, types) /\ At(r, "callStripe") /\ Goto(r, Idle)
             \/ Aside(r) /\ remote' = remote
  <2>1. CASE \E new, types : Recorded(request[r].s, new, types)
        BY <1>2, <2>1, RecordedByCall DEF At
  <2>2. CASE UNCHANGED <<customer, sub, marked, remote, customers, events, raced, disordered>>
    <3>1. Goto(r, Idle) /\ request[r].pc = "callStripe"
          BY <1>2, RecordedByCall
    <3> QED BY <2>2, <3>1 DEF Aside, Goto, TypeOK, Idle, EventPcs, CheckoutPcs
  <2> QED BY <1>2, <2>1, <2>2, RecordedByCall
<1>3. ASSUME NEW r \in Requests, Advance(r), ~CallStripe(r)
      PROVE  Continues(r) \/ Decides(r) \/ (Aside(r) /\ (remote' = remote \/ CreateSession(r)))
  <2>1. CASE CreateCustomer(r) \/ WriteCustomer(r) \/ CreateSession(r) \/ AssignPlan(r)
    <3>1. Aside(r) /\ (remote' = remote \/ CreateSession(r))
          BY <2>1, AsideKinds
    <3> QED BY <3>1
  <2>2. CASE ReadOrg(r) \/ Fetch(r) \/ FindByOrg(r) \/ InsertSub(r) \/ UpdateSub(r) \/ WriteSub(r)
        BY <2>2, HandlerKinds
  <2>3. CASE FindBySub(r)
        BY <2>3, FindKinds
  <2> QED BY <1>3, <2>1, <2>2, <2>3 DEF Advance
<1>4. ASSUME NEW o \in Orgs, GracePeriodEnds(o)
      PROVE  UNCHANGED <<marked, events, request, remote>>
      BY <1>4 DEF GracePeriodEnds, stripe
<1>5. CASE UNCHANGED vars
      BY <1>5 DEF vars
<1> QED BY <1>1, <1>2, <1>3, <1>4, <1>5, FailureKinds, AsideKinds DEF Next

\* Events and the owners of subscriptions stay what they are.
LEMMA Kept ==
    ASSUME TypeOK, EventsInv, LinksInv, [Next]_vars
    PROVE  /\ \A e \in DOMAIN events : SameEvent(e) /\ OrgOf(e)' = OrgOf(e)
           /\ \A s \in Subs : Completed(s) => SameOwner(s)
           /\ \A e \in DOMAIN events' \ DOMAIN events : remote'[events'[e].s].state \in StripeStatuses
<1>1. ASSUME NEW s \in Subs, NEW new, NEW types, Recorded(s, new, types)
      PROVE  /\ \A e \in DOMAIN events : SameEvent(e)
             /\ \A q \in Subs : Completed(q) => SameOwner(q)
             /\ \A e \in DOMAIN events' \ DOMAIN events : remote'[events'[e].s].state \in StripeStatuses
  <2>1. /\ remote' = [remote EXCEPT ![s] = new]
        /\ \A e \in DOMAIN events : e \in DOMAIN events' /\ events'[e] = events[e]
        /\ \A e \in DOMAIN events' \ DOMAIN events : events'[e].s = s
        BY <1>1, RecordedEffect
  <2>2. /\ new.state \in StripeStatuses /\ new.o = remote[s].o /\ new.c = remote[s].c
        BY <1>1 DEF Recorded, Subscriptions
  <2>3. remote'[s] = new /\ \A q \in Subs \ {s} : remote'[q] = remote[q]
        BY <2>1 DEF TypeOK
  <2> QED BY <2>1, <2>2, <2>3 DEF SameEvent, SameOwner, Completed
<1>2. ASSUME NEW r \in Requests, NEW e \in DOMAIN events, Deliver(r, e)
      PROVE  remote' = remote /\ DOMAIN events' = DOMAIN events /\ \A f \in DOMAIN events : SameEvent(f)
      BY <1>2, DeliverEffect DEF Deliver, stripe
<1>3. ASSUME NEW r \in Requests, Decides(r)
      PROVE  remote' = remote /\ DOMAIN events' = DOMAIN events /\ \A f \in DOMAIN events : SameEvent(f)
      BY <1>3, DecidesEffect DEF Decides
<1>4. ASSUME events' = events
      PROVE  DOMAIN events' = DOMAIN events /\ \A f \in DOMAIN events : SameEvent(f)
      BY <1>4 DEF SameEvent
<1>5. ASSUME remote' = remote
      PROVE  \A s \in Subs : Completed(s) => SameOwner(s)
      BY <1>5 DEF Completed, SameOwner
<1>6. ASSUME NEW r \in Requests, CreateSession(r)
      PROVE  \A s \in Subs : Completed(s) => SameOwner(s)
  <2>1. request[r].s \in Subs /\ remote[request[r].s].state = "none"
        BY <1>6, Fields DEF CreateSession, At, SessionPcs, LinksInv
  <2>2. \A s \in Subs \ {request[r].s} : remote'[s] = remote[s]
        BY <1>6 DEF CreateSession, TypeOK
  <2> QED BY <2>1, <2>2 DEF Completed, SameOwner, StripeStatuses
<1>7. ASSUME NEW r \in Requests,
             \/ Continues(r) \/ Decides(r)
             \/ Aside(r) /\ (remote' = remote \/ CreateSession(r))
      PROVE  /\ DOMAIN events' = DOMAIN events /\ \A f \in DOMAIN events : SameEvent(f)
             /\ \A s \in Subs : Completed(s) => SameOwner(s)
      BY <1>3, <1>4, <1>5, <1>6, <1>7 DEF Continues, Aside
<1>8. ASSUME UNCHANGED <<marked, events, request, remote>>
      PROVE  /\ DOMAIN events' = DOMAIN events /\ \A f \in DOMAIN events : SameEvent(f)
             /\ \A s \in Subs : Completed(s) => SameOwner(s)
      BY <1>4, <1>5, <1>8
<1>9. /\ \A e \in DOMAIN events : SameEvent(e)
      /\ \A s \in Subs : Completed(s) => SameOwner(s)
      /\ \A e \in DOMAIN events' \ DOMAIN events : remote'[events'[e].s].state \in StripeStatuses
      BY <1>1, <1>2, <1>5, <1>7, <1>8, Kinds
<1>10. \A e \in DOMAIN events : events[e].s \in Subs /\ Completed(events[e].s)
      BY EventList DEF EventRows, LinksInv
<1>11. \A e \in DOMAIN events : OrgOf(e)' = OrgOf(e)
      BY <1>9, <1>10 DEF SameEvent, SameOwner, OrgOf
<1> QED BY <1>9, <1>11

\* The subscription of an event, and its organization.
LEMMA EventOwner ==
    ASSUME TypeOK, LinksInv, NEW e \in DOMAIN events
    PROVE  /\ events[e].s \in Subs /\ events[e].s # NoSub /\ Completed(events[e].s)
           /\ remote[events[e].s] \in Subscriptions
           /\ OrgOf(e) \in Orgs /\ remote[events[e].s].c \in Customers
           /\ remote[events[e].s].state \in StripeStatuses
<1>1. events[e].s \in Subs /\ Completed(events[e].s)
      BY EventList DEF EventRows, LinksInv
<1>2. remote[events[e].s] \in Subscriptions
      BY <1>1, RemoteFields
<1> QED BY <1>1, <1>2, SubsAssumption DEF Subscriptions, OrgOf, NoSub

\* The event of a handler.
LEMMA HandlersEvent ==
    ASSUME TypeOK, EventsInv, NEW r \in Requests, request[r].pc \in EventPcs
    PROVE  /\ request[r].e \in DOMAIN events /\ request[r].e \in EventIds
           /\ Holds(r, request[r].e) /\ events[request[r].e].fate = "handling"
<1>1. request[r].e \in EventIds
      BY Fields
<1> QED BY <1>1 DEF EventsInv, Holds

\* The row a checkout writes, unless somebody else inserted the organization's.
LEMMA CheckoutWrites ==
    ASSUME TypeOK, EventsInv, LinksInv, NEW r \in Requests, InsertSub(r) \/ UpdateSub(r)
    PROVE  /\ request[r].pc \in {"insert", "update"} /\ Decides(r) /\ customer' = customer
           /\ CheckoutRow(request[r]) \in Rows /\ CheckoutRow(request[r]).of = events[request[r].e].s
           /\ \/ /\ sub' = [sub EXCEPT ![OrgOf(request[r].e)] = CheckoutRow(request[r])]
                 /\ Settle(r, request[r].e, "done")
              \/ sub' = sub /\ Settle(r, request[r].e, "lost")
<1>1. request[r].pc \in {"insert", "update"} /\ Decides(r) /\ customer' = customer
      BY HandlerKinds DEF At, InsertSub, UpdateSub
<1>2. events[request[r].e].s \in Subs
      BY <1>1, HandlersEvent, EventOwner DEF EventPcs, CheckoutPcs
<1>3. CheckoutRow(request[r]) \in Rows /\ CheckoutRow(request[r]).of = events[request[r].e].s
      BY <1>2, Mapped DEF CheckoutRow, Rows
<1> QED BY <1>1, <1>3 DEF InsertSub, UpdateSub

\* The row another handler writes.
LEMMA HandlerWrites ==
    ASSUME TypeOK, EventsInv, LinksInv, NEW r \in Requests, WriteSub(r)
    PROVE  /\ request[r].pc = "write" /\ Decides(r) /\ customer' = customer
           /\ request[r].o \in Orgs /\ request[r].o = OrgOf(request[r].e) /\ sub[request[r].o] \in Rows
           /\ sub' = [sub EXCEPT ![request[r].o] =
                        Handled(sub[request[r].o], events[request[r].e], request[r].seen)]
           /\ Handled(sub[request[r].o], events[request[r].e], request[r].seen) \in Rows
           /\ Handled(sub[request[r].o], events[request[r].e], request[r].seen).of = sub[request[r].o].of
           /\ Settle(r, request[r].e, "done")
<1>1. request[r].pc = "write" /\ Decides(r) /\ customer' = customer
      BY HandlerKinds DEF At, WriteSub
<1>2. /\ request[r].o \in Orgs /\ request[r].o = OrgOf(request[r].e)
      /\ sub[request[r].o] # Absent /\ request[r].e \in DOMAIN events
      BY <1>1, Fields, HandlersEvent DEF LinksInv, At, EventPcs
<1>3. sub[request[r].o] \in Rows
      BY <1>2 DEF TypeOK
<1>4. events[request[r].e] \in EventRows
      BY <1>2, EventList
<1> QED BY <1>1, <1>2, <1>3, <1>4, HandledRow DEF WriteSub

\* Rows stay, and name another subscription only after its checkout.
LEMMA SubStep ==
    ASSUME TypeOK, EventsInv, LinksInv, [Next]_vars
    PROVE  /\ sub' \in [Orgs -> Rows \cup {Absent}]
           /\ \A o \in Orgs :
                /\ sub[o] # Absent => sub'[o] # Absent
                /\ sub[o] # Absent \/ Named(o)' =>
                     \/ sub[o] # Absent /\ sub'[o].of = sub[o].of
                     \/ \E r \in Requests :
                          /\ request[r].pc \in {"insert", "update"} /\ OrgOf(request[r].e) = o
                          /\ sub'[o].of = events[request[r].e].s
<1>0. sub \in [Orgs -> Rows \cup {Absent}] /\ Absent \notin Rows
      BY DEF TypeOK, Absent, Rows
<1>1. ASSUME sub' = sub
      PROVE  /\ sub' \in [Orgs -> Rows \cup {Absent}]
             /\ \A o \in Orgs : (sub[o] # Absent => sub'[o] # Absent)
                                /\ (sub[o] # Absent \/ Named(o)' =>
                                      sub[o] # Absent /\ sub'[o].of = sub[o].of)
      BY <1>0, <1>1 DEF Named
<1>2. ASSUME NEW p \in Orgs, NEW row \in Rows, sub' = [sub EXCEPT ![p] = row],
             (sub[p] = Absent /\ row.of = NoSub) \/ (sub[p] # Absent /\ row.of = sub[p].of)
      PROVE  /\ sub' \in [Orgs -> Rows \cup {Absent}]
             /\ \A o \in Orgs : (sub[o] # Absent => sub'[o] # Absent)
                                /\ (sub[o] # Absent \/ Named(o)' =>
                                      sub[o] # Absent /\ sub'[o].of = sub[o].of)
      BY <1>0, <1>2 DEF Named
<1>3. ASSUME NEW r \in Requests, InsertSub(r) \/ UpdateSub(r), sub' # sub
      PROVE  /\ sub' \in [Orgs -> Rows \cup {Absent}]
             /\ \A o \in Orgs :
                  /\ sub[o] # Absent => sub'[o] # Absent
                  /\ sub[o] # Absent \/ Named(o)' =>
                                  \/ sub[o] # Absent /\ sub'[o].of = sub[o].of
                                  \/ /\ request[r].pc \in {"insert", "update"} /\ OrgOf(request[r].e) = o
                                     /\ sub'[o].of = events[request[r].e].s
      BY <1>0, <1>3, CheckoutWrites DEF Named
<1>4. ASSUME NEW r \in Requests, WriteSub(r)
      PROVE  \E p \in Orgs, row \in Rows :
               sub' = [sub EXCEPT ![p] = row] /\ sub[p] # Absent /\ row.of = sub[p].of
      BY <1>0, <1>4, HandlerWrites
<1>5. ASSUME NEW o \in Orgs, GracePeriodEnds(o)
      PROVE  \E row \in Rows : sub' = [sub EXCEPT ![o] = row] /\ sub[o] # Absent /\ row.of = sub[o].of
  <2>1. sub[o] # Absent /\ sub' = [sub EXCEPT ![o] = [sub[o] EXCEPT !.grace = "over"]]
        BY <1>5 DEF GracePeriodEnds
  <2>2. [sub[o] EXCEPT !.grace = "over"] \in Rows /\ [sub[o] EXCEPT !.grace = "over"].of = sub[o].of
        BY <1>0, <2>1 DEF Rows
  <2> QED BY <2>1, <2>2
<1>6. ASSUME NEW r \in Requests, AssignPlan(r), sub' # sub
      PROVE  \E p \in Orgs, row \in Rows : sub' = [sub EXCEPT ![p] = row] /\ sub[p] = Absent /\ row.of = NoSub
  <2>1. request[r].o \in Orgs
        BY <1>6, Fields DEF AssignPlan, At
  <2>2. [of |-> NoSub, status |-> "ACTIVE", cancelAtEnd |-> FALSE, grace |-> "none"] \in Rows
        BY DEF Rows, Statuses
  <2> QED BY <1>6, <2>1, <2>2 DEF AssignPlan
<1>7. \/ sub' = sub
      \/ \E r \in Requests : InsertSub(r) \/ UpdateSub(r) \/ WriteSub(r) \/ AssignPlan(r)
      \/ \E o \in Orgs : GracePeriodEnds(o)
  <2>1. ASSUME NEW r \in Requests, Advance(r)
        PROVE  sub' = sub \/ InsertSub(r) \/ UpdateSub(r) \/ WriteSub(r) \/ AssignPlan(r)
        BY <2>1 DEF Advance, ReadOrg, Fetch, FindByOrg, FindBySub, CreateCustomer, WriteCustomer,
           CreateSession, CallStripe
  <2> QED BY <2>1 DEF Next, vars, CompleteCheckout, StripeChanges, Deliver, HandlerFails,
         BeginCheckout, BeginAssign, BeginCancelOrResume
<1> QED BY <1>1, <1>2, <1>3, <1>4, <1>5, <1>6, <1>7

(***************************************************************************)
(* The invariant is inductive.                                             *)
(***************************************************************************)

\* Every step keeps the types.
LEMMA TypeStep ==
    ASSUME TypeOK, EventsInv, LinksInv, [Next]_vars
    PROVE  TypeOK'
<1>0. /\ sub' \in [Orgs -> Rows \cup {Absent}]
      /\ request \in [Requests -> Running \cup {Idle}]
      /\ customer \in [Orgs -> Customers \cup {None}]
      /\ MaxStarted \in Nat /\ MaxEvents \in Nat
      BY SubStep, BoundsAssumption DEF TypeOK
<1>1. ASSUME NEW s \in Subs, NEW new, NEW types, Recorded(s, new, types), request' \in [Requests -> Running \cup {Idle}],
             started' = started
      PROVE  TypeOK'
  <2>1. new \in Subscriptions /\ UNCHANGED <<customer, sub, marked, customers, raced, disordered>>
        BY <1>1 DEF Recorded
  <2>2. /\ remote' = [remote EXCEPT ![s] = new] /\ events' \in Seq(EventRows) /\ Len(events') <= MaxEvents
        BY <1>1, RecordedEffect
  <2>3. remote' \in [Subs -> [state : {"none"}]
                     \cup [state : {"open"}, o : Orgs, c : Customers]
                     \cup [state : StripeStatuses, o : Orgs, c : Customers, cancel : BOOLEAN]]
        BY <2>1, <2>2 DEF TypeOK, Subscriptions
  <2> QED BY <1>1, <2>1, <2>2, <2>3 DEF TypeOK
<1>2. ASSUME NEW s \in Subs, CompleteCheckout(s) \/ StripeChanges(s)
      PROVE  TypeOK'
      BY <1>0, <1>1, <1>2, RecordedByStripe
<1>3. ASSUME NEW r \in Requests, CallStripe(r)
      PROVE  TypeOK'
  <2>1. request' \in [Requests -> Running \cup {Idle}] /\ started' = started
        BY <1>0, <1>3, RecordedByCall DEF Goto
  <2>2. CASE \E new, types : Recorded(request[r].s, new, types)
        BY <1>1, <1>3, <2>1, <2>2, RecordedByCall
  <2>3. CASE UNCHANGED <<customer, sub, marked, remote, customers, events, raced, disordered>>
        BY <2>1, <2>3 DEF TypeOK
  <2> QED BY <1>3, <2>2, <2>3, RecordedByCall
<1>4. ASSUME NEW o \in Orgs, GracePeriodEnds(o)
      PROVE  TypeOK'
      BY <1>0, <1>4 DEF GracePeriodEnds, TypeOK, stripe
<1>5. ASSUME NEW r \in Requests, NEW e \in DOMAIN events, Deliver(r, e)
      PROVE  TypeOK'
  <2>1. e \in EventIds /\ OrgOf(e) \in Orgs
        BY EventList, EventOwner
  <2>2. Handler(e) \in Running
        BY <2>1 DEF Handler, Running
  <2>3. /\ marked' = marked \cup {e} /\ request' = [request EXCEPT ![r] = Handler(e)]
        /\ disordered' \subseteq disordered \cup {OrgOf(e)}
        /\ UNCHANGED <<customer, sub, remote, customers, started, raced>>
        BY <1>5 DEF Deliver, Goto, Disorder, stripe
  <2>4. request' \in [Requests -> Running \cup {Idle}]
        BY <1>0, <2>2, <2>3
  <2>5. events' \in Seq(EventRows) /\ Len(events') = Len(events)
        BY <1>5, DeliverEffect
  <2> QED BY <2>1, <2>3, <2>4, <2>5 DEF TypeOK
<1>6. ASSUME NEW r \in Requests, Decides(r)
      PROVE  TypeOK'
  <2>1. /\ request' = [request EXCEPT ![r] = Idle]
        /\ events' \in Seq(EventRows) /\ Len(events') = Len(events)
        BY <1>6, DecidesEffect
  <2>2. UNCHANGED <<customer, marked, remote, customers, started, raced, disordered>>
        BY <1>6 DEF Decides
  <2> QED BY <1>0, <2>1, <2>2 DEF TypeOK
<1>7. ASSUME NEW r \in Requests, Continues(r), NEW q \in Running, Goto(r, q), customer' \in [Orgs -> Customers \cup {None}]
      PROVE  TypeOK'
  <2>1. request' \in [Requests -> Running \cup {Idle}]
        BY <1>0, <1>7 DEF Goto
  <2> QED BY <1>0, <1>7, <2>1 DEF Continues, TypeOK
<1>8. ASSUME NEW r \in Requests, Aside(r), UNCHANGED <<customer, remote, customers, disordered>>,
             NEW q \in Running \cup {Idle}, Goto(r, q),
             started' \in 0..MaxStarted, raced' \subseteq Orgs
      PROVE  TypeOK'
  <2>1. request' \in [Requests -> Running \cup {Idle}]
        BY <1>0, <1>8 DEF Goto
  <2> QED BY <1>0, <1>8, <2>1 DEF Aside, TypeOK
<1>9. ASSUME NEW r \in Requests, ReadOrg(r)
      PROVE  TypeOK'
  <2>1. Continues(r) /\ request[r].pc \in EventPcs
        BY <1>9, HandlerKinds DEF At, EventPcs, CheckoutPcs
  <2>2. request[r].e \in DOMAIN events /\ request[r].e \in EventIds
        BY <2>1, HandlersEvent
  <2>3. remote[events[request[r].e].s].c \in Customers
        BY <2>2, EventOwner
  <2>4. [pc |-> "fetch", e |-> request[r].e] \in Running
        BY <2>2 DEF Running
  <2>5. customer' \in [Orgs -> Customers \cup {None}]
        BY <1>0, <1>9, <2>3 DEF ReadOrg
  <2> QED BY <1>7, <1>9, <2>1, <2>4, <2>5 DEF ReadOrg
<1>10. ASSUME NEW r \in Requests, Fetch(r)
      PROVE  TypeOK'
  <2>1. Continues(r) /\ request[r].pc \in EventPcs /\ customer' = customer
        BY <1>10, HandlerKinds DEF At, EventPcs, CheckoutPcs
  <2>2. request[r].e \in DOMAIN events /\ request[r].e \in EventIds
        BY <2>1, HandlersEvent
  <2>3. remote[events[request[r].e].s].state \in StripeStatuses
        BY <2>2, EventOwner
  <2>4. [pc |-> "findOrg", e |-> request[r].e, status |-> remote[events[request[r].e].s].state] \in Running
        BY <2>2, <2>3 DEF Running
  <2> QED BY <1>0, <1>7, <1>10, <2>1, <2>4 DEF Fetch
<1>11. ASSUME NEW r \in Requests, FindByOrg(r)
      PROVE  TypeOK'
  <2>1. Continues(r) /\ At(r, "findOrg") /\ customer' = customer
        BY <1>11, HandlerKinds
  <2>2. PICK pc \in {"insert", "update"} : Goto(r, [request[r] EXCEPT !.pc = pc])
        BY <1>11 DEF FindByOrg
  <2>3. request[r] \in [pc : {"findOrg", "insert", "update"}, e : EventIds, status : StripeStatuses]
        BY <1>0, <2>1 DEF At, Running, Idle
  <2>4. [request[r] EXCEPT !.pc = pc] \in Running
        BY <2>3 DEF Running
  <2> QED BY <1>0, <1>7, <2>1, <2>2, <2>4
<1>12. ASSUME NEW r \in Requests, FindBySub(r)
      PROVE  TypeOK'
  <2>1. CASE RowsNaming(r) = {}
        BY <1>6, <1>12, <2>1, FindKinds
  <2>2. CASE RowsNaming(r) # {}
    <3>1. Continues(r) /\ At(r, "find") /\ customer' = customer
          BY <1>12, <2>2, FindKinds
    <3>2. PICK o \in RowsNaming(r) :
            Goto(r, [pc |-> "write", e |-> request[r].e, o |-> o, seen |-> sub[o].status])
          BY <1>12, <2>2 DEF FindBySub, RowsNaming
    <3>3. request[r].e \in EventIds
          BY <3>1, Fields DEF At, EventPcs
    <3>4. o \in Orgs /\ sub[o].status \in Statuses
          BY DEF RowsNaming, TypeOK, Rows
    <3>5. [pc |-> "write", e |-> request[r].e, o |-> o, seen |-> sub[o].status] \in Running
          BY <3>3, <3>4 DEF Running
    <3> QED BY <1>0, <1>7, <3>1, <3>2, <3>5
  <2> QED BY <2>1, <2>2
<1>13. ASSUME NEW r \in Requests, InsertSub(r) \/ UpdateSub(r) \/ WriteSub(r)
      PROVE  TypeOK'
      BY <1>6, <1>13, HandlerKinds
<1>14. ASSUME NEW r \in Requests, HandlerFails(r)
      PROVE  TypeOK'
  <2>1. CASE request[r].pc \in EventPcs
        BY <1>6, <1>14, <2>1, FailureKinds
  <2>2. CASE request[r].pc \notin EventPcs
    <3>1. Aside(r) /\ UNCHANGED <<customer, remote, customers, disordered>> /\ Goto(r, Idle)
          BY <1>14, <2>2, FailureKinds
    <3>2. started' \in 0..MaxStarted /\ raced' \subseteq Orgs
          BY <1>14 DEF HandlerFails, TypeOK
    <3> QED BY <1>8, <3>1, <3>2
  <2> QED BY <2>1, <2>2
<1>15. ASSUME NEW r \in Requests, NEW q \in Running, Begin(r, q)
      PROVE  Goto(r, q) /\ started' \in 0..MaxStarted
      BY <1>0, <1>15 DEF Begin, TypeOK
<1>16. ASSUME NEW r \in Requests, NEW o \in Orgs, NEW s \in Subs, BeginCheckout(r, o, s)
      PROVE  TypeOK'
  <2>1. Aside(r)
        BY <1>16, AsideKinds
  <2>2. UNCHANGED <<customer, remote, customers, disordered>> /\ raced' \subseteq Orgs
        BY <1>16 DEF BeginCheckout, stripe, TypeOK
  <2>3. PICK q \in Running : Begin(r, q)
    <3>1. [pc |-> "createCustomer", o |-> o, s |-> s] \in Running
          BY DEF Running
    <3>2. customer[o] # None => [pc |-> "createSession", o |-> o, s |-> s, c |-> customer[o]] \in Running
          BY <1>0 DEF Running
    <3> QED BY <1>16, <3>1, <3>2 DEF BeginCheckout
  <2> QED BY <1>8, <1>15, <2>1, <2>2, <2>3
<1>17. ASSUME NEW r \in Requests, NEW o \in Orgs, BeginAssign(r, o)
      PROVE  TypeOK'
  <2>1. [pc |-> "assign", o |-> o] \in Running
        BY DEF Running
  <2>2. request' = [request EXCEPT ![r] = [pc |-> "assign", o |-> o]] /\ started' \in 0..MaxStarted
        BY <1>15, <1>17, <2>1 DEF BeginAssign, Goto
  <2>3. request' \in [Requests -> Running \cup {Idle}]
        BY <1>0, <2>1, <2>2
  <2> QED BY <1>0, <1>17, <2>2, <2>3 DEF BeginAssign, TypeOK, stripe
<1>18. ASSUME NEW r \in Requests, NEW o \in Orgs, NEW cancel \in BOOLEAN, BeginCancelOrResume(r, o, cancel)
      PROVE  TypeOK'
  <2>1. sub[o].of \in Subs
        BY <1>18 DEF BeginCancelOrResume, TypeOK, Rows, NoSub
  <2>2. [pc |-> "callStripe", s |-> sub[o].of, cancel |-> cancel] \in Running
        BY <2>1 DEF Running
  <2>3. Aside(r) /\ UNCHANGED <<customer, remote, customers, disordered, raced>>
        BY <1>18, AsideKinds DEF BeginCancelOrResume, stripe
  <2> QED BY <1>8, <1>15, <1>18, <2>2, <2>3 DEF BeginCancelOrResume, TypeOK
<1>19. ASSUME NEW r \in Requests, CreateCustomer(r)
      PROVE  TypeOK'
  <2>1. request[r].o \in Orgs /\ request[r].s \in Subs
        BY <1>19, Fields DEF CreateCustomer, At, SessionPcs
  <2>2. customers + 1 \in Customers
        BY DEF TypeOK, Customers
  <2>3. [pc |-> "writeCustomer", o |-> request[r].o, s |-> request[r].s, c |-> customers + 1] \in Running
        BY <2>1, <2>2 DEF Running
  <2>4. request' \in [Requests -> Running \cup {Idle}]
        BY <1>0, <1>19, <2>3 DEF CreateCustomer, Goto
  <2> QED BY <1>0, <1>19, <2>2, <2>4 DEF CreateCustomer, TypeOK
<1>20. ASSUME NEW r \in Requests, WriteCustomer(r)
      PROVE  TypeOK'
  <2>1. request[r] \in [pc : {"writeCustomer", "createSession"}, o : Orgs, s : Subs, c : Customers]
        BY <1>0, <1>20 DEF WriteCustomer, At, Running, Idle
  <2>2. [request[r] EXCEPT !.pc = "createSession"] \in Running
        BY <2>1 DEF Running
  <2>3. request' \in [Requests -> Running \cup {Idle}] /\ customer' \in [Orgs -> Customers \cup {None}]
        BY <1>0, <1>20, <2>1, <2>2 DEF WriteCustomer, Goto
  <2> QED BY <1>0, <1>20, <2>3 DEF WriteCustomer, TypeOK, stripe
<1>21. ASSUME NEW r \in Requests, CreateSession(r)
      PROVE  TypeOK'
  <2>1. request[r].o \in Orgs /\ request[r].s \in Subs /\ request[r].c \in Customers
        BY <1>21, Fields DEF CreateSession, At, SessionPcs
  <2>2. remote' \in [Subs -> [state : {"none"}]
                     \cup [state : {"open"}, o : Orgs, c : Customers]
                     \cup [state : StripeStatuses, o : Orgs, c : Customers, cancel : BOOLEAN]]
        BY <1>21, <2>1 DEF CreateSession, TypeOK
  <2>3. request' \in [Requests -> Running \cup {Idle}]
        BY <1>0, <1>21 DEF CreateSession, Goto
  <2> QED BY <1>0, <1>21, <2>2, <2>3 DEF CreateSession, TypeOK
<1>22. ASSUME NEW r \in Requests, AssignPlan(r)
      PROVE  TypeOK'
  <2>1. request' \in [Requests -> Running \cup {Idle}]
        BY <1>0, <1>22 DEF AssignPlan, Goto
  <2> QED BY <1>0, <1>22, <2>1 DEF AssignPlan, TypeOK, stripe
<1>23. CASE UNCHANGED vars
      BY <1>23 DEF vars, TypeOK
<1> QED BY <1>2, <1>3, <1>4, <1>5, <1>9, <1>10, <1>11, <1>12, <1>13, <1>14, <1>16, <1>17, <1>18,
        <1>19, <1>20, <1>21, <1>22, <1>23 DEF Next, Advance

\* A step goes on with one request, and these begin or continue it.
LEMMA RequestStep ==
    ASSUME TypeOK, [Next]_vars, NEW q \in Requests
    PROVE  /\ request'[q] # request[q] => \A p \in Requests \ {q} : request'[p] = request[p]
           /\ \/ request'[q] = request[q] \/ request'[q] = Idle
              \/ \E e \in DOMAIN events : Deliver(q, e)
              \/ ReadOrg(q) \/ Fetch(q) \/ FindByOrg(q) \/ FindBySub(q)
              \/ \E o \in Orgs, s \in Subs : BeginCheckout(q, o, s)
              \/ \E o \in Orgs : BeginAssign(q, o)
              \/ \E o \in Orgs, cancel \in BOOLEAN : BeginCancelOrResume(q, o, cancel)
              \/ CreateCustomer(q) \/ WriteCustomer(q)
<1> DEFINE Begun(r) == \/ \E e \in DOMAIN events : Deliver(r, e)
                       \/ ReadOrg(r) \/ Fetch(r) \/ FindByOrg(r) \/ FindBySub(r)
                       \/ \E o \in Orgs, s \in Subs : BeginCheckout(r, o, s)
                       \/ \E o \in Orgs : BeginAssign(r, o)
                       \/ \E o \in Orgs, cancel \in BOOLEAN : BeginCancelOrResume(r, o, cancel)
                       \/ CreateCustomer(r) \/ WriteCustomer(r)
<1>1. ASSUME NEW r \in Requests, NEW x, Goto(r, x)
      PROVE  request'[r] = x /\ \A p \in Requests \ {r} : request'[p] = request[p]
      BY <1>1 DEF Goto, TypeOK
<1>2. ASSUME NEW r \in Requests, Begun(r)
      PROVE  \E x : Goto(r, x)
  <2>1. ASSUME NEW e \in DOMAIN events, Deliver(r, e) PROVE \E x : Goto(r, x)
        BY <2>1 DEF Deliver
  <2>2. ASSUME NEW o \in Orgs, NEW s \in Subs, BeginCheckout(r, o, s) PROVE \E x : Goto(r, x)
        BY <2>2 DEF BeginCheckout, Begin
  <2>3. ASSUME NEW o \in Orgs, BeginAssign(r, o) PROVE \E x : Goto(r, x)
        BY <2>3 DEF BeginAssign, Begin
  <2>4. ASSUME NEW o \in Orgs, NEW cancel \in BOOLEAN, BeginCancelOrResume(r, o, cancel) PROVE \E x : Goto(r, x)
        BY <2>4 DEF BeginCancelOrResume, Begin
  <2>5. CASE FindBySub(r)
        BY <2>5 DEF FindBySub, Settle
  <2>6. CASE ReadOrg(r) \/ Fetch(r) \/ FindByOrg(r) \/ CreateCustomer(r) \/ WriteCustomer(r)
        BY <2>6 DEF ReadOrg, Fetch, FindByOrg, CreateCustomer, WriteCustomer
  <2> QED BY <1>2, <2>1, <2>2, <2>3, <2>4, <2>5, <2>6
<1>3. ASSUME NEW r \in Requests,
             \/ HandlerFails(r) \/ InsertSub(r) \/ UpdateSub(r) \/ WriteSub(r)
             \/ CreateSession(r) \/ AssignPlan(r) \/ CallStripe(r)
      PROVE  Goto(r, Idle)
      BY <1>3 DEF HandlerFails, InsertSub, UpdateSub, WriteSub, CreateSession, AssignPlan, CallStripe, Settle
<1>4. ASSUME NEW r \in Requests, Advance(r)
      PROVE  Begun(r) \/ Goto(r, Idle)
      BY <1>3, <1>4 DEF Advance
<1>5. \/ request' = request
      \/ \E r \in Requests : Begun(r) \/ Goto(r, Idle)
  <2>1. ASSUME NEW s \in Subs, CompleteCheckout(s) \/ StripeChanges(s) PROVE request' = request
        BY <2>1 DEF CompleteCheckout, StripeChanges
  <2>2. ASSUME NEW o \in Orgs, GracePeriodEnds(o) PROVE request' = request
        BY <2>2 DEF GracePeriodEnds
  <2>3. ASSUME UNCHANGED vars PROVE request' = request
        BY <2>3 DEF vars
  <2> QED BY <1>3, <1>4, <2>1, <2>2, <2>3 DEF Next
<1> HIDE DEF Begun
<1>6. \/ request'[q] = request[q] \/ request'[q] = Idle \/ Begun(q)
      BY <1>1, <1>2, <1>5
<1>7. request'[q] # request[q] => \A p \in Requests \ {q} : request'[p] = request[p]
      BY <1>1, <1>2, <1>5
<1> QED BY <1>6, <1>7 DEF Begun

\* A request that opens a session has just begun, or had begun for that session.
LEMMA SessionStep ==
    ASSUME TypeOK, [Next]_vars, NEW q \in Requests, request'[q].pc \in SessionPcs
    PROVE  \/ request'[q] = request[q]
           \/ /\ CreateCustomer(q) /\ request[q].pc = "createCustomer" /\ request'[q].pc = "writeCustomer"
              /\ request'[q].o = request[q].o /\ request'[q].s = request[q].s
           \/ /\ WriteCustomer(q) /\ request[q].pc = "writeCustomer" /\ request'[q].pc = "createSession"
              /\ request'[q].o = request[q].o /\ request'[q].s = request[q].s
              /\ request'[q].c = request[q].c
           \/ \E o \in Orgs, s \in Subs :
                /\ BeginCheckout(q, o, s) /\ request'[q].o = o /\ request'[q].s = s
                /\ IF customer[o] = None THEN request'[q].pc = "createCustomer"
                   ELSE request'[q].pc = "createSession" /\ request'[q].c = customer[o]
<1> USE DEF SessionPcs, EventPcs, CheckoutPcs
<1>0. request \in [Requests -> Running \cup {Idle}]
      BY DEF TypeOK
<1>1. CASE request'[q] = Idle
      BY <1>1 DEF Idle
<1>2. ASSUME NEW e \in DOMAIN events, Deliver(q, e)
      PROVE  FALSE
      BY <1>0, <1>2 DEF Deliver, Goto, Handler
<1>3. CASE ReadOrg(q) \/ Fetch(q) \/ FindByOrg(q)
      BY <1>3, HandlerKinds DEF Continues
<1>4. CASE FindBySub(q)
  <2>1. request'[q].pc \in EventPcs \/ Goto(q, Idle)
        BY <1>4, FindKinds DEF Continues, Decides, Settle
  <2> QED BY <1>0, <2>1 DEF Goto, Idle
<1>5. ASSUME NEW o \in Orgs, BeginAssign(q, o)
      PROVE  FALSE
      BY <1>0, <1>5 DEF BeginAssign, Begin, Goto
<1>6. ASSUME NEW o \in Orgs, NEW cancel \in BOOLEAN, BeginCancelOrResume(q, o, cancel)
      PROVE  FALSE
      BY <1>0, <1>6 DEF BeginCancelOrResume, Begin, Goto
<1>7. ASSUME NEW o \in Orgs, NEW s \in Subs, BeginCheckout(q, o, s)
      PROVE  /\ request'[q].o = o /\ request'[q].s = s
             /\ IF customer[o] = None THEN request'[q].pc = "createCustomer"
                ELSE request'[q].pc = "createSession" /\ request'[q].c = customer[o]
      BY <1>0, <1>7 DEF BeginCheckout, Begin, Goto
<1>8. CASE CreateCustomer(q)
      BY <1>0, <1>8 DEF CreateCustomer, Goto, At
<1>9. CASE WriteCustomer(q)
  <2>1. request[q] \in [pc : {"writeCustomer", "createSession"}, o : Orgs, s : Subs, c : Customers]
        BY <1>0, <1>9 DEF WriteCustomer, At, Running, Idle
  <2>2. request'[q] = [request[q] EXCEPT !.pc = "createSession"] /\ request[q].pc = "writeCustomer"
        BY <1>0, <1>9 DEF WriteCustomer, Goto, At
  <2> QED BY <1>9, <2>1, <2>2
<1> QED BY <1>1, <1>2, <1>3, <1>4, <1>5, <1>6, <1>7, <1>8, <1>9, RequestStep

\* Stripe's sessions and subscriptions come from createSession and keep their owner.
LEMMA RemoteStep ==
    ASSUME TypeOK, [Next]_vars, NEW s \in Subs, remote'[s].state # "none"
    PROVE  \/ remote[s].state # "none" /\ remote'[s].o = remote[s].o /\ remote'[s].c = remote[s].c
           \/ \E r \in Requests :
                /\ CreateSession(r) /\ At(r, "createSession") /\ request'[r] = Idle
                /\ request[r].s = s /\ remote'[s].o = request[r].o /\ remote'[s].c = request[r].c
<1>1. ASSUME NEW t \in Subs, NEW new, NEW types, Recorded(t, new, types)
      PROVE  remote[s].state # "none" /\ remote'[s].o = remote[s].o /\ remote'[s].c = remote[s].c
  <2>1. remote' = [remote EXCEPT ![t] = new] /\ remote[t].state # "none"
        /\ new.o = remote[t].o /\ new.c = remote[t].c
        BY <1>1, RecordedEffect DEF Recorded, Completed, StripeStatuses
  <2> QED BY <2>1 DEF TypeOK
<1>2. ASSUME NEW r \in Requests, CreateSession(r)
      PROVE  \/ remote'[s] = remote[s]
             \/ /\ At(r, "createSession") /\ request'[r] = Idle
                /\ request[r].s = s /\ remote'[s].o = request[r].o /\ remote'[s].c = request[r].c
      BY <1>2 DEF CreateSession, Goto, TypeOK
<1>3. \/ remote' = remote
      \/ \E t \in Subs : \E new, types : Recorded(t, new, types)
      \/ \E r \in Requests : CreateSession(r)
  <2>1. ASSUME NEW r \in Requests, NEW e \in DOMAIN events, Deliver(r, e) PROVE remote' = remote
        BY <2>1 DEF Deliver, stripe
  <2> QED BY <2>1, Kinds DEF Continues, Decides
<1> QED BY <1>1, <1>2, <1>3

\* Every step keeps subscriptions with their organization.
LEMMA LinksStep ==
    ASSUME TypeOK, EventsInv, LinksInv, [Next]_vars
    PROVE  LinksInv'
<1>1. (\A e \in DOMAIN events : Completed(events[e].s))'
  <2>1. \A e \in DOMAIN events' : remote'[events'[e].s].state \in StripeStatuses
    <3>1. ASSUME NEW e \in DOMAIN events
          PROVE  remote'[events'[e].s].state \in StripeStatuses
          BY Kept, EventOwner DEF SameEvent, SameOwner, Completed
    <3> QED BY <3>1, Kept
  <2> QED BY <2>1 DEF Completed
<1>2. ASSUME NEW o \in Orgs, Named(o)'
      PROVE  remote'[sub'[o].of].state \in StripeStatuses /\ remote'[sub'[o].of].o = o
  <2>1. CASE sub[o] # Absent /\ sub'[o].of = sub[o].of
    <3>1. sub[o].of \in Subs /\ Completed(sub[o].of) /\ remote[sub[o].of].o = o
          BY <1>2, <2>1 DEF LinksInv, Named, TypeOK, Rows
    <3> QED BY <2>1, <3>1, Kept DEF SameOwner, Completed
  <2>2. ASSUME NEW r \in Requests, request[r].pc \in {"insert", "update"}, OrgOf(request[r].e) = o,
               sub'[o].of = events[request[r].e].s
        PROVE  remote'[sub'[o].of].state \in StripeStatuses /\ remote'[sub'[o].of].o = o
    <3>1. request[r].e \in DOMAIN events
          BY <2>2, HandlersEvent DEF EventPcs, CheckoutPcs
    <3>2. events[request[r].e].s \in Subs /\ Completed(events[request[r].e].s)
          /\ remote[events[request[r].e].s].o = o
          BY <2>2, <3>1, EventOwner DEF OrgOf
    <3> QED BY <2>2, <3>2, Kept DEF SameOwner, Completed
  <2> QED BY <1>2, <2>1, <2>2, SubStep
<1>3. ASSUME NEW q \in Requests, request'[q].pc = "write"
      PROVE  (sub[request[q].o] # Absent /\ request[q].o = OrgOf(request[q].e))'
  <2>1. request[q].pc \in EventPcs /\ request'[q].e = request[q].e /\ request'[q].o \in Orgs
        /\ sub[request'[q].o] # Absent /\ request'[q].o = OrgOf(request[q].e)
    <3>1. CASE request'[q] = request[q]
          BY <1>3, <3>1, Fields DEF EventPcs, LinksInv, At
    <3>2. CASE FindBySub(q)
      <4>1. CASE RowsNaming(q) = {}
        <5>1. Goto(q, Idle)
              BY <3>2, <4>1, FindKinds DEF Decides, Settle
        <5> QED BY <1>3, <5>1 DEF Goto, TypeOK, Idle
      <4>2. CASE RowsNaming(q) # {}
        <5>1. PICK o \in RowsNaming(q) :
                request'[q] = [pc |-> "write", e |-> request[q].e, o |-> o, seen |-> sub[o].status]
              BY <3>2, <4>2, FindKinds
        <5>2. request[q].pc = "find" /\ request[q].pc \in EventPcs
              BY <3>2, FindKinds DEF At, EventPcs
        <5>3. o \in Orgs /\ sub[o] # Absent /\ sub[o].of = events[request[q].e].s
              BY DEF RowsNaming
        <5>4. Named(o)
              BY <5>2, <5>3, HandlersEvent, EventOwner DEF Named
        <5>5. OrgOf(request[q].e) = o
              BY <5>3, <5>4 DEF LinksInv, OrgOf
        <5> QED BY <5>1, <5>2, <5>3, <5>5
      <4> QED BY <4>1, <4>2
    <3>3. CASE request'[q] = Idle
          BY <1>3, <3>3 DEF Idle
    <3>4. ASSUME NEW e \in DOMAIN events, Deliver(q, e) PROVE FALSE
          BY <1>3, <3>4 DEF Deliver, Goto, Handler, TypeOK
    <3>5. CASE ReadOrg(q) \/ Fetch(q) \/ FindByOrg(q)
          BY <1>3, <3>5, HandlerKinds DEF Continues, At, CheckoutPcs
    <3>6. ASSUME request'[q].pc \notin EventPcs PROVE FALSE
          BY <1>3, <3>6 DEF EventPcs
    <3> QED BY <3>1, <3>2, <3>3, <3>4, <3>5, <3>6, RequestStep, AsideKinds DEF Aside
  <2>2. PICK e \in DOMAIN events : e = request[q].e
        BY <2>1, HandlersEvent
  <2>3. remote'[events'[e].s].o = OrgOf(e)
        BY Kept DEF OrgOf
  <2> QED BY <2>1, <2>2, <2>3, SubStep DEF OrgOf
<1>4. ASSUME NEW q \in Requests, request'[q].pc = "callStripe"
      PROVE  Completed(request[q].s)'
  <2>1. request'[q].s \in Subs /\ Completed(request'[q].s)
    <3>1. CASE request'[q] = request[q]
          BY <1>4, <3>1, Fields DEF LinksInv, At
    <3>2. ASSUME NEW o \in Orgs, NEW cancel \in BOOLEAN, BeginCancelOrResume(q, o, cancel)
          PROVE  request'[q].s \in Subs /\ Completed(request'[q].s)
      <4>1. request'[q].s = sub[o].of /\ Named(o)
            BY <3>2 DEF BeginCancelOrResume, Begin, Goto, Named, TypeOK
      <4> QED BY <4>1 DEF LinksInv, Named, TypeOK, Rows
    <3>3. ASSUME \/ request'[q] = Idle \/ \E e \in DOMAIN events : Deliver(q, e)
                 \/ \E o \in Orgs : BeginAssign(q, o) \/ \E s \in Subs : BeginCheckout(q, o, s)
          PROVE  FALSE
          BY <1>4, <3>3 DEF Idle, Deliver, Goto, Handler, TypeOK, BeginAssign, BeginCheckout, Begin
    <3>4. ASSUME ReadOrg(q) \/ Fetch(q) \/ FindByOrg(q) \/ FindBySub(q)
          PROVE  FALSE
      <4>1. request'[q].pc \in EventPcs \/ Goto(q, Idle)
            BY <3>4, HandlerKinds, FindKinds DEF Continues, Decides, Settle
      <4> QED BY <1>4, <4>1 DEF Goto, Idle, EventPcs, CheckoutPcs, TypeOK
    <3>5. ASSUME CreateCustomer(q) \/ WriteCustomer(q)
          PROVE  FALSE
      <4>1. request[q].pc = "writeCustomer" =>
              request[q] \in [pc : {"writeCustomer", "createSession"}, o : Orgs, s : Subs, c : Customers]
            BY DEF TypeOK, Running, Idle
      <4> QED BY <1>4, <3>5, <4>1 DEF CreateCustomer, WriteCustomer, Goto, TypeOK, At
    <3> QED BY <3>1, <3>2, <3>3, <3>4, <3>5, RequestStep
  <2>2. PICK s \in Subs : s = request'[q].s /\ Completed(s)
        BY <2>1
  <2>3. remote'[s].state \in StripeStatuses
        BY <2>2, Kept DEF SameOwner, Completed
  <2> QED BY <2>2, <2>3 DEF Completed
\* Of two sessions that are being opened, only one has just begun.
<1>5. ASSUME NEW q \in Requests, request'[q].pc \in SessionPcs
      PROVE  /\ request'[q].s \in Subs /\ remote[request'[q].s].state = "none"
             /\ \A p \in Requests : request[p].pc \in SessionPcs /\ request[p].s = request'[q].s => p = q
  <2>1. CASE request[q].pc \in SessionPcs /\ request'[q].s = request[q].s
        BY <2>1, Fields DEF LinksInv
  <2>2. ASSUME NEW o \in Orgs, NEW s \in Subs, BeginCheckout(q, o, s), request'[q].s = s
        PROVE  /\ remote[s].state = "none"
               /\ \A p \in Requests : ~(request[p].pc \in SessionPcs /\ request[p].s = s)
        BY <2>2, Fields DEF BeginCheckout
  <2> QED BY <1>5, <2>1, <2>2, SessionStep DEF SessionPcs
<1>6. ASSUME NEW q \in Requests, request'[q].pc \in SessionPcs
      PROVE  remote'[request'[q].s].state = "none"
  <2>1. PICK s \in Subs : s = request'[q].s /\ remote[s].state = "none"
        BY <1>5, <1>6
  <2>2. ASSUME NEW r \in Requests, At(r, "createSession"), request'[r] = Idle, request[r].s = s
        PROVE  FALSE
        BY <1>5, <1>6, <2>1, <2>2 DEF SessionPcs, At, Idle
  <2> QED BY <2>1, <2>2, RemoteStep
<1>7. ASSUME NEW q \in Requests, request'[q].pc \in SessionPcs,
             NEW p \in Requests, request'[p].pc \in SessionPcs, request'[p].s = request'[q].s
      PROVE  p = q
  <2>1. CASE request'[p] = request[p]
        BY <1>5, <1>7, <2>1
  <2>2. CASE request'[p] # request[p]
    <3>1. request'[q] = request[q] \/ q = p
          BY <2>2, RequestStep
    <3>2. (request[q].pc \in SessionPcs /\ request[q].s = request'[p].s) \/ q = p
          BY <1>7, <3>1
    <3> QED BY <1>5, <1>7, <3>2
  <2> QED BY <2>1, <2>2
<1> QED BY <1>1, <1>2, <1>3, <1>4, <1>6, <1>7 DEF LinksInv, At, Named, Completed

\* Every step keeps the events, their markers and their handlers together.
LEMMA EventsStep ==
    ASSUME TypeOK, EventsInv, [Next]_vars
    PROVE  EventsInv'
<1> USE DEF Holds
<1>1. ASSUME NEW s \in Subs, NEW new, NEW types, Recorded(s, new, types),
             \/ request' = request
             \/ \E r \in Requests : At(r, "callStripe") /\ Goto(r, Idle)
      PROVE  EventsInv'
  <2>1. /\ DOMAIN events \subseteq DOMAIN events'
        /\ \A e \in DOMAIN events : events'[e] = events[e]
        /\ \A e \in DOMAIN events' \ DOMAIN events : events'[e].fate = "issued"
        BY <1>1, RecordedEffect
  <2>2. marked' = marked
        BY <1>1 DEF Recorded
  <2>3. \A q \in Requests : request'[q] = request[q] \/ request'[q] = Idle
        BY <1>1 DEF Goto, TypeOK
  <2>4. \A q \in Requests, e \in EventIds : Holds(q, e)' => Holds(q, e) /\ request'[q] = request[q]
        BY <2>3 DEF Idle, EventPcs, CheckoutPcs
  <2>5. marked' = {e \in DOMAIN events' : events'[e].fate # "issued"}
        BY <2>1, <2>2 DEF EventsInv
  <2> QED BY <2>1, <2>4, <2>5 DEF EventsInv
<1>2. ASSUME NEW r \in Requests, NEW e \in DOMAIN events, Deliver(r, e)
      PROVE  EventsInv'
  <2>1. /\ events[e].fate = "issued" /\ events'[e].fate = "handling"
        /\ request' = [request EXCEPT ![r] = Handler(e)]
        /\ DOMAIN events' = DOMAIN events
        /\ \A f \in DOMAIN events : events'[f].type = events[f].type
        /\ \A f \in DOMAIN events \ {e} : events'[f] = events[f]
        BY <1>2, DeliverEffect DEF SameEvent
  <2>2. marked' = marked \cup {e}
        BY <1>2 DEF Deliver
  <2>3. marked' = {f \in DOMAIN events' : events'[f].fate # "issued"}
        BY <2>1, <2>2 DEF EventsInv
  <2>4. /\ request'[r] = Handler(e) /\ Handler(e).e = e
        /\ Handler(e).pc \in {"readOrg", "find"} /\ (Handler(e).pc = "readOrg" <=> events[e].type = "checkout")
        /\ \A q \in Requests \ {r} : request'[q] = request[q]
        BY <2>1 DEF Handler, TypeOK
  <2>5. \A q \in Requests : ~Holds(q, e)
        BY <2>1, EventList DEF EventsInv
  <2>6. \A q \in Requests \ {r}, f \in EventIds :
          Holds(q, f)' => Holds(q, f) /\ f # e /\ request'[q] = request[q]
        BY <2>4, <2>5
  <2>7. \A f \in EventIds : Holds(r, f)' => f = e
        BY <2>4
  <2>8. ASSUME NEW q \in Requests, NEW f \in EventIds, Holds(q, f)'
        PROVE  /\ f \in DOMAIN events' /\ events'[f].fate = "handling"
               /\ events'[f].type = "checkout" <=> request'[q].pc \in CheckoutPcs
               /\ \A p \in Requests : Holds(p, f)' => p = q
    <3>1. CASE q = r
          BY <2>1, <2>4, <2>6, <2>7, <2>8, <3>1 DEF CheckoutPcs
    <3>2. CASE q # r
          BY <2>1, <2>6, <2>7, <2>8, <3>2 DEF EventsInv
    <3> QED BY <3>1, <3>2
  <2> QED BY <2>3, <2>8 DEF EventsInv
<1>3. ASSUME NEW r \in Requests, Continues(r)
      PROVE  EventsInv'
  <2>1. /\ marked' = marked /\ events' = events
        /\ \A q \in Requests : request'[q].pc \in CheckoutPcs <=> request[q].pc \in CheckoutPcs
        /\ \A q \in Requests, e \in EventIds : Holds(q, e)' <=> Holds(q, e)
        BY <1>3 DEF Continues
  <2> QED BY <2>1 DEF EventsInv
<1>4. ASSUME NEW r \in Requests, Decides(r)
      PROVE  EventsInv'
  <2>1. PICK e \in DOMAIN events :
          /\ Holds(r, e) /\ events[e].fate = "handling" /\ events'[e].fate \in {"done", "lost"}
          /\ request' = [request EXCEPT ![r] = Idle]
          /\ DOMAIN events' = DOMAIN events
          /\ \A f \in DOMAIN events \ {e} : events'[f] = events[f]
        BY <1>4, DecidesEffect
  <2>2. marked' = marked
        BY <1>4 DEF Decides
  <2>3. marked' = {f \in DOMAIN events' : events'[f].fate # "issued"}
        BY <2>1, <2>2 DEF EventsInv
  <2>4. request'[r] = Idle /\ \A q \in Requests \ {r} : request'[q] = request[q]
        BY <2>1 DEF TypeOK
  <2>5. e \in EventIds
        BY EventList
  <2>6. \A q \in Requests, f \in EventIds :
          Holds(q, f)' => q # r /\ Holds(q, f) /\ f # e /\ request'[q] = request[q]
        BY <2>1, <2>4, <2>5 DEF EventsInv, Idle, EventPcs, CheckoutPcs
  <2> QED BY <2>1, <2>3, <2>6 DEF EventsInv
<1>5. ASSUME NEW r \in Requests, Aside(r)
      PROVE  EventsInv'
  <2>1. /\ marked' = marked /\ events' = events
        /\ \A q \in Requests, e \in EventIds : Holds(q, e)' => Holds(q, e) /\ request'[q] = request[q]
        BY <1>5 DEF Aside
  <2> QED BY <2>1 DEF EventsInv
<1>6. CASE UNCHANGED <<marked, events, request, remote>>
      BY <1>6 DEF EventsInv
<1> QED BY <1>1, <1>2, <1>3, <1>4, <1>5, <1>6, Kinds

\* An event that was handed out stays so, and a decided one stays decided.
LEMMA HandledOnceStep ==
    ASSUME TypeOK, EventsInv, [Next]_vars, NEW e \in DOMAIN events
    PROVE  /\ events[e].fate # "issued" => events'[e].fate # "issued"
           /\ events[e].fate \in {"done", "lost"} => events'[e] = events[e]
<1>1. ASSUME NEW s \in Subs, NEW new, NEW types, Recorded(s, new, types)
      PROVE  events'[e] = events[e]
      BY <1>1, RecordedEffect
<1>2. ASSUME NEW r \in Requests, NEW f \in DOMAIN events, Deliver(r, f)
      PROVE  events'[e] = events[e] \/ events[e].fate = "issued"
      BY <1>2, DeliverEffect
<1>3. ASSUME NEW r \in Requests, Decides(r)
      PROVE  events'[e] = events[e] \/ (events[e].fate = "handling" /\ events'[e].fate \in {"done", "lost"})
      BY <1>3, DecidesEffect
<1>4. ASSUME NEW r \in Requests, Continues(r) \/ Aside(r)
      PROVE  events' = events
      BY <1>4 DEF Continues, Aside
<1> QED BY <1>1, <1>2, <1>3, <1>4, Kinds

\* The organization's customer is written by a handler that created one: when a
\* completed checkout brings one, it is the one that is there.
LEMMA CustomerChange ==
    ASSUME Inv, [Next]_vars, NEW o \in Orgs, o \notin raced'
    PROVE  /\ o \notin raced
           /\ \/ customer'[o] = customer[o]
              \/ \E r \in Requests :
                   /\ WriteCustomer(r) /\ request[r].pc = "writeCustomer" /\ request[r].o = o
                   /\ customer'[o] = request[r].c /\ request'[r].pc = "createSession"
<1> USE DEF Inv
<1>1. raced \subseteq raced'
  <2>1. ASSUME NEW s \in Subs, CompleteCheckout(s) \/ StripeChanges(s) PROVE raced' = raced
        BY <2>1 DEF CompleteCheckout, StripeChanges
  <2>2. ASSUME NEW r \in Requests, NEW p \in Orgs, NEW s \in Subs, BeginCheckout(r, p, s)
        PROVE  raced \subseteq raced'
        BY <2>2 DEF BeginCheckout
  <2>3. ASSUME NEW r \in Requests, Advance(r) \/ HandlerFails(r) PROVE raced' = raced
        BY <2>3 DEF Advance, HandlerFails, ReadOrg, Fetch, FindByOrg, InsertSub, UpdateSub, FindBySub,
           WriteSub, CreateCustomer, WriteCustomer, CreateSession, AssignPlan, CallStripe
  <2> QED BY <2>1, <2>2, <2>3 DEF Next, vars, GracePeriodEnds, Deliver, BeginAssign, BeginCancelOrResume
<1>2. o \notin raced
      BY <1>1
<1>3. ASSUME NEW r \in Requests, ReadOrg(r)
      PROVE  customer'[o] = customer[o]
  <2>1. PICK e \in DOMAIN events : e = request[r].e
        BY <1>3, HandlersEvent DEF ReadOrg, At, EventPcs, CheckoutPcs
  <2>2. CASE OrgOf(e) = o
    <3>1. /\ events[e].s \in Subs /\ remote[events[e].s].state \in StripeStatuses
          /\ remote[events[e].s].o = o /\ remote[events[e].s].c \in Customers
          BY <2>2, EventOwner DEF OrgOf
    <3>2. remote[events[e].s].c = customer[o]
          BY <1>2, <3>1 DEF CustomerInv, StripeStatuses
    <3>3. customer[o] # None
          BY <3>1, <3>2 DEF Customers, None
    <3> QED BY <1>3, <2>1, <2>2, <3>3 DEF ReadOrg
  <2>3. CASE OrgOf(e) # o
        BY <1>3, <2>1, <2>3 DEF ReadOrg, TypeOK
  <2> QED BY <2>2, <2>3
<1>4. ASSUME NEW r \in Requests, WriteCustomer(r)
      PROVE  \/ customer'[o] = customer[o]
             \/ /\ request[r].pc = "writeCustomer" /\ request[r].o = o
                /\ customer'[o] = request[r].c /\ request'[r].pc = "createSession"
  <2>1. request[r] \in [pc : {"writeCustomer", "createSession"}, o : Orgs, s : Subs, c : Customers]
        BY <1>4 DEF WriteCustomer, At, TypeOK, Running, Idle
  <2>2. /\ request'[r] = [request[r] EXCEPT !.pc = "createSession"] /\ request[r].pc = "writeCustomer"
        /\ customer' = [customer EXCEPT ![request[r].o] = request[r].c]
        BY <1>4 DEF WriteCustomer, Goto, At, TypeOK
  <2> QED BY <2>1, <2>2 DEF TypeOK
<1>5. \/ customer' = customer
      \/ \E r \in Requests : ReadOrg(r) \/ WriteCustomer(r)
  <2>1. ASSUME NEW s \in Subs, CompleteCheckout(s) \/ StripeChanges(s) PROVE customer' = customer
        BY <2>1 DEF CompleteCheckout, StripeChanges
  <2>2. ASSUME NEW r \in Requests, Advance(r) \/ HandlerFails(r)
        PROVE  customer' = customer \/ ReadOrg(r) \/ WriteCustomer(r)
        BY <2>2 DEF Advance, HandlerFails, Fetch, FindByOrg, InsertSub, UpdateSub, FindBySub,
           WriteSub, CreateCustomer, CreateSession, AssignPlan, CallStripe
  <2> QED BY <2>1, <2>2 DEF Next, vars, GracePeriodEnds, Deliver, BeginCheckout, BeginAssign, BeginCancelOrResume
<1> QED BY <1>2, <1>3, <1>4, <1>5

\* Every step keeps the one customer of an organization whose checkouts did not race.
LEMMA CustomerStep ==
    ASSUME Inv, [Next]_vars
    PROVE  CustomerInv'
<1>1. SUFFICES ASSUME NEW o \in Orgs, o \notin raced'
      PROVE  /\ \A s \in Subs :
                  remote'[s].state # "none" /\ remote'[s].o = o => remote'[s].c = customer'[o]
             /\ \A r \in Requests : request'[r].pc \in SessionPcs /\ request'[r].o = o =>
                  IF request'[r].pc = "createSession" THEN request'[r].c = customer'[o]
                  ELSE /\ customer'[o] = None
                       /\ \A q \in Requests : request'[q].pc \in SessionPcs /\ request'[q].o = o => q = r
      BY DEF CustomerInv, At
<1> USE DEF Inv
<1>2. /\ \A s \in Subs :
           remote[s].state # "none" /\ remote[s].o = o => remote[s].c = customer[o]
      /\ \A r \in Requests : request[r].pc \in SessionPcs /\ request[r].o = o =>
           IF request[r].pc = "createSession" THEN request[r].c = customer[o]
           ELSE /\ customer[o] = None
                /\ \A q \in Requests : request[q].pc \in SessionPcs /\ request[q].o = o => q = r
      BY <1>1, CustomerChange DEF CustomerInv, At
\* While the customer is being written there is none, so nothing refers to one.
<1>3. ASSUME NEW r \in Requests, request[r].pc = "writeCustomer", request[r].o = o
      PROVE  /\ \A s \in Subs : ~(remote[s].state # "none" /\ remote[s].o = o)
             /\ \A q \in Requests : request[q].pc \in SessionPcs /\ request[q].o = o => q = r
  <2>1. customer[o] = None /\ \A q \in Requests : request[q].pc \in SessionPcs /\ request[q].o = o => q = r
        BY <1>2, <1>3 DEF SessionPcs
  <2>2. ASSUME NEW s \in Subs, remote[s].state # "none", remote[s].o = o
        PROVE  remote[s].c \in Customers
        BY <2>2, RemoteFields DEF TypeOK, Subscriptions, Completed
  <2> QED BY <1>2, <2>1, <2>2 DEF Customers, None
<1>4. ASSUME NEW s \in Subs, remote'[s].state # "none", remote'[s].o = o
      PROVE  remote'[s].c = customer'[o]
  <2>1. CASE remote[s].state # "none" /\ remote'[s].o = remote[s].o /\ remote'[s].c = remote[s].c
        BY <1>1, <1>2, <1>3, <1>4, <2>1, CustomerChange
  <2>2. ASSUME NEW r \in Requests, CreateSession(r), At(r, "createSession"),
               remote'[s].o = request[r].o, remote'[s].c = request[r].c
        PROVE  remote'[s].c = customer'[o]
        BY <1>2, <1>4, <2>2 DEF CreateSession, At, SessionPcs
  <2> QED BY <1>4, <2>1, <2>2, RemoteStep
\* A checkout that begins finds no other that looks for the customer.
<1>5. ASSUME NEW q \in Requests, NEW s \in Subs, BeginCheckout(q, o, s), NEW p \in Requests
      PROVE  /\ customer' = customer
             /\ request[p].pc \in SessionPcs /\ request[p].o = o => request[p].pc = "createSession"
             /\ request[p].pc \in SessionPcs /\ request[p].o = o => customer[o] # None
  <2>1. customer' = customer
        BY <1>5 DEF BeginCheckout
  <2>2. request[p].o = o => request[p].pc \notin {"createCustomer", "writeCustomer"}
        BY <1>1, <1>5 DEF BeginCheckout
  <2>3. request[p].pc = "createSession" => request[p].c \in Customers
        BY Fields
  <2> QED BY <1>2, <2>1, <2>2, <2>3 DEF SessionPcs, Customers, None
<1>6. ASSUME NEW r \in Requests, request'[r].pc \in SessionPcs, request'[r].o = o
      PROVE  IF request'[r].pc = "createSession" THEN request'[r].c = customer'[o]
             ELSE /\ customer'[o] = None
                  /\ \A q \in Requests : request'[q].pc \in SessionPcs /\ request'[q].o = o => q = r
  <2>1. CASE request'[r] = request[r]
    <3>1. customer'[o] = customer[o]
          BY <1>1, <1>3, <1>6, <2>1, CustomerChange
    <3>2. ASSUME NEW q \in Requests, request'[q].pc \in SessionPcs, request'[q].o = o,
                 request[r].pc # "createSession"
          PROVE  q = r
      <4>1. CASE request[q].pc \in SessionPcs /\ request[q].o = o
            BY <1>2, <1>6, <2>1, <3>2, <4>1
      <4>2. ASSUME NEW s \in Subs, BeginCheckout(q, o, s)
            PROVE  FALSE
            BY <1>5, <1>6, <2>1, <3>2, <4>2
      <4> QED BY <3>2, <4>1, <4>2, SessionStep DEF SessionPcs
    <3> QED BY <1>2, <1>6, <2>1, <3>1, <3>2
  <2>2. CASE request'[r] # request[r]
    <3>1. \A q \in Requests \ {r} : request'[q] = request[q]
          BY <2>2, RequestStep
    <3>2. CASE CreateCustomer(r) /\ request[r].pc = "createCustomer" /\ request'[r].pc = "writeCustomer"
               /\ request'[r].o = request[r].o
      <4>1. customer' = customer
            BY <3>2 DEF CreateCustomer
      <4> QED BY <1>2, <1>6, <3>1, <3>2, <4>1 DEF SessionPcs
    <3>3. CASE WriteCustomer(r) /\ request'[r].pc = "createSession" /\ request'[r].o = request[r].o
               /\ request'[r].c = request[r].c
          BY <1>6, <3>3, Fields DEF WriteCustomer, At, SessionPcs, TypeOK
    <3>4. ASSUME NEW s \in Subs, BeginCheckout(r, o, s),
                 IF customer[o] = None THEN request'[r].pc = "createCustomer"
                 ELSE request'[r].pc = "createSession" /\ request'[r].c = customer[o]
          PROVE  IF request'[r].pc = "createSession" THEN request'[r].c = customer'[o]
                 ELSE /\ customer'[o] = None
                      /\ \A q \in Requests : request'[q].pc \in SessionPcs /\ request'[q].o = o => q = r
          BY <1>5, <3>1, <3>4
    <3> QED BY <1>6, <2>2, <3>2, <3>3, <3>4, SessionStep
  <2> QED BY <2>1, <2>2
<1> QED BY <1>4, <1>6

\* Initially it holds.
LEMMA InitInv ==
    Init => Inv
<1> SUFFICES ASSUME Init PROVE Inv
    OBVIOUS
<1>1. /\ events = <<>> /\ events \in Seq(EventRows) /\ Len(events) = 0 /\ DOMAIN events = {}
      BY DEF Init
<1>2. TypeOK
      BY <1>1, BoundsAssumption DEF Init, TypeOK, Customers, None, EventIds
<1>3. \A r \in Requests : request[r].pc = "idle"
      BY DEF Init, Idle
<1>4. EventsInv
      BY <1>1, <1>3 DEF Init, EventsInv, Holds, EventPcs, CheckoutPcs
<1>5. LinksInv
      BY <1>1, <1>3 DEF Init, LinksInv, Named, At, SessionPcs
<1>6. CustomerInv
      BY <1>3 DEF Init, CustomerInv, SessionPcs
<1> QED BY <1>2, <1>4, <1>5, <1>6 DEF Inv

\* Every step keeps it.
LEMMA NextInv ==
    Inv /\ [Next]_vars => Inv'
BY TypeStep, EventsStep, LinksStep, CustomerStep DEF Inv

\* It always holds.
LEMMA InvCorrect ==
    Spec => []Inv
BY InitInv, NextInv, PTL DEF Spec

(***************************************************************************)
(* Organizations whose events are handled in order.                        *)
(***************************************************************************)

\* An event that is handed out by the step was issued, and its organization is
\* in disorder unless nobody works on it and its earlier events took effect.
LEMMA Ordered ==
    ASSUME Inv, NEW o \in Orgs, o \notin disordered'
    PROVE  /\ \A r \in Requests, e \in DOMAIN events :
                Deliver(r, e) /\ OrgOf(e) = o =>
                  /\ \A q \in Requests : ~Touches(request[q], o)
                  /\ \A f \in DOMAIN events : OrgOf(f) = o /\ f < e => events[f].fate = "done"
           /\ \A r \in Requests : BeginAssign(r, o) => \A q \in Requests : ~Touches(request[q], o)
<1>1. ASSUME NEW r \in Requests, NEW e \in DOMAIN events, Deliver(r, e), OrgOf(e) = o
      PROVE  /\ \A q \in Requests : ~Touches(request[q], o)
             /\ \A f \in DOMAIN events : OrgOf(f) = o /\ f < e => events[f].fate = "done"
  <2>1. /\ \A q \in Requests : ~Touches(request[q], o)
        /\ \A f \in 1..(e - 1) : ~(OrgOf(f) = o /\ events[f].fate # "done")
        BY <1>1 DEF Deliver, Disorder
  <2>2. \A f \in DOMAIN events : f < e => f \in 1..(e - 1)
        BY EventList DEF Inv
  <2> QED BY <2>1, <2>2
<1>2. ASSUME NEW r \in Requests, BeginAssign(r, o), NEW q \in Requests, Touches(request[q], o)
      PROVE  FALSE
      BY <1>2 DEF BeginAssign
<1> QED BY <1>1, <1>2

\* Disorder is remembered.
LEMMA StaysDisordered ==
    ASSUME [Next]_vars
    PROVE  disordered \subseteq disordered'
<1>1. ASSUME NEW s \in Subs, CompleteCheckout(s) \/ StripeChanges(s) PROVE disordered' = disordered
      BY <1>1 DEF CompleteCheckout, StripeChanges
<1>2. ASSUME NEW r \in Requests, Advance(r) \/ HandlerFails(r) PROVE disordered' = disordered
      BY <1>2 DEF Advance, HandlerFails, ReadOrg, Fetch, FindByOrg, InsertSub, UpdateSub, FindBySub,
         WriteSub, CreateCustomer, WriteCustomer, CreateSession, AssignPlan, CallStripe
<1>3. ASSUME NEW r \in Requests, NEW e \in DOMAIN events, Deliver(r, e) PROVE disordered \subseteq disordered'
      BY <1>3 DEF Deliver, Disorder
<1>4. ASSUME NEW r \in Requests, NEW o \in Orgs, BeginAssign(r, o) PROVE disordered \subseteq disordered'
      BY <1>4 DEF BeginAssign
<1> QED BY <1>1, <1>2, <1>3, <1>4 DEF Next, vars, GracePeriodEnds, BeginCheckout, BeginCancelOrResume

\* An event is handed out by a delivery.
LEMMA FateStep ==
    ASSUME Inv, [Next]_vars, NEW e \in DOMAIN events', events'[e].fate # "issued"
    PROVE  /\ e \in DOMAIN events
           /\ events[e].fate # "issued" \/ \E r \in Requests : Deliver(r, e)
<1> USE DEF Inv
<1>1. ASSUME NEW s \in Subs, NEW new, NEW types, Recorded(s, new, types)
      PROVE  e \in DOMAIN events /\ events[e].fate # "issued"
      BY <1>1, RecordedEffect
<1>2. ASSUME NEW r \in Requests, NEW f \in DOMAIN events, Deliver(r, f)
      PROVE  e \in DOMAIN events /\ (e = f \/ events[e].fate # "issued")
      BY <1>2, DeliverEffect
<1>3. ASSUME NEW r \in Requests, Decides(r)
      PROVE  e \in DOMAIN events /\ events[e].fate # "issued"
      BY <1>3, DecidesEffect
<1> QED BY <1>1, <1>2, <1>3, Kinds DEF Continues, Aside

\* A request comes to work on a row by a delivery or an assignment.
LEMMA TouchStep ==
    ASSUME Inv, [Next]_vars, NEW r \in Requests, NEW o \in Orgs, Touches(request[r], o)'
    PROVE  \/ Touches(request[r], o)
           \/ /\ request'[r] # request[r]
              /\ \/ \E e \in DOMAIN events : Deliver(r, e) /\ OrgOf(e) = o
                 \/ BeginAssign(r, o)
<1> USE DEF Inv
<1>0. request \in [Requests -> Running \cup {Idle}]
      BY DEF TypeOK
\* The row of an event is its organization's.
<1>1. ASSUME request'[r].pc \in EventPcs, NEW e \in DOMAIN events, request'[r].e = e
      PROVE  OrgOf(e) = o
  <2>1. remote'[events'[e].s].o = OrgOf(e)
        BY Kept DEF OrgOf
  <2>2. request'[r].pc = "write" => request'[r].o = remote'[events'[request'[r].e].s].o
        BY LinksStep DEF LinksInv, At, OrgOf
  <2> QED BY <1>1, <2>1, <2>2 DEF Touches, EventPcs, CheckoutPcs, OrgOf
<1>2. ASSUME request[r].pc \in EventPcs, NEW e \in DOMAIN events, request[r].e = e, OrgOf(e) = o
      PROVE  Touches(request[r], o)
      BY <1>2 DEF Touches, EventPcs, CheckoutPcs, LinksInv, At
<1>3. CASE request[r].pc \in EventPcs /\ request'[r].pc \in EventPcs /\ request'[r].e = request[r].e
      BY <1>1, <1>2, <1>3, HandlersEvent
<1>4. CASE request'[r] = request[r] /\ request[r].pc \notin EventPcs
      BY <1>4 DEF Touches, EventPcs, CheckoutPcs
<1>5. CASE request'[r] = Idle
      BY <1>5 DEF Touches, Idle
<1>6. ASSUME NEW e \in DOMAIN events, Deliver(r, e)
      PROVE  request'[r] # request[r] /\ OrgOf(e) = o
  <2>1. request[r] = Idle /\ request'[r] = Handler(e)
        BY <1>0, <1>6 DEF Deliver, Goto
  <2>2. Handler(e).pc \in {"readOrg", "find"} /\ Handler(e).e = e
        BY DEF Handler
  <2> QED BY <1>1, <2>1, <2>2 DEF EventPcs, CheckoutPcs, Idle
<1>7. CASE ReadOrg(r) \/ Fetch(r) \/ FindByOrg(r)
      BY <1>3, <1>7, HandlerKinds DEF Continues
<1>8. CASE FindBySub(r)
  <2>1. Continues(r) \/ Goto(r, Idle)
        BY <1>8, FindKinds DEF Decides, Settle
  <2> QED BY <1>0, <1>3, <1>5, <2>1 DEF Continues, Goto
<1>9. ASSUME NEW p \in Orgs, BeginAssign(r, p)
      PROVE  request'[r] # request[r] /\ p = o
      BY <1>0, <1>9 DEF BeginAssign, Begin, Goto, Touches, Idle
<1>10. ASSUME \/ \E p \in Orgs, s \in Subs : BeginCheckout(r, p, s)
              \/ \E p \in Orgs, cancel \in BOOLEAN : BeginCancelOrResume(r, p, cancel)
       PROVE  FALSE
       BY <1>0, <1>10 DEF BeginCheckout, BeginCancelOrResume, Begin, Goto, Touches
<1>11. ASSUME CreateCustomer(r) \/ WriteCustomer(r)
       PROVE  FALSE
  <2>1. request[r].pc = "writeCustomer" =>
          request[r] \in [pc : {"writeCustomer", "createSession"}, o : Orgs, s : Subs, c : Customers]
        BY <1>0 DEF Running, Idle
  <2> QED BY <1>0, <1>11, <2>1 DEF CreateCustomer, WriteCustomer, Goto, At, Touches
<1>12. CASE request'[r] = request[r] /\ request[r].pc \in EventPcs
       BY <1>3, <1>12
<1> QED BY <1>4, <1>5, <1>6, <1>7, <1>8, <1>9, <1>10, <1>11, <1>12, RequestStep

\* An organization that stays in order was in order, and is.
LEMMA InOrderStep ==
    ASSUME Inv, [Next]_vars, NEW o \in Orgs, o \notin disordered', InOrder(o)
    PROVE  InOrder(o)'
<1> USE DEF Inv
<1>1. ASSUME NEW e \in DOMAIN events', NEW f \in DOMAIN events',
             remote'[events'[e].s].o = o, remote'[events'[f].s].o = o, e < f, events'[f].fate # "issued"
      PROVE  events'[e].fate = "done"
  <2>1. f \in DOMAIN events /\ (events[f].fate # "issued" \/ \E r \in Requests : Deliver(r, f))
        BY <1>1, FateStep
  <2>2. e \in DOMAIN events
    <3>1. DOMAIN events' = 1..Len(events') /\ Len(events') \in Nat
          BY TypeStep DEF TypeOK
    <3> QED BY <1>1, <2>1, <3>1, EventList
  <2>3. OrgOf(e) = o /\ OrgOf(f) = o
        BY <1>1, <2>1, <2>2, Kept DEF OrgOf
  <2>4. events[e].fate = "done"
        BY <1>1, <2>1, <2>2, <2>3, Ordered DEF InOrder
  <2>5. events'[e] = events[e]
        BY <2>2, <2>4, HandledOnceStep
  <2> QED BY <2>4, <2>5
<1>2. ASSUME NEW r \in Requests, NEW q \in Requests, Touches(request[r], o)', Touches(request[q], o)'
      PROVE  q = r
  <2>1. \A p \in Requests : Touches(request[p], o)' =>
          \/ Touches(request[p], o)
          \/ request'[p] # request[p] /\ \A x \in Requests : ~Touches(request[x], o)
        BY TouchStep, Ordered
  <2>2. request'[r] = request[r] \/ request'[q] = request[q] \/ q = r
        BY RequestStep
  <2> QED BY <1>2, <2>1, <2>2 DEF InOrder
<1> QED BY <1>1, <1>2 DEF InOrder, OrgOf

\* What Stripe records last tells the subscription as it is then.
LEMMA LastRecorded ==
    ASSUME NEW s \in Subs, NEW new, NEW types, Recorded(s, new, types)
    PROVE  /\ Len(types) \in {1, 2}
           /\ \/ types[Len(types)] = "checkout" /\ new.state \in {"active", "trialing"} /\ ~new.cancel
              \/ types[Len(types)] = "updated"
              \/ types[Len(types)] = "deleted" /\ new.state = "canceled" /\ ~new.cancel
<1>1. CASE types = <<"checkout">> /\ new.state \in {"active", "trialing"} /\ ~new.cancel
  <2>1. Len(types) = 1 /\ types[1] = "checkout"
        BY <1>1
  <2> QED BY <1>1, <2>1
<1>2. CASE types = <<"updated">>
  <2>1. Len(types) = 1 /\ types[1] = "updated"
        BY <1>2
  <2> QED BY <2>1
<1>3. CASE types = <<"failed", "updated">> \/ types = <<"paid", "updated">>
  <2>1. Len(types) = 2 /\ types[2] = "updated"
        BY <1>3
  <2> QED BY <2>1
<1>4. CASE types = <<"deleted">> /\ new.state = "canceled" /\ ~new.cancel
  <2>1. Len(types) = 1 /\ types[1] = "deleted"
        BY <1>4
  <2> QED BY <1>4, <2>1
<1> QED BY <1>1, <1>2, <1>3, <1>4 DEF Recorded

\* The latest event of a subscription is the latest as long as the subscription
\* does not change, and what Stripe records last is the latest then.
LEMMA LatestStep ==
    ASSUME Inv, [Next]_vars, NEW s \in Subs, NEW e
    PROVE  /\ Latest(e, s)' /\ e \in DOMAIN events => Latest(e, s) /\ remote'[s] = remote[s] /\ SameEvent(e)
           /\ \A t \in Subs : \A new, types : Recorded(t, new, types) => 
                /\ s = t /\ Latest(e, s)' => e = Len(events') /\ e \notin DOMAIN events
                /\ s # t /\ Latest(e, s)' => e \in DOMAIN events
                /\ s = t => \E k \in DOMAIN events' \ DOMAIN events : Latest(k, s)'
                /\ s # t /\ Latest(e, s) => Latest(e, s)'
           /\ (\A t \in Subs : \A new, types : ~Recorded(t, new, types)) =>
                /\ DOMAIN events' = DOMAIN events
                /\ Completed(s)' => Completed(s)
                /\ Latest(e, s) => Latest(e, s)'
<1> USE DEF Inv
<1>1. /\ DOMAIN events = 1..Len(events) /\ Len(events) \in Nat
      /\ DOMAIN events' = 1..Len(events') /\ Len(events') \in Nat
      BY EventList, TypeStep DEF TypeOK
<1>2. \A f \in DOMAIN events : f \in DOMAIN events' /\ events'[f].s = events[f].s
      BY Kept DEF SameEvent
<1>3. ASSUME NEW t \in Subs, NEW new, NEW types, Recorded(t, new, types)
      PROVE  /\ s = t /\ Latest(e, s)' => e = Len(events') /\ e \notin DOMAIN events
             /\ s # t /\ Latest(e, s)' => e \in DOMAIN events /\ remote'[s] = remote[s]
             /\ s = t => \E k \in DOMAIN events' \ DOMAIN events : Latest(k, s)'
             /\ s # t /\ Latest(e, s) => Latest(e, s)'
  <2>1. Len(types) \in Nat /\ Len(types) > 0
        BY <1>3, LastRecorded
  <2>2. /\ remote' = [remote EXCEPT ![t] = new] /\ Len(events') = Len(events) + Len(types)
        /\ \A f \in DOMAIN events' \ DOMAIN events : events'[f].s = t
        BY <1>3, RecordedEffect
  <2>3. Len(events') \in DOMAIN events' \ DOMAIN events /\ \A f \in DOMAIN events' : f <= Len(events')
        BY <1>1, <2>1, <2>2
  <2>4. s # t => remote'[s] = remote[s]
        BY <2>2 DEF TypeOK
  <2>5. s = t /\ Latest(e, s)' => e = Len(events') /\ e \notin DOMAIN events
        BY <1>1, <2>2, <2>3 DEF Latest
  <2>6. s # t /\ Latest(e, s)' => e \in DOMAIN events
        BY <2>2 DEF Latest
  <2>7. s = t => \E k \in DOMAIN events' \ DOMAIN events : Latest(k, s)'
    <3>1. PICK k : k = Len(events')
          OBVIOUS
    <3>2. s = t => /\ k \in DOMAIN events' \ DOMAIN events /\ events'[k].s = s
                   /\ \A f \in DOMAIN events' : events'[f].s = s => f <= k
          BY <2>2, <2>3, <3>1
    <3> QED BY <3>2 DEF Latest
  <2>8. s # t /\ Latest(e, s) => Latest(e, s)'
        BY <1>2, <2>2 DEF Latest
  <2> QED BY <2>4, <2>5, <2>6, <2>7, <2>8
<1>4. ASSUME \A t \in Subs : \A new, types : ~Recorded(t, new, types)
      PROVE  /\ DOMAIN events' = DOMAIN events
             /\ Completed(s)' => Completed(s)
             /\ remote'[s] = remote[s] \/ ~Completed(s)
  <2>1. ASSUME NEW r \in Requests, CreateSession(r)
        PROVE  (Completed(s)' => Completed(s)) /\ (remote'[s] = remote[s] \/ ~Completed(s))
    <3>1. request[r].s \in Subs /\ remote[request[r].s].state = "none"
          BY <2>1, Fields DEF CreateSession, At, SessionPcs, LinksInv
    <3> QED BY <2>1, <3>1 DEF CreateSession, Completed, StripeStatuses, TypeOK
  <2>2. ASSUME NEW r \in Requests, NEW f \in DOMAIN events, Deliver(r, f)
        PROVE  DOMAIN events' = DOMAIN events /\ remote' = remote
        BY <2>2, DeliverEffect DEF Deliver, stripe
  <2>3. ASSUME NEW r \in Requests, Decides(r)
        PROVE  DOMAIN events' = DOMAIN events /\ remote' = remote
        BY <2>3, DecidesEffect DEF Decides
  <2>4. ASSUME remote' = remote
        PROVE  (Completed(s)' => Completed(s)) /\ (remote'[s] = remote[s] \/ ~Completed(s))
        BY <2>4 DEF Completed
  <2> QED BY <1>4, <2>1, <2>2, <2>3, <2>4, Kinds DEF Continues, Aside
<1>5. ASSUME Latest(e, s)', e \in DOMAIN events
      PROVE  Latest(e, s) /\ remote'[s] = remote[s] /\ SameEvent(e)
  <2>1. Latest(e, s) /\ SameEvent(e)
        BY <1>2, <1>5, Kept DEF Latest
  <2>2. Completed(s)
        BY <2>1, EventOwner DEF Latest
  <2>3. ASSUME NEW t \in Subs, NEW new, NEW types, Recorded(t, new, types)
        PROVE  remote'[s] = remote[s]
        BY <1>3, <1>5, <2>3
  <2> QED BY <1>4, <2>1, <2>2, <2>3
<1>6. ASSUME \A t \in Subs : \A new, types : ~Recorded(t, new, types), Latest(e, s)
      PROVE  Latest(e, s)'
      BY <1>2, <1>4, <1>6 DEF Latest
<1> QED BY <1>3, <1>4, <1>5, <1>6

\* Every change of a subscription tells it by its latest event.
LEMMA ToldStep ==
    ASSUME Inv, [Next]_vars, ToldInv
    PROVE  ToldInv'
<1> USE DEF Inv
<1>0. DOMAIN events' = 1..Len(events') /\ Len(events') \in Nat /\ DOMAIN events' \subseteq EventIds
      BY TypeStep, BoundsAssumption DEF TypeOK, EventIds
<1>1. ASSUME NEW s \in Subs, remote'[s].state \in StripeStatuses
      PROVE  \E e \in EventIds : Latest(e, s)'
  <2>1. ASSUME NEW t \in Subs, NEW new, NEW types, Recorded(t, new, types)
        PROVE  \E e \in EventIds : Latest(e, s)'
    <3>1. CASE s = t
      <4>1. PICK k \in DOMAIN events' : Latest(k, s)'
            BY <2>1, <3>1, LatestStep
      <4> QED BY <1>0, <4>1
    <3>2. CASE s # t
      <4>1. remote'[s] = remote[s]
            BY <2>1, <3>2, RecordedEffect DEF TypeOK
      <4>2. PICK e \in EventIds : Latest(e, s)
            BY <1>1, <4>1 DEF ToldInv, Completed
      <4> QED BY <2>1, <3>2, <4>2, LatestStep
    <3> QED BY <3>1, <3>2
  <2>2. CASE \A t \in Subs : \A new, types : ~Recorded(t, new, types)
    <3>1. PICK e \in EventIds : Latest(e, s)
          BY <1>1, <2>2, LatestStep DEF ToldInv, Completed
    <3> QED BY <2>2, <3>1, LatestStep
  <2> QED BY <2>1, <2>2
<1>2. ASSUME NEW s \in Subs, NEW e \in EventIds, Latest(e, s)'
      PROVE  /\ events'[e].type \in {"checkout", "updated", "deleted"}
             /\ events'[e].status = remote'[s].state /\ events'[e].cancel = remote'[s].cancel
             /\ events'[e].type = "checkout" => events'[e].status \in {"active", "trialing"} /\ ~events'[e].cancel
             /\ events'[e].type = "deleted" => events'[e].status = "canceled" /\ ~events'[e].cancel
  <2>1. CASE e \in DOMAIN events
        BY <1>2, <2>1, LatestStep DEF ToldInv, SameEvent
  <2>2. ASSUME e \notin DOMAIN events, NEW t \in Subs, NEW new, NEW types, Recorded(t, new, types)
        PROVE  /\ events'[e].type \in {"checkout", "updated", "deleted"}
               /\ events'[e].status = remote'[s].state /\ events'[e].cancel = remote'[s].cancel
               /\ events'[e].type = "checkout" => events'[e].status \in {"active", "trialing"} /\ ~events'[e].cancel
               /\ events'[e].type = "deleted" => events'[e].status = "canceled" /\ ~events'[e].cancel
    <3>1. s = t /\ e = Len(events') /\ e \in DOMAIN events' \ DOMAIN events
          BY <1>2, <2>2, LatestStep
    <3>2. /\ remote' = [remote EXCEPT ![t] = new] /\ Len(events') = Len(events) + Len(types)
          /\ events'[e] = [type |-> types[e - Len(events)], s |-> t, status |-> new.state,
                           cancel |-> new.cancel, fate |-> "issued"]
          BY <2>2, <3>1, RecordedEffect
    <3>3. remote'[s] = new
          BY <3>1, <3>2 DEF TypeOK
    <3>4. Len(types) \in Nat /\ e - Len(events) = Len(types)
          BY <2>2, <3>1, <3>2, EventList, LastRecorded
    <3>5. /\ events'[e].type = types[Len(types)] /\ events'[e].status = new.state /\ events'[e].cancel = new.cancel
          BY <3>2, <3>4
    <3>6. \/ types[Len(types)] = "checkout" /\ new.state \in {"active", "trialing"} /\ ~new.cancel
          \/ types[Len(types)] = "updated"
          \/ types[Len(types)] = "deleted" /\ new.state = "canceled" /\ ~new.cancel
          BY <2>2, LastRecorded
    <3> QED BY <3>3, <3>5, <3>6
  <2>3. CASE e \notin DOMAIN events /\ \A t \in Subs : \A new, types : ~Recorded(t, new, types)
        BY <1>2, <2>3, LatestStep DEF Latest
  <2> QED BY <2>1, <2>2, <2>3
<1> QED BY <1>1, <1>2 DEF ToldInv, Completed

\* An event that tells past_due follows one that leaves a grace period.
LEMMA DueStep ==
    ASSUME Inv, [Next]_vars, ToldInv, DueInv
    PROVE  DueInv'
<1> USE DEF Inv
<1>0. /\ DOMAIN events = 1..Len(events) /\ Len(events) \in Nat
      /\ DOMAIN events' = 1..Len(events') /\ Len(events') \in Nat
      BY EventList, TypeStep DEF TypeOK
<1>1. SUFFICES ASSUME NEW e \in DOMAIN events', events'[e].type = "updated", events'[e].status = "past_due"
               PROVE  \E p \in DOMAIN events' :
                        /\ p < e /\ events'[p].s = events'[e].s
                        /\ \A f \in DOMAIN events' : events'[f].s = events'[e].s => f <= p \/ e <= f
                        /\ events'[p].type = "failed" \/ (events'[p].type = "updated" /\ events'[p].status = "past_due")
      BY DEF DueInv, Due, Follows
<1>2. \A f \in DOMAIN events : SameEvent(f)
      BY Kept
<1>3. CASE e \in DOMAIN events
  <2>1. PICK p \in DOMAIN events : Follows(p, e) /\ Due(p)
        BY <1>1, <1>2, <1>3 DEF DueInv, Due, SameEvent
  <2>2. \A f \in DOMAIN events' : events'[f].s = events'[e].s => f <= p \/ e <= f
        BY <1>0, <1>2, <1>3, <2>1 DEF Follows, SameEvent
  <2> QED BY <1>2, <1>3, <2>1, <2>2 DEF Follows, Due, SameEvent
<1>4. ASSUME e \notin DOMAIN events, NEW s \in Subs, NEW new, NEW types, Recorded(s, new, types)
      PROVE  \E p \in DOMAIN events' :
               /\ p < e /\ events'[p].s = events'[e].s
               /\ \A f \in DOMAIN events' : events'[f].s = events'[e].s => f <= p \/ e <= f
               /\ events'[p].type = "failed" \/ (events'[p].type = "updated" /\ events'[p].status = "past_due")
  <2>1. /\ Len(events') = Len(events) + Len(types)
        /\ \A f \in DOMAIN events' \ DOMAIN events :
             /\ events'[f].type = types[f - Len(events)] /\ events'[f].s = s
             /\ events'[f].status = new.state
        BY <1>4, RecordedEffect
  <2>2. new.state = "past_due" /\ types[e - Len(events)] = "updated" /\ events'[e].s = s
        BY <1>1, <1>4, <2>1
  <2>3. CASE types = <<"failed", "updated">>
    <3>1. /\ Len(types) = 2 /\ types[1] = "failed" /\ types[2] = "updated"
          BY <2>3
    <3>2. e = Len(events) + 2
          BY <1>0, <1>1, <1>4, <2>1, <2>2, <3>1
    <3>3. e - 1 \in DOMAIN events' \ DOMAIN events /\ (e - 1) - Len(events) = 1 /\ e - 1 < e
          BY <1>0, <2>1, <3>1, <3>2
    <3>4. \A f \in DOMAIN events' : f <= e - 1 \/ e <= f
          BY <1>0, <3>2
    <3> QED BY <2>1, <2>2, <3>1, <3>3, <3>4
  <2>4. CASE types = <<"updated">> /\ Completed(s) /\ remote[s].state = "past_due"
    <3>1. PICK p \in EventIds : Latest(p, s)
          BY <2>4 DEF ToldInv
    <3>2. events[p].type = "updated" /\ events[p].status = "past_due"
          BY <2>4, <3>1 DEF ToldInv
    <3>3. p \in DOMAIN events /\ events[p].s = s /\ \A f \in DOMAIN events : events[f].s = s => f <= p
          BY <3>1 DEF Latest
    <3>4. Len(types) = 1
          BY <2>4
    <3>5. e = Len(events) + 1 /\ p < e
          BY <1>0, <1>1, <1>4, <2>1, <3>3, <3>4
    <3>6. \A f \in DOMAIN events' : f \in DOMAIN events \/ e <= f
          BY <1>0, <3>5
    <3> QED BY <1>2, <2>2, <3>2, <3>3, <3>5, <3>6 DEF SameEvent
  <2> QED BY <1>4, <2>2, <2>3, <2>4 DEF Recorded
<1>5. CASE e \notin DOMAIN events /\ \A s \in Subs : \A new, types : ~Recorded(s, new, types)
  <2>1. ASSUME NEW s \in Subs
        PROVE  DOMAIN events' = DOMAIN events
        BY <1>5, LatestStep
  <2>2. DOMAIN events' = DOMAIN events
    <3>1. ASSUME NEW r \in Requests, Decides(r) PROVE DOMAIN events' = DOMAIN events
          BY <3>1, DecidesEffect
    <3>2. ASSUME NEW r \in Requests, NEW f \in DOMAIN events, Deliver(r, f) PROVE DOMAIN events' = DOMAIN events
          BY <3>2, DeliverEffect
    <3> QED BY <1>5, <3>1, <3>2, Kinds DEF Continues, Aside
  <2> QED BY <1>5, <2>2
<1> QED BY <1>3, <1>4, <1>5

\* What becomes of the event of a handler that ends.
LEMMA SettledFate ==
    ASSUME TypeOK, EventsInv, NEW r \in Requests, request[r].pc \in EventPcs,
           NEW fate \in {"done", "lost"}, Settle(r, request[r].e, fate)
    PROVE  /\ request[r].e \in DOMAIN events
           /\ events'[request[r].e].fate = fate
           /\ \A f \in DOMAIN events \ {request[r].e} : events'[f] = events[f]
<1>1. PICK e \in DOMAIN events : e = request[r].e
      BY HandlersEvent
<1>2. events' = [events EXCEPT ![e] = [events[e] EXCEPT !.fate = fate]]
      BY <1>1 DEF Settle
<1>3. events[e] \in EventRows
      BY EventList
<1>4. [events[e] EXCEPT !.fate = fate].fate = fate
      BY <1>3 DEF EventRows
<1> QED BY <1>1, <1>2, <1>4, EventList

\* An event takes effect by the statement that writes its row, or by finding
\* that no row names its subscription.
LEMMA DoneStep ==
    ASSUME Inv, [Next]_vars, NEW e \in DOMAIN events', events'[e].fate = "done"
    PROVE  /\ e \in DOMAIN events
           /\ \/ events[e].fate = "done"
              \/ \E r \in Requests :
                   /\ Holds(r, e) /\ remote' = remote
                   /\ \/ /\ request[r].pc \in {"insert", "update"} /\ Settle(r, e, "done")
                         /\ sub' = [sub EXCEPT ![OrgOf(e)] = CheckoutRow(request[r])]
                      \/ WriteSub(r)
                      \/ request[r].pc = "find" /\ RowsNaming(r) = {} /\ sub' = sub
<1> USE DEF Inv
<1> DEFINE By(r) == /\ Holds(r, e) /\ remote' = remote
                    /\ \/ /\ request[r].pc \in {"insert", "update"} /\ Settle(r, e, "done")
                          /\ sub' = [sub EXCEPT ![OrgOf(e)] = CheckoutRow(request[r])]
                       \/ WriteSub(r)
                       \/ request[r].pc = "find" /\ RowsNaming(r) = {} /\ sub' = sub
<1>1. e \in DOMAIN events
      BY FateStep
<1>2. CASE events' = events
      BY <1>1, <1>2
<1>3. ASSUME NEW s \in Subs, NEW new, NEW types, Recorded(s, new, types)
      PROVE  events[e].fate = "done"
      BY <1>1, <1>3, RecordedEffect
<1>4. ASSUME NEW r \in Requests, NEW f \in DOMAIN events, Deliver(r, f)
      PROVE  events[e].fate = "done"
      BY <1>1, <1>4, DeliverEffect
<1>5. ASSUME NEW r \in Requests, HandlerFails(r)
      PROVE  events[e].fate = "done"
  <2>1. CASE request[r].pc \in EventPcs
    <3>1. Settle(r, request[r].e, "lost")
          BY <1>5, <2>1, Fields DEF HandlerFails
    <3> QED BY <1>1, <2>1, <3>1, SettledFate
  <2>2. CASE request[r].pc \notin EventPcs
        BY <1>5, <2>2, FailureKinds DEF Aside
  <2> QED BY <2>1, <2>2
<1>6. ASSUME NEW r \in Requests, InsertSub(r) \/ UpdateSub(r)
      PROVE  events[e].fate = "done" \/ By(r)
  <2>1. request[r].pc \in EventPcs /\ request[r].pc \in {"insert", "update"} /\ remote' = remote
        BY <1>6, CheckoutWrites DEF EventPcs, CheckoutPcs, Decides
  <2>2. CASE Settle(r, request[r].e, "lost")
        BY <1>1, <2>1, <2>2, SettledFate
  <2>3. CASE sub' = [sub EXCEPT ![OrgOf(request[r].e)] = CheckoutRow(request[r])] /\ Settle(r, request[r].e, "done")
    <3>1. events[e].fate = "done" \/ e = request[r].e
          BY <1>1, <2>1, <2>3, SettledFate
    <3> QED BY <2>1, <2>3, <3>1 DEF Holds
  <2> QED BY <1>6, <2>2, <2>3, CheckoutWrites
<1>7. ASSUME NEW r \in Requests, WriteSub(r)
      PROVE  events[e].fate = "done" \/ By(r)
  <2>1. request[r].pc \in EventPcs /\ remote' = remote /\ Settle(r, request[r].e, "done")
        BY <1>7, HandlerWrites DEF EventPcs, Decides
  <2>2. events[e].fate = "done" \/ e = request[r].e
        BY <1>1, <2>1, SettledFate
  <2> QED BY <1>7, <2>1, <2>2 DEF Holds
<1>8. ASSUME NEW r \in Requests, FindBySub(r)
      PROVE  events[e].fate = "done" \/ By(r)
  <2>1. CASE RowsNaming(r) = {}
    <3>1. Decides(r) /\ request[r].pc = "find" /\ sub' = sub
          BY <1>8, <2>1, FindKinds DEF At
    <3>2. events[e].fate = "done" \/ e = request[r].e
          BY <1>1, <3>1, DecidesEffect
    <3> QED BY <2>1, <3>1, <3>2 DEF Holds, EventPcs, Decides
  <2>2. CASE RowsNaming(r) # {}
        BY <1>1, <1>8, <2>2, FindKinds DEF Continues
  <2> QED BY <2>1, <2>2
<1>9. \/ events' = events \/ \E s \in Subs : \E new, types : Recorded(s, new, types)
      \/ \E r \in Requests : \/ HandlerFails(r) \/ InsertSub(r) \/ UpdateSub(r) \/ WriteSub(r) \/ FindBySub(r)
                             \/ \E f \in DOMAIN events : Deliver(r, f)
  <2>1. ASSUME NEW s \in Subs, CompleteCheckout(s) \/ StripeChanges(s)
        PROVE  \E new, types : Recorded(s, new, types)
        BY <2>1, RecordedByStripe
  <2>2. ASSUME NEW r \in Requests, CallStripe(r)
        PROVE  events' = events \/ \E s \in Subs : \E new, types : Recorded(s, new, types)
        BY <2>2, RecordedByCall
  <2>3. ASSUME NEW r \in Requests, Advance(r), ~CallStripe(r)
        PROVE  events' = events \/ InsertSub(r) \/ UpdateSub(r) \/ WriteSub(r) \/ FindBySub(r)
        BY <2>3 DEF Advance, ReadOrg, Fetch, FindByOrg, CreateCustomer, WriteCustomer, CreateSession, AssignPlan
  <2> QED BY <2>1, <2>2, <2>3 DEF Next, vars, GracePeriodEnds, BeginCheckout, BeginAssign, BeginCancelOrResume
<1> QED BY <1>1, <1>2, <1>3, <1>4, <1>5, <1>6, <1>7, <1>8, <1>9

\* What the handlers of an organization in order hold is still so after every step.
LEMMA HeldStep ==
    ASSUME Inv, [Next]_vars, NEW o \in Orgs, InOrder(o), HeldInv(o)
    PROVE  HeldInv(o)'
<1> USE DEF Inv
<1>1. SUFFICES ASSUME NEW r \in Requests, NEW e \in EventIds,
                      request'[r].pc \in EventPcs, request'[r].e = e, remote'[events'[e].s].o = o
               PROVE  /\ request'[r].pc = "write" => sub'[o].of = events'[e].s
                      /\ request'[r].pc \in {"findOrg", "insert", "update"} /\ (Latest(e, events[e].s))' =>
                           request'[r].status = remote'[events'[e].s].state
      BY DEF HeldInv, Holds, At, OrgOf
<1>2. ASSUME request[r].pc \in EventPcs, request[r].e = e
      PROVE  /\ e \in DOMAIN events /\ OrgOf(e) = o /\ events'[e].s = events[e].s /\ events[e].s \in Subs
             /\ Touches(request[r], o) /\ Holds(r, e)
  <2>1. e \in DOMAIN events /\ Holds(r, e)
        BY <1>2, HandlersEvent
  <2>2. OrgOf(e) = o /\ events'[e].s = events[e].s /\ events[e].s \in Subs
        BY <1>1, <2>1, Kept, EventOwner DEF OrgOf, SameEvent
  <2> QED BY <1>2, <2>1, <2>2 DEF Touches, EventPcs, CheckoutPcs, LinksInv, At
\* The handler waits for its next statement while others take theirs.
<1>3. CASE request'[r] = request[r]
  <2>1. PICK s \in Subs : s = events[e].s
        BY <1>1, <1>2, <1>3
  <2>2. ASSUME request[r].pc = "write"
        PROVE  sub'[o].of = s
    <3>1. sub[o].of = s /\ sub[o] # Absent
          BY <1>1, <1>2, <1>3, <2>1, <2>2 DEF HeldInv, LinksInv, At
    <3>2. ASSUME NEW q \in Requests, request[q].pc \in {"insert", "update"}, OrgOf(request[q].e) = o
          PROVE  FALSE
      <4>1. Touches(request[q], o)
            BY <3>2 DEF Touches
      <4> QED BY <1>1, <1>2, <1>3, <2>2, <3>2, <4>1 DEF InOrder
    <3> QED BY <3>1, <3>2, SubStep
  <2>3. ASSUME request[r].pc \in {"findOrg", "insert", "update"}, Latest(e, s)'
        PROVE  request[r].status = remote'[s].state
    <3>1. Latest(e, s) /\ remote'[s] = remote[s]
          BY <1>1, <1>2, <1>3, <2>3, LatestStep
    <3> QED BY <1>1, <1>2, <1>3, <2>1, <2>3, <3>1 DEF HeldInv
  <2>4. (Latest(e, events[e].s))' => Latest(e, s)'
        BY <1>1, <1>2, <1>3, <2>1 DEF Latest
  <2> QED BY <1>1, <1>2, <1>3, <2>1, <2>2, <2>3, <2>4
<1>4. CASE Fetch(r)
  <2>1. Continues(r) /\ request'[r].pc = "findOrg" /\ request'[r].status = remote[events[request[r].e].s].state
        BY <1>4, HandlerKinds
  <2> QED BY <1>1, <1>2, <2>1 DEF Continues
<1>5. CASE FindByOrg(r)
  <2>1. /\ Continues(r) /\ At(r, "findOrg") /\ request'[r].pc \in {"insert", "update"}
        /\ request'[r].status = request[r].status
        BY <1>5, HandlerKinds
  <2>2. request[r].e = e /\ request[r].pc \in EventPcs
        BY <1>1, <2>1 DEF Continues
  <2>3. (Latest(e, events[e].s))' => Latest(e, events[e].s)
        BY <2>1 DEF Latest, Continues
  <2> QED BY <1>2, <2>1, <2>2, <2>3 DEF HeldInv, At, Continues
<1>6. CASE FindBySub(r) /\ request'[r].pc \in EventPcs
  <2>1. RowsNaming(r) # {}
    <3>1. CASE RowsNaming(r) = {}
      <4>1. Goto(r, Idle)
            BY <1>6, <3>1, FindKinds DEF Decides, Settle
      <4> QED BY <1>6, <4>1 DEF Goto, TypeOK, Idle, EventPcs, CheckoutPcs
    <3> QED BY <3>1
  <2>2. PICK p \in RowsNaming(r) :
          request'[r] = [pc |-> "write", e |-> request[r].e, o |-> p, seen |-> sub[p].status]
        BY <1>6, <2>1, FindKinds
  <2>3. request[r].pc \in EventPcs /\ request[r].e = e /\ sub' = sub
        BY <1>1, <1>6, <2>2, FindKinds DEF At, EventPcs
  <2>4. p \in Orgs /\ sub[p] # Absent /\ sub[p].of = events[e].s
        BY <2>3 DEF RowsNaming
  <2>5. p = o
        BY <1>2, <2>3, <2>4, EventOwner DEF LinksInv, Named, OrgOf
  <2> QED BY <1>2, <2>2, <2>3, <2>4, <2>5
<1>7. ASSUME NEW f \in DOMAIN events, Deliver(r, f)
      PROVE  request'[r].pc \in {"readOrg", "find"}
      BY <1>7 DEF Deliver, Goto, Handler, TypeOK
<1>8. CASE ReadOrg(r)
  <2>1. request'[r].pc = "fetch"
        BY <1>8, HandlerKinds DEF At
  <2> QED BY <2>1
<1>9. CASE request'[r] = Idle
      BY <1>1, <1>9 DEF Idle, EventPcs, CheckoutPcs
<1>10. ASSUME Aside(r)
       PROVE  FALSE
       BY <1>1, <1>10 DEF Aside
<1> QED BY <1>1, <1>3, <1>4, <1>5, <1>6, <1>7, <1>8, <1>9, <1>10, RequestStep, AsideKinds

\* A row changes by a checkout of its organization, by another handler of an
\* event of it, or by the end of its grace period.
LEMMA RowChange ==
    ASSUME Inv, [Next]_vars, NEW o \in Orgs
    PROVE  \/ \E r \in Requests :
                /\ request[r].pc \in {"insert", "update"} /\ OrgOf(request[r].e) = o /\ remote' = remote
                /\ sub' = [sub EXCEPT ![OrgOf(request[r].e)] = CheckoutRow(request[r])]
                /\ Settle(r, request[r].e, "done")
           \/ \E r \in Requests : WriteSub(r) /\ request[r].o = o
           \/ Named(o)' => /\ Named(o) /\ sub'[o].of = sub[o].of
                           /\ sub'[o].status = sub[o].status /\ sub'[o].cancelAtEnd = sub[o].cancelAtEnd
                           /\ sub[o].grace # "none" => sub'[o].grace # "none"
<1> USE DEF Inv
<1> DEFINE Calm == Named(o)' => /\ Named(o) /\ sub'[o].of = sub[o].of
                                /\ sub'[o].status = sub[o].status /\ sub'[o].cancelAtEnd = sub[o].cancelAtEnd
                                /\ sub[o].grace # "none" => sub'[o].grace # "none"
<1>1. CASE sub'[o] = sub[o]
      BY <1>1 DEF Named
<1>2. ASSUME NEW r \in Requests, InsertSub(r) \/ UpdateSub(r), sub'[o] # sub[o]
      PROVE  /\ request[r].pc \in {"insert", "update"} /\ OrgOf(request[r].e) = o /\ remote' = remote
             /\ sub' = [sub EXCEPT ![OrgOf(request[r].e)] = CheckoutRow(request[r])]
             /\ Settle(r, request[r].e, "done")
      BY <1>2, CheckoutWrites DEF Decides, TypeOK
<1>3. ASSUME NEW r \in Requests, WriteSub(r), sub'[o] # sub[o]
      PROVE  request[r].o = o
      BY <1>3, HandlerWrites DEF TypeOK
<1>4. ASSUME NEW r \in Requests, AssignPlan(r), sub'[o] # sub[o]
      PROVE  ~Named(o)'
  <2>1. request[r].o \in Orgs
        BY <1>4, Fields DEF AssignPlan, At
  <2> QED BY <1>4, <2>1 DEF AssignPlan, TypeOK, Named
<1>5. ASSUME NEW p \in Orgs, GracePeriodEnds(p), sub'[o] # sub[o]
      PROVE  Calm
  <2>1. p = o /\ sub[o] \in Rows /\ sub'[o] = [sub[o] EXCEPT !.grace = "over"]
        BY <1>5 DEF GracePeriodEnds, TypeOK
  <2>2. /\ sub'[o].of = sub[o].of /\ sub'[o].status = sub[o].status
        /\ sub'[o].cancelAtEnd = sub[o].cancelAtEnd /\ sub'[o].grace = "over"
        BY <2>1 DEF Rows
  <2>3. sub[o] # Absent
        BY <1>5, <2>1 DEF GracePeriodEnds
  <2> QED BY <2>2, <2>3 DEF Named
<1>6. \/ sub' = sub
      \/ \E r \in Requests : InsertSub(r) \/ UpdateSub(r) \/ WriteSub(r) \/ AssignPlan(r)
      \/ \E p \in Orgs : GracePeriodEnds(p)
  <2>1. ASSUME NEW r \in Requests, Advance(r)
        PROVE  sub' = sub \/ InsertSub(r) \/ UpdateSub(r) \/ WriteSub(r) \/ AssignPlan(r)
        BY <2>1 DEF Advance, ReadOrg, Fetch, FindByOrg, FindBySub, CreateCustomer, WriteCustomer,
           CreateSession, CallStripe
  <2> QED BY <2>1 DEF Next, vars, CompleteCheckout, StripeChanges, Deliver, HandlerFails,
         BeginCheckout, BeginAssign, BeginCancelOrResume
<1> QED BY <1>1, <1>2, <1>3, <1>4, <1>5, <1>6

\* So is what its row says.
LEMMA RowStep ==
    ASSUME Inv, ToldInv, DueInv, [Next]_vars, NEW o \in Orgs, InOrder(o), HeldInv(o), RowInv(o)
    PROVE  RowInv(o)'
<1> USE DEF Inv
<1>1. SUFFICES ASSUME Named(o)'
               PROVE  RowInv(o)'
      BY DEF RowInv
<1>2. PICK s \in Subs : s = sub'[o].of
      BY <1>1, TypeStep DEF TypeOK, Named, Rows
<1>3. remote'[s].state \in StripeStatuses /\ remote'[s].o = o
      BY <1>1, <1>2, LinksStep DEF LinksInv, Completed
<1> DEFINE DoneFor(f) == events'[f].s = s /\ events'[f].fate = "done"
           Mirrored == sub'[o].status = MapStatus(remote'[s].state) /\ sub'[o].cancelAtEnd = remote'[s].cancel
           DueNow(e) == events'[e].type = "failed" \/ (events'[e].type = "updated" /\ events'[e].status = "past_due")
<1>4. SUFFICES /\ \A e \in EventIds : Latest(e, s)' /\ events'[e].fate = "done" => Mirrored
               /\ \A e \in DOMAIN events' :
                    /\ DoneFor(e) /\ DueNow(e) /\ \A f \in DOMAIN events' : DoneFor(f) => f <= e
                    => sub'[o].grace # "none"
      BY <1>1, <1>2 DEF RowInv, Latest, Due
<1>5. \A f \in DOMAIN events : events'[f].s = s => events[f].s = s /\ OrgOf(f) = o
      BY <1>3, Kept DEF SameEvent, OrgOf
\* The event of a handler that ends: the later ones of the subscription are not done.
<1>6. ASSUME NEW r \in Requests, NEW k \in DOMAIN events, Holds(r, k), events[k].s = s, OrgOf(k) = o,
             Settle(r, k, "done")
      PROVE  /\ DoneFor(k) /\ k \in DOMAIN events'
             /\ \A f \in DOMAIN events' : DoneFor(f) => f <= k
             /\ \A e \in EventIds : Latest(e, s)' /\ events'[e].fate = "done" => e = k /\ Latest(k, s)
             /\ \A e \in DOMAIN events' :
                  DoneFor(e) /\ (\A f \in DOMAIN events' : DoneFor(f) => f <= e) => e = k
  <2>1. /\ k = request[r].e /\ request[r].pc \in EventPcs /\ events[k].fate = "handling"
        BY <1>6, EventList DEF Holds, EventsInv
  <2>2. events'[k].fate = "done" /\ \A f \in DOMAIN events \ {k} : events'[f] = events[f]
        BY <1>6, <2>1, SettledFate
  <2>3. k \in DOMAIN events' /\ events'[k].s = s
        BY <1>6, Kept DEF SameEvent
  <2>4. ASSUME NEW f \in DOMAIN events', DoneFor(f)
        PROVE  f <= k
    <3>1. f \in DOMAIN events
          BY <2>4, FateStep
    <3>2. CASE f # k
      <4>1. events[f].fate = "done" /\ OrgOf(f) = o
            BY <1>5, <2>2, <2>4, <3>1, <3>2
      <4>2. ~(k < f)
            BY <1>6, <2>1, <3>1, <4>1 DEF InOrder
      <4> QED BY <3>1, <4>2, EventList
    <3> QED BY <3>1, <3>2, EventList
  <2>5. \A e \in DOMAIN events' : e \in Nat
        BY TypeStep DEF TypeOK
  <2>6. ASSUME NEW e \in EventIds, Latest(e, s)', events'[e].fate = "done"
        PROVE  e = k /\ Latest(k, s)
    <3>1. e \in DOMAIN events' /\ events'[e].s = s /\ k <= e
          BY <2>3, <2>6 DEF Latest
    <3>2. e = k
          BY <2>3, <2>4, <2>5, <2>6, <3>1
    <3> QED BY <1>6, <2>6, <3>2, LatestStep
  <2>7. ASSUME NEW e \in DOMAIN events', DoneFor(e), \A f \in DOMAIN events' : DoneFor(f) => f <= e
        PROVE  e = k
    <3>1. k <= e /\ e <= k
          BY <2>2, <2>3, <2>4, <2>7
    <3> QED BY <2>3, <2>5, <3>1
  <2> QED BY <2>2, <2>3, <2>4, <2>6, <2>7
<1>7. ASSUME NEW r \in Requests, request[r].pc \in {"insert", "update"}, OrgOf(request[r].e) = o,
             sub' = [sub EXCEPT ![OrgOf(request[r].e)] = CheckoutRow(request[r])],
             Settle(r, request[r].e, "done"), remote' = remote
      PROVE  /\ \A e \in EventIds : Latest(e, s)' /\ events'[e].fate = "done" => Mirrored
             /\ \A e \in DOMAIN events' :
                  /\ DoneFor(e) /\ DueNow(e) /\ \A f \in DOMAIN events' : DoneFor(f) => f <= e
                  => sub'[o].grace # "none"
  <2>1. PICK k \in DOMAIN events : k = request[r].e /\ k \in EventIds /\ Holds(r, k)
        BY <1>7, HandlersEvent DEF EventPcs, CheckoutPcs
  <2>2. sub'[o] = CheckoutRow(request[r])
        BY <1>7 DEF TypeOK
  <2>3. events[k].s = s
        BY <1>2, <2>1, <2>2 DEF CheckoutRow
  <2>4. events[k].type = "checkout" /\ events[k].cancel \in BOOLEAN
        BY <1>7, <2>1, EventList DEF EventsInv, CheckoutPcs, EventRows
  <2>5. /\ sub'[o].status = MapStatus(request[r].status) /\ sub'[o].cancelAtEnd = FALSE
        BY <2>2 DEF CheckoutRow
  <2>6. Latest(k, s) => request[r].status = remote[s].state
        BY <1>7, <2>1, <2>3 DEF HeldInv
  <2>7. Latest(k, s) => remote[s].cancel = FALSE
        BY <2>1, <2>4 DEF ToldInv
  <2>8. \A e \in EventIds : Latest(e, s)' /\ events'[e].fate = "done" => Mirrored
        BY <1>6, <1>7, <2>1, <2>3, <2>5, <2>6, <2>7
  <2>9. ASSUME NEW e \in DOMAIN events', DoneFor(e), DueNow(e), \A f \in DOMAIN events' : DoneFor(f) => f <= e
        PROVE  FALSE
    <3>1. e = k
          BY <1>6, <1>7, <2>1, <2>3, <2>9
    <3> QED BY <2>4, <2>9, <3>1, Kept DEF SameEvent
  <2> QED BY <2>8, <2>9
<1>8. ASSUME NEW r \in Requests, WriteSub(r), request[r].o = o
      PROVE  /\ \A e \in EventIds : Latest(e, s)' /\ events'[e].fate = "done" => Mirrored
             /\ \A e \in DOMAIN events' :
                  /\ DoneFor(e) /\ DueNow(e) /\ \A f \in DOMAIN events' : DoneFor(f) => f <= e
                  => sub'[o].grace # "none"
  <2>1. PICK k \in DOMAIN events : k = request[r].e /\ k \in EventIds /\ Holds(r, k) /\ OrgOf(k) = o
        BY <1>8, HandlerWrites, HandlersEvent DEF EventPcs
  <2>2. /\ sub'[o] = Handled(sub[o], events[k], request[r].seen) /\ sub'[o].of = sub[o].of
        /\ sub[o] \in Rows /\ Settle(r, k, "done") /\ remote' = remote /\ request[r].pc = "write"
        BY <1>8, <2>1, HandlerWrites DEF Decides, TypeOK
  <2>3. events[k].s = s /\ sub[o].of = s /\ Named(o)
    <3>1. sub[o].of = s
          BY <1>2, <2>2
    <3>2. sub[o].of = events[k].s
          BY <2>1, <2>2 DEF HeldInv, At
    <3> QED BY <1>1, <2>2, <3>1, <3>2 DEF Named, Rows, Absent
  <2>4. events[k].type # "checkout" /\ events[k].cancel \in BOOLEAN /\ events[k].fate = "handling"
        BY <2>1, <2>2, EventList DEF EventsInv, CheckoutPcs, EventRows
  <2>5. ASSUME Latest(k, s)
        PROVE  Mirrored
    <3>1. /\ events[k].type \in {"updated", "deleted"}
          /\ events[k].status = remote[s].state /\ events[k].cancel = remote[s].cancel
          /\ events[k].type = "deleted" => events[k].status = "canceled" /\ ~events[k].cancel
          BY <2>1, <2>4, <2>5 DEF ToldInv
    <3>2. CASE events[k].type = "updated"
      <4>1. sub'[o] = [sub[o] EXCEPT !.status = MapStatus(events[k].status), !.cancelAtEnd = events[k].cancel]
            BY <2>2, <3>2 DEF Handled
      <4>2. sub'[o].status = MapStatus(events[k].status) /\ sub'[o].cancelAtEnd = events[k].cancel
            BY <2>2, <4>1 DEF Rows
      <4> QED BY <2>2, <3>1, <4>2
    <3>3. CASE events[k].type = "deleted"
      <4>1. sub'[o] = [sub[o] EXCEPT !.status = "CANCELLED", !.cancelAtEnd = FALSE]
            BY <2>2, <3>3 DEF Handled
      <4>2. sub'[o].status = "CANCELLED" /\ sub'[o].cancelAtEnd = FALSE
            BY <2>2, <4>1 DEF Rows
      <4>3. MapStatus(remote[s].state) = "CANCELLED" /\ remote[s].cancel = FALSE
            BY <2>4, <3>1, <3>3 DEF MapStatus
      <4> QED BY <2>2, <4>2, <4>3
    <3> QED BY <3>1, <3>2, <3>3
  <2>6. ASSUME Due(k)
        PROVE  sub'[o].grace # "none"
    <3>1. CASE events[k].type = "failed"
      <4>1. sub'[o] = [sub[o] EXCEPT !.status = "PAST_DUE", !.grace = "running"]
            BY <2>2, <3>1 DEF Handled
      <4> QED BY <2>2, <4>1 DEF Rows
    <3>2. CASE events[k].type = "updated"
      <4>1. PICK p \in DOMAIN events : Follows(p, k) /\ Due(p)
            BY <2>6, <3>2 DEF DueInv
      <4>2. p < k /\ events[p].s = s /\ OrgOf(p) = o
            BY <2>1, <2>3, <4>1 DEF Follows, OrgOf
      <4>3. events[p].fate = "done"
            BY <2>1, <2>4, <4>2 DEF InOrder
      <4>4. ASSUME NEW f \in DOMAIN events, events[f].s = s, events[f].fate = "done"
            PROVE  f <= p
        <5>1. OrgOf(f) = o /\ f # k
              BY <2>1, <2>3, <2>4, <4>4 DEF OrgOf
        <5>2. ~(k < f)
              BY <2>1, <2>4, <4>4, <5>1 DEF InOrder
        <5>3. f <= p \/ k <= f
              BY <2>3, <4>1, <4>4 DEF Follows
        <5> QED BY <5>1, <5>2, <5>3, EventList
      <4>5. sub[o].grace # "none"
            BY <2>3, <4>1, <4>2, <4>3, <4>4 DEF RowInv
      <4>6. sub'[o] = [sub[o] EXCEPT !.status = MapStatus(events[k].status), !.cancelAtEnd = events[k].cancel]
            BY <2>2, <3>2 DEF Handled
      <4> QED BY <2>2, <4>5, <4>6 DEF Rows
    <3> QED BY <2>6, <3>1, <3>2 DEF Due
  <2>7. \A e \in EventIds : Latest(e, s)' /\ events'[e].fate = "done" => Mirrored
        BY <1>6, <2>1, <2>2, <2>3, <2>5
  <2>8. ASSUME NEW e \in DOMAIN events', DoneFor(e), DueNow(e), \A f \in DOMAIN events' : DoneFor(f) => f <= e
        PROVE  sub'[o].grace # "none"
    <3>1. e = k
          BY <1>6, <2>1, <2>2, <2>3, <2>8
    <3>2. Due(k)
          BY <2>8, <3>1, Kept DEF SameEvent, Due
    <3> QED BY <2>6, <3>2
  <2> QED BY <2>7, <2>8
\* Otherwise the row is as it was, and so are the effects of the subscription's events.
<1>9. ASSUME Named(o), sub'[o].of = sub[o].of,
             sub'[o].status = sub[o].status, sub'[o].cancelAtEnd = sub[o].cancelAtEnd,
             sub[o].grace # "none" => sub'[o].grace # "none",
             \A e \in DOMAIN events' : DoneFor(e) => e \in DOMAIN events /\ events[e].fate = "done"
      PROVE  /\ \A e \in EventIds : Latest(e, s)' /\ events'[e].fate = "done" => Mirrored
             /\ \A e \in DOMAIN events' :
                  /\ DoneFor(e) /\ DueNow(e) /\ \A f \in DOMAIN events' : DoneFor(f) => f <= e
                  => sub'[o].grace # "none"
  <2>1. sub[o].of = s
        BY <1>2, <1>9
  <2>2. ASSUME NEW e \in EventIds, Latest(e, s)', events'[e].fate = "done"
        PROVE  Mirrored
    <3>1. e \in DOMAIN events /\ events[e].fate = "done"
          BY <1>9, <2>2 DEF Latest
    <3>2. Latest(e, s) /\ remote'[s] = remote[s]
          BY <2>2, <3>1, LatestStep
    <3> QED BY <1>9, <2>1, <3>1, <3>2 DEF RowInv
  <2>3. ASSUME NEW e \in DOMAIN events', DoneFor(e), DueNow(e), \A f \in DOMAIN events' : DoneFor(f) => f <= e
        PROVE  sub'[o].grace # "none"
    <3>1. e \in DOMAIN events /\ events[e].fate = "done" /\ events[e].s = s /\ Due(e)
          BY <1>9, <2>3, Kept DEF SameEvent, Due
    <3>2. ASSUME NEW f \in DOMAIN events, events[f].s = s, events[f].fate = "done"
          PROVE  f <= e
          BY <2>3, <3>2, HandledOnceStep, Kept DEF SameEvent
    <3> QED BY <1>9, <2>1, <3>1, <3>2 DEF RowInv
  <2> QED BY <2>2, <2>3
<1>10. CASE Named(o) /\ \E e \in DOMAIN events' : DoneFor(e) /\ ~(e \in DOMAIN events /\ events[e].fate = "done")
  <2>1. PICK e \in DOMAIN events, r \in Requests :
          /\ DoneFor(e) /\ events[e].fate # "done"
          /\ Holds(r, e) /\ remote' = remote
          /\ \/ /\ request[r].pc \in {"insert", "update"} /\ Settle(r, e, "done")
                /\ sub' = [sub EXCEPT ![OrgOf(e)] = CheckoutRow(request[r])]
             \/ WriteSub(r)
             \/ request[r].pc = "find" /\ RowsNaming(r) = {} /\ sub' = sub
        BY <1>10, DoneStep
  <2>2. e = request[r].e /\ OrgOf(e) = o /\ events[e].s = s
        BY <1>5, <2>1 DEF Holds
  <2>3. CASE WriteSub(r)
    <3>1. request[r].o = o
          BY <2>2, <2>3, HandlerWrites
    <3> QED BY <1>4, <1>8, <2>3, <3>1
  <2>4. CASE request[r].pc = "find" /\ RowsNaming(r) = {} /\ sub' = sub
        BY <1>2, <1>10, <2>2, <2>4 DEF RowsNaming, Named
  <2>5. CASE /\ request[r].pc \in {"insert", "update"} /\ Settle(r, e, "done")
             /\ sub' = [sub EXCEPT ![OrgOf(e)] = CheckoutRow(request[r])]
        BY <1>4, <1>7, <2>1, <2>2, <2>5
  <2> QED BY <2>1, <2>3, <2>4, <2>5
<1> QED BY <1>1, <1>4, <1>7, <1>8, <1>9, <1>10, RowChange

\* Initially all of that holds.
LEMMA OrderedInit ==
    Init => ToldInv /\ DueInv /\ OrderInv
<1> SUFFICES ASSUME Init PROVE ToldInv /\ DueInv /\ OrderInv
    OBVIOUS
<1>1. DOMAIN events = {} /\ \A r \in Requests : request[r].pc = "idle"
      BY DEF Init, Idle
<1>2. ToldInv
      BY <1>1 DEF Init, ToldInv, Latest, Completed, StripeStatuses
<1>3. DueInv
      BY <1>1 DEF DueInv
<1>4. OrderInv
      BY <1>1 DEF Init, OrderInv, InOrder, HeldInv, RowInv, Named, Holds, Touches, EventPcs, CheckoutPcs
<1> QED BY <1>2, <1>3, <1>4

\* Every step keeps it.
LEMMA OrderedNext ==
    Inv /\ ToldInv /\ DueInv /\ OrderInv /\ [Next]_vars => ToldInv' /\ DueInv' /\ OrderInv'
<1> SUFFICES ASSUME Inv, ToldInv, DueInv, OrderInv, [Next]_vars
             PROVE  ToldInv' /\ DueInv' /\ OrderInv'
    OBVIOUS
<1>1. ASSUME NEW o \in Orgs, o \notin disordered'
      PROVE  InOrder(o)' /\ HeldInv(o)' /\ RowInv(o)'
  <2>1. InOrder(o) /\ HeldInv(o) /\ RowInv(o)
        BY <1>1, StaysDisordered DEF OrderInv
  <2> QED BY <1>1, <2>1, InOrderStep, HeldStep, RowStep
<1> QED BY <1>1, ToldStep, DueStep DEF OrderInv

\* It always holds.
LEMMA OrderedCorrect ==
    Spec => [](Inv /\ ToldInv /\ DueInv /\ OrderInv)
BY InitInv, NextInv, OrderedInit, OrderedNext, PTL DEF Spec

(***************************************************************************)
(* The properties.                                                         *)
(***************************************************************************)

\* Type correctness, of the rows, of Stripe's records and of every handler.
THEOREM TypeCorrect == Spec => []TypeOK
<1>1. Inv => TypeOK
      BY DEF Inv
<1> QED BY <1>1, InvCorrect, PTL

\* The marker makes redelivery harmless (markProcessed): whatever Stripe
\* redelivers and however many handlers overlap, an event is handed to a handler
\* once, and what became of it stands.
THEOREM HandledOnceCorrect == Spec => HandledOnce
<1>1. Inv /\ [Next]_vars =>
        [\A e \in DOMAIN events :
           /\ events[e].fate # "issued" => events'[e].fate # "issued"
           /\ events[e].fate \in {"done", "lost"} => events'[e] = events[e]]_vars
      BY HandledOnceStep DEF Inv
<1> QED BY <1>1, InvCorrect, PTL DEF Spec, HandledOnce

\* The billing portal opens the customer the subscription belongs to
\* (ensureStripeCustomer), unless two checkouts of the organization looked for a
\* customer at once.
THEOREM PortalCorrect == Spec => []PortalShowsSubscription
<1>1. Inv => PortalShowsSubscription
  <2>1. SUFFICES ASSUME Inv, NEW o \in Orgs \ raced, Named(o)
                 PROVE  remote[sub[o].of].c = customer[o]
        BY DEF PortalShowsSubscription, Named
  <2>2. sub[o].of \in Subs
        BY <2>1 DEF Inv, TypeOK, Rows, Named
  <2>3. Completed(sub[o].of) /\ remote[sub[o].of].o = o
        BY <2>1 DEF Inv, LinksInv
  <2> QED BY <2>1, <2>2, <2>3 DEF Inv, CustomerInv, Completed, StripeStatuses
<1> QED BY <1>1, InvCorrect, PTL

\* What the two properties have in common: the latest event of the subscription
\* took effect, so the row holds what it told.
LEMMA Quieted ==
    ASSUME Inv, ToldInv, OrderInv, NEW o \in Orgs \ disordered, Quiet(o), Named(o)
    PROVE  /\ sub[o].of \in Subs /\ remote[sub[o].of] \in Subscriptions
           /\ sub[o].status = MapStatus(remote[sub[o].of].state)
           /\ sub[o].cancelAtEnd = remote[sub[o].of].cancel
           /\ \E e \in DOMAIN events :
                /\ Latest(e, sub[o].of) /\ events[e].fate = "done"
                /\ events[e].status = remote[sub[o].of].state
                /\ events[e].type = "updated" \/ events[e].status # "past_due"
<1>1. PICK s \in Subs : s = sub[o].of /\ Completed(s) /\ remote[s].o = o /\ remote[s] \in Subscriptions
      BY RemoteFields DEF Inv, LinksInv, TypeOK, Named, Rows
<1>2. PICK e \in EventIds : Latest(e, s)
      BY <1>1 DEF ToldInv
<1>3. e \in DOMAIN events /\ events[e].s = s /\ events[e].fate = "done"
      BY <1>1, <1>2 DEF Latest, Quiet, OrgOf
<1>4. /\ sub[o].status = MapStatus(remote[s].state) /\ sub[o].cancelAtEnd = remote[s].cancel
      BY <1>1, <1>2, <1>3 DEF OrderInv, RowInv
<1>5. /\ events[e].status = remote[s].state
      /\ events[e].type = "updated" \/ events[e].status # "past_due"
      BY <1>2 DEF ToldInv
<1> QED BY <1>1, <1>2, <1>3, <1>4, <1>5

\* The row follows Stripe (the five webhook handlers): when the events of an
\* organization were handled one at a time and in order, and all took effect, its
\* row has the status and the cancellation flag of the subscription it names.
THEOREM MirrorsCorrect == Spec => []MirrorsStripe
<1>1. Inv /\ ToldInv /\ OrderInv => MirrorsStripe
      BY Quieted DEF MirrorsStripe, Named
<1> QED BY <1>1, OrderedCorrect, PTL

\* Access and payment agree (canActivate after the handlers): in the same states
\* the guard lets an organization in exactly when Stripe has its subscription paid
\* for or on trial, or past due with the grace period not over; and a past-due
\* organization was given a grace period.
THEOREM AccessCorrect == Spec => []AccessFollowsPayment
<1>1. ASSUME Inv, ToldInv, OrderInv, NEW o \in Orgs \ disordered, Quiet(o), Named(o)
      PROVE  LET state == remote[sub[o].of].state IN
             /\ Allowed(o) <=> \/ state \in {"active", "trialing"}
                               \/ state = "past_due" /\ sub[o].grace # "over"
             /\ state = "past_due" => sub[o].grace # "none"
  <2>1. PICK e \in DOMAIN events :
          /\ Latest(e, sub[o].of) /\ events[e].fate = "done"
          /\ events[e].status = remote[sub[o].of].state
          /\ events[e].type = "updated" \/ events[e].status # "past_due"
        BY <1>1, Quieted
  <2>2. /\ sub[o].status = MapStatus(remote[sub[o].of].state)
        /\ remote[sub[o].of].state \in StripeStatuses
        BY <1>1, Quieted DEF Subscriptions
  <2>3. remote[sub[o].of].state = "past_due" => sub[o].grace # "none"
    <3>1. remote[sub[o].of].state = "past_due" => Due(e)
          BY <2>1 DEF Due
    <3>2. events[e].s = sub[o].of /\ \A f \in DOMAIN events : events[f].s = sub[o].of => f <= e
          BY <2>1 DEF Latest
    <3> QED BY <1>1, <2>1, <3>1, <3>2 DEF OrderInv, RowInv
  <2>4. sub[o] # Absent /\ sub[o].grace \in {"none", "running", "over"}
        BY <1>1 DEF Inv, TypeOK, Named, Rows
  <2> QED BY <2>2, <2>3, <2>4 DEF Allowed, MapStatus, StripeStatuses
<1>2. Inv /\ ToldInv /\ OrderInv => AccessFollowsPayment
      BY <1>1 DEF AccessFollowsPayment, Named
<1> QED BY <1>2, OrderedCorrect, PTL

=============================================================================
