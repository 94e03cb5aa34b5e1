----------------------------- MODULE Deliveries -----------------------------
(***************************************************************************)
(* Integrations and the deliveries of events to them:                      *)
(* modules/integrations and modules/integration-deliveries.                *)
(*                                                                         *)
(* An event is sent to every active integration subscribed to it, all at   *)
(* once.  A delivery is inserted as PENDING, the other side is called, and *)
(* the answer is written with the number of attempts.  A retry counts from *)
(* the number it read before it called.  The other side answers with an    *)
(* error, or not in time, as it likes; nothing resolves a PENDING row but  *)
(* the handler that inserted it and retries.                               *)
(***************************************************************************)
EXTENDS Handlers, Sequences

CONSTANTS
    Integrations,   \* ids of integrations
    Ids             \* ids of deliveries

VARIABLES
    integration,    \* integration[i]: the row of integrations
    delivery,       \* delivery[d]: the row of integration_deliveries
    answers,        \* history: answers[d], what the other side said, in order
    crossed,        \* history: deliveries that two calls were made for at once
    unwritten       \* history: deliveries with an answer that was not written

deliveries == <<integration, delivery, answers, crossed, unwritten>>
vars == <<integration, delivery, answers, crossed, unwritten, request, started, raced>>

\* integrationStatusEnum; one event type stands for eventTypes
IntegrationRow == [status : {"ACTIVE", "INACTIVE"}, subscribed : BOOLEAN]

\* deliveryStatusEnum
DeliveryStatuses == {"PENDING", "SUCCESS", "FAILED"}
DeliveryRow == [of : Integrations, status : DeliveryStatuses, attemptCount : 0..MaxStarted]

\* An emit has dispatches it must begin, todo, and calls not answered, calling.
Running ==
    [pc : {"emit"}, on : {"event"}, todo : SUBSET Integrations, calling : SUBSET Ids]
    \cup [pc : {"retry"}, on : Ids, seen : 0..MaxStarted]

TypeOK ==
    /\ integration \in [Integrations -> IntegrationRow \cup {Absent}]
    /\ delivery \in [Ids -> DeliveryRow \cup {Absent}]
    /\ answers \in [Ids -> Seq(BOOLEAN)]
    /\ crossed \subseteq Ids /\ unwritten \subseteq Ids
    /\ HandlersTypeOK(Running, Integrations \cup Ids \cup {"event"})

Init ==
    /\ integration = [i \in Integrations |-> Absent]
    /\ delivery = [d \in Ids |-> Absent]
    /\ answers = [d \in Ids |-> <<>>]
    /\ crossed = {} /\ unwritten = {}
    /\ HandlersInit

\* findActiveByOrganizationAndEventType
ActiveAndSubscribed ==
    {i \in Integrations : Present(integration[i]) /\ integration[i].status = "ACTIVE"
                                                  /\ integration[i].subscribed}

\* r waits for an answer about d.
Calls(r, d) ==
    \/ At(r, "retry") /\ request[r].on = d
    \/ At(r, "emit") /\ d \in request[r].calling
CalledFor(d) == \E r \in Requests : Calls(r, d)

(***************************************************************************)
(* Integrations.                                                           *)
(***************************************************************************)

CreateIntegration(r, i, subscribed) ==
    /\ integration[i] = Absent
    /\ integration' = [integration EXCEPT ![i] = [status |-> "ACTIVE", subscribed |-> subscribed]]
    /\ Once(r, i)
    /\ UNCHANGED <<delivery, answers, crossed, unwritten>>

\* update, and deactivate; what was read before does not matter.
UpdateIntegration(r, i, row) ==
    /\ Present(integration[i])
    /\ integration' = [integration EXCEPT ![i] = row]
    /\ Once(r, i)
    /\ UNCHANGED <<delivery, answers, crossed, unwritten>>

(***************************************************************************)
(* Deliveries.                                                             *)
(***************************************************************************)

\* The emit with its dispatches as they are now; it ends with the last of them.
Dispatching(r, todo, calling) ==
    IF todo = {} /\ calling = {} THEN Finish(r)
    ELSE Goto(r, [pc |-> "emit", on |-> "event", todo |-> todo, calling |-> calling])

BeginEmit(r) ==
    /\ ActiveAndSubscribed # {}
    /\ Start(r, [pc |-> "emit", on |-> "event", todo |-> ActiveAndSubscribed, calling |-> {}])
    /\ UNCHANGED deliveries

\* dispatchToIntegration, until the call
InsertDelivery(r, i, d) ==
    LET q == request[r] IN
    /\ At(r, "emit")
    /\ i \in q.todo
    /\ delivery[d] = Absent
    /\ delivery' = [delivery EXCEPT ![d] = [of |-> i, status |-> "PENDING", attemptCount |-> 0]]
    /\ Dispatching(r, q.todo \ {i}, q.calling \cup {d})
    /\ UNCHANGED <<integration, answers, crossed, unwritten>>

\* One dispatch failing leaves the others alone (Promise.allSettled).
InsertFails(r, i) ==
    LET q == request[r] IN
    /\ At(r, "emit")
    /\ i \in q.todo
    /\ Dispatching(r, q.todo \ {i}, q.calling)
    /\ UNCHANGED deliveries

Crossed(d) == IF CalledFor(d) THEN crossed \cup {d} ELSE crossed

\* Fault: the attempt is counted before the call as well.
BeginRetryCounted(r, d) ==
    /\ Present(delivery[d])
    /\ Start(r, [pc |-> "retry", on |-> d, seen |-> delivery[d].attemptCount])
    /\ delivery' = [delivery EXCEPT ![d].attemptCount = @ + 1]
    /\ crossed' = Crossed(d)
    /\ UNCHANGED <<integration, answers, unwritten>>

\* retry, until the call: in any status, and of an inactive integration too.
BeginRetry(r, d) ==
    /\ Present(delivery[d])
    /\ Start(r, [pc |-> "retry", on |-> d, seen |-> delivery[d].attemptCount])
    /\ crossed' = Crossed(d)
    /\ UNCHANGED <<integration, delivery, answers, unwritten>>

\* Fault: a retry writes a 1 as well.
AttemptsOne(r) == 1

\* The number of attempts that r writes: the first dispatch writes a 1.
Attempts(r) == IF At(r, "emit") THEN 1 ELSE request[r].seen + 1

\* r is done with d.
Ends(r, d) ==
    IF At(r, "emit") THEN Dispatching(r, request[r].todo, request[r].calling \ {d}) ELSE Finish(r)

\* sendHttpRequest and the update after it
Answer(r, d, success) ==
    /\ Calls(r, d)
    /\ delivery' = [delivery EXCEPT ![d].status = IF success THEN "SUCCESS" ELSE "FAILED",
                                    ![d].attemptCount = Attempts(r)]
    /\ answers' = [answers EXCEPT ![d] = Append(@, success)]
    /\ Ends(r, d)
    /\ UNCHANGED <<integration, crossed, unwritten>>

\* The update after the call fails.
AnswerFails(r, d, success) ==
    /\ Calls(r, d)
    /\ answers' = [answers EXCEPT ![d] = Append(@, success)]
    /\ unwritten' = unwritten \cup {d}
    /\ Ends(r, d)
    /\ UNCHANGED <<integration, delivery, crossed>>

\* The process dies.
Abort(r) ==
    /\ Stop(r)
    /\ unwritten' = unwritten \cup {d \in Ids : Calls(r, d)}
    /\ UNCHANGED <<integration, delivery, answers, crossed>>

Next ==
    \E r \in Requests :
        \/ \E i \in Integrations :
            \/ \E subscribed \in BOOLEAN : CreateIntegration(r, i, subscribed)
            \/ \E row \in IntegrationRow : UpdateIntegration(r, i, row)
            \/ \E d \in Ids : InsertDelivery(r, i, d)
            \/ InsertFails(r, i)
        \/ BeginEmit(r)
        \/ \E d \in Ids :
            \/ BeginRetry(r, d)
            \/ \E success \in BOOLEAN : Answer(r, d, success) \/ AnswerFails(r, d, success)
        \/ Abort(r)

Spec == Init /\ [][Next]_vars

(***************************************************************************)
(* Properties.                                                             *)
(***************************************************************************)

\* Once nothing waits for an answer, a delivery counts the answers there were
\* and its status is the last one (dispatchToIntegration, retry), unless two
\* calls were made at once or an answer was not written.
AttemptsCounted ==
    \A d \in Ids \ (crossed \cup unwritten) :
        Present(delivery[d]) /\ ~CalledFor(d) =>
            LET n == Len(answers[d]) IN
            /\ n > 0
            /\ delivery[d].attemptCount = n
            /\ delivery[d].status = IF answers[d][n] THEN "SUCCESS" ELSE "FAILED"

\* However calls overlap and fail, no delivery counts an attempt that was not
\* answered, and its status is an answer that was given (the count is taken
\* from a row read before the call).
NeverOvercounted ==
    \A d \in Ids : Present(delivery[d]) =>
        /\ delivery[d].attemptCount <= Len(answers[d])
        /\ delivery[d].status = "SUCCESS" => \E n \in DOMAIN answers[d] : answers[d][n]
        /\ delivery[d].status = "FAILED" => \E n \in DOMAIN answers[d] : ~answers[d][n]
=============================================================================
