------------------------------ MODULE Handlers ------------------------------
(***************************************************************************)
(* What the request handlers of all services have in common.               *)
(*                                                                         *)
(* A handler is a record: pc, the awaited statement it stands before; on,  *)
(* the row it is about; and what it holds in its local variables.  Between *)
(* two of its statements any other handler can run.  A handler whose       *)
(* statement fails, or whose process dies, stops where it is; nothing is   *)
(* undone.                                                                 *)
(***************************************************************************)
EXTENDS Naturals

CONSTANTS
    Requests,       \* requests in progress at once
    MaxStarted      \* bound: requests begun

ASSUME MaxStartedAssumption == MaxStarted \in Nat

VARIABLES
    request,    \* request[r]: the handler r runs, or Idle
    started,    \* requests begun, for the bound
    raced       \* history: rows that two requests handled at once

handlers == <<request, started, raced>>

Absent == [row |-> "absent"]    \* not inserted yet
Gone == [row |-> "gone"]        \* deleted; ids are never used again
Idle == [pc |-> "idle"]

HandlersInit ==
    /\ request = [r \in Requests |-> Idle]
    /\ started = 0
    /\ raced = {}

HandlersTypeOK(Running, Rows) ==
    /\ request \in [Requests -> Running \cup {Idle}]
    /\ started \in 0..MaxStarted
    /\ raced \subseteq Rows

Present(row) == row \notin {Absent, Gone}
At(r, pc) == request[r].pc = pc
Handled(id) == \E q \in Requests : request[q] # Idle /\ request[q].on = id

\* A request comes in and its handler goes on as the record says.
Start(r, handler) ==
    /\ request[r] = Idle
    /\ started < MaxStarted
    /\ started' = started + 1
    /\ request' = [request EXCEPT ![r] = handler]
    /\ raced' = IF Handled(handler.on) THEN raced \cup {handler.on} ELSE raced

\* A request whose handler is a single statement.
Once(r, id) ==
    /\ request[r] = Idle
    /\ started < MaxStarted
    /\ started' = started + 1
    /\ raced' = IF Handled(id) THEN raced \cup {id} ELSE raced
    /\ UNCHANGED request

Goto(r, handler) ==
    /\ request' = [request EXCEPT ![r] = handler]
    /\ UNCHANGED <<started, raced>>

Finish(r) == Goto(r, Idle)

\* A statement fails or the process dies.
Stop(r) == request[r] # Idle /\ Finish(r)
=============================================================================
