--------------------------- MODULE SlidingWindow ---------------------------
(***************************************************************************)
(* The sliding window of common/rate-limit/rate-limit.service.ts: a sorted *)
(* set per key in Redis, and the check that counts in it.                  *)
(*                                                                         *)
(* A check sends its commands in one pipeline, which is no transaction:    *)
(* commands of other checks run in between.  Its own entry goes in before  *)
(* it knows whether it may stay.  The expiry of a key is left out: it      *)
(* comes when nothing was checked for a whole window, with every entry     *)
(* out of the window.                                                      *)
(***************************************************************************)
EXTENDS Integers, FiniteSets

CONSTANTS
    Keys,           \* keys of the limiter
    Checks,         \* checks in progress at once
    Window,         \* windowMs, in ticks
    MaxTime,        \* bound: ticks
    MaxStarted      \* bound: checks begun

VARIABLES
    now,        \* the clock
    window,     \* window[k]: entries, the time and the number of the check
    check,      \* check[c]: the check c runs
    started,    \* checks begun
    raced,      \* history: keys two checks worked on at once
    slow,       \* history: keys whose entries were counted after the clock moved
    broken      \* history: keys of a check that a failure let through

limiter == <<now, window, check, started, raced, slow, broken>>

Idle == [pc |-> "idle"]
Entries == [at : 0..MaxTime, id : 1..MaxStarted]

WindowTypeOK(Pcs, Extra) ==
    /\ now \in 0..MaxTime
    /\ window \in [Keys -> SUBSET Entries]
    /\ \A c \in Checks : check[c] = Idle \/
           /\ check[c].pc \in Pcs
           /\ check[c].k \in Keys
           /\ check[c].entry \in Entries
           /\ check[c].then \in Extra
    /\ started \in 0..MaxStarted
    /\ raced \cup slow \cup broken \subseteq Keys

WindowInit ==
    /\ now = 0
    /\ window = [k \in Keys |-> {}]
    /\ check = [c \in Checks |-> Idle]
    /\ started = 0
    /\ raced = {}
    /\ slow = {}
    /\ broken = {}

At(c, pc) == check[c].pc = pc
Busy(k) == \E c \in Checks : check[c] # Idle /\ check[c].k = k
Goto(c, record) ==
    /\ check' = [check EXCEPT ![c] = record]
    /\ UNCHANGED <<now, started, raced, slow, broken>>
Finish(c) == Goto(c, Idle) /\ UNCHANGED window

Tick ==
    /\ now < MaxTime
    /\ now' = now + 1
    /\ slow' = slow \cup {check[c].k : c \in {d \in Checks : At(d, "prune") \/ At(d, "count")}}
    /\ UNCHANGED <<window, check, started, raced, broken>>

\* Date.now() and the random suffix of a member; then tells what the caller does
\* next.
Begin(c, k, pc, then) ==
    /\ check[c] = Idle
    /\ started < MaxStarted
    /\ started' = started + 1
    /\ check' = [check EXCEPT ![c] =
           [pc |-> pc, k |-> k, entry |-> [at |-> now, id |-> started + 1], then |-> then]]
    /\ raced' = IF Busy(k) THEN raced \cup {k} ELSE raced
    /\ UNCHANGED <<now, window, slow, broken>>

\* A caller that holds c begins another check, on key k.
Again(c, k, then) ==
    /\ check' = [check EXCEPT ![c] =
           [pc |-> "prune", k |-> k, entry |-> [at |-> now, id |-> @.entry.id], then |-> then]]
    /\ raced' = IF \E d \in Checks \ {c} : check[d] # Idle /\ check[d].k = k
                THEN raced \cup {k} ELSE raced
    /\ UNCHANGED <<now, window, started, slow, broken>>

Live(k, t) == {e \in window[k] : e.at > t - Window}

(***************************************************************************)
(* The commands of check; count is the answer of ZCARD.                    *)
(***************************************************************************)

\* Fault: the window is measured from the wrong end.
PruneRecent(c) ==
    /\ At(c, "prune")
    /\ window' = [window EXCEPT ![check[c].k] = {e \in @ : e.at <= check[c].entry.at - Window}]
    /\ Goto(c, [check[c] EXCEPT !.pc = "count"])

Prune(c) ==
    /\ At(c, "prune")
    /\ window' = [window EXCEPT ![check[c].k] = Live(check[c].k, check[c].entry.at)]
    /\ Goto(c, [check[c] EXCEPT !.pc = "count"])

\* Fault: what is counted includes the entry of this check.
CountSelf(c, limit) ==
    /\ At(c, "count")
    /\ Goto(c, [check[c] EXCEPT !.pc =
           IF Cardinality(window[check[c].k]) + 1 >= limit THEN "addOver" ELSE "addUnder"])
    /\ UNCHANGED window

\* Fault: one more than the limit is let through.
CountOver(c, limit) ==
    /\ At(c, "count")
    /\ Goto(c, [check[c] EXCEPT !.pc =
           IF Cardinality(window[check[c].k]) > limit THEN "addOver" ELSE "addUnder"])
    /\ UNCHANGED window

Count(c, limit) ==
    /\ At(c, "count")
    /\ Goto(c, [check[c] EXCEPT !.pc =
           IF Cardinality(window[check[c].k]) >= limit THEN "addOver" ELSE "addUnder"])
    /\ UNCHANGED window

Add(c) ==
    /\ At(c, "addOver") \/ At(c, "addUnder")
    /\ window' = [window EXCEPT ![check[c].k] = @ \cup {check[c].entry}]
    /\ Goto(c, [check[c] EXCEPT !.pc = IF At(c, "addOver") THEN "remove" ELSE "allowed"])

Remove(c) ==
    /\ At(c, "remove")
    /\ window' = [window EXCEPT ![check[c].k] = @ \ {check[c].entry}]
    /\ Goto(c, [check[c] EXCEPT !.pc = "refused"])

\* Redis fails and the check says yes; what it added stays.
FailOpen(c) ==
    /\ \E pc \in {"prune", "count", "addOver", "addUnder", "remove"} : At(c, pc)
    /\ check' = [check EXCEPT ![c] = [@ EXCEPT !.pc = "allowed"]]
    /\ broken' = broken \cup {check[c].k}
    /\ UNCHANGED <<now, window, started, raced, slow>>

CheckPcs == {"prune", "count", "addOver", "addUnder", "remove", "allowed", "refused"}
=============================================================================
