------------------------------ MODULE Lockout ------------------------------
(***************************************************************************)
(* The account lockout in main.ts: sign-ins of an e-mail address look at   *)
(* the failures counted in the last window, and count their own after they *)
(* were answered; a success clears the count.  Neither is awaited.         *)
(***************************************************************************)
EXTENDS SlidingWindow

CONSTANT LOCKOUT_THRESHOLD

VARIABLE
    failures    \* history: failures[k], failed sign-ins since the last reset

vars == <<limiter, failures>>

TypeOK ==
    /\ WindowTypeOK(CheckPcs \cup {"peekPrune", "peekCount", "locked", "handler", "reset"}, {"nothing"})
    /\ failures \in [Keys -> SUBSET Entries]

Init == WindowInit /\ failures = [k \in Keys |-> {}]

BeginSignIn(c, k) ==
    /\ Begin(c, k, "peekPrune", "nothing")
    /\ UNCHANGED failures

PeekPrune(c) ==
    /\ At(c, "peekPrune")
    /\ window' = [window EXCEPT ![check[c].k] = Live(check[c].k, check[c].entry.at)]
    /\ Goto(c, [check[c] EXCEPT !.pc = "peekCount"])
    /\ UNCHANGED failures

\* Fault: the attempt after the last allowed one is let through.
PeekCountLate(c) ==
    /\ At(c, "peekCount")
    /\ Goto(c, [check[c] EXCEPT !.pc =
           IF Cardinality(window[check[c].k]) > LOCKOUT_THRESHOLD THEN "locked" ELSE "handler"])
    /\ UNCHANGED <<window, failures>>

PeekCount(c) ==
    /\ At(c, "peekCount")
    /\ Goto(c, [check[c] EXCEPT !.pc =
           IF Cardinality(window[check[c].k]) >= LOCKOUT_THRESHOLD THEN "locked" ELSE "handler"])
    /\ UNCHANGED <<window, failures>>

\* peek fails and answers 0.
PeekFails(c) ==
    /\ At(c, "peekPrune") \/ At(c, "peekCount")
    /\ check' = [check EXCEPT ![c] = [@ EXCEPT !.pc = "handler"]]
    /\ broken' = broken \cup {check[c].k}
    /\ UNCHANGED <<now, window, started, raced, slow, failures>>

Locked(c) ==
    /\ At(c, "locked")
    /\ Finish(c)
    /\ UNCHANGED failures

\* The answer is an error: it is counted with check, which nobody awaits.
SignInFails(c) ==
    LET entry == [at |-> now, id |-> check[c].entry.id] IN
    /\ At(c, "handler")
    /\ failures' = [failures EXCEPT ![check[c].k] = @ \cup {entry}]
    /\ Goto(c, [check[c] EXCEPT !.pc = "prune", !.entry = entry])
    /\ UNCHANGED window

SignInSucceeds(c) ==
    /\ At(c, "handler")
    /\ Goto(c, [check[c] EXCEPT !.pc = "reset"])
    /\ UNCHANGED <<window, failures>>

\* Fault: a success clears nothing.
ResetNothing(c) ==
    /\ At(c, "reset")
    /\ failures' = [failures EXCEPT ![check[c].k] = {}]
    /\ Finish(c)

Reset(c) ==
    /\ At(c, "reset")
    /\ window' = [window EXCEPT ![check[c].k] = {}]
    /\ failures' = [failures EXCEPT ![check[c].k] = {}]
    /\ Goto(c, Idle)

ResetFails(c) ==
    /\ At(c, "reset")
    /\ check' = [check EXCEPT ![c] = Idle]
    /\ broken' = broken \cup {check[c].k}
    /\ UNCHANGED <<now, window, started, raced, slow, failures>>

\* An answer that is neither, or a handler that fails without an answer.
SignInEnds(c) ==
    /\ At(c, "handler")
    /\ Finish(c)
    /\ UNCHANGED failures

\* Nobody looks at the answer of check.
Counted(c) ==
    /\ At(c, "allowed") \/ At(c, "refused")
    /\ Finish(c)
    /\ UNCHANGED failures

Next ==
    \/ Tick /\ UNCHANGED failures
    \/ \E c \in Checks, k \in Keys : BeginSignIn(c, k)
    \/ \E c \in Checks :
        \/ PeekPrune(c) \/ PeekCount(c) \/ PeekFails(c) \/ Locked(c)
        \/ SignInFails(c) \/ SignInSucceeds(c) \/ SignInEnds(c)
        \/ Reset(c) \/ ResetFails(c) \/ Counted(c)
        \/ (Prune(c) \/ Count(c, LOCKOUT_THRESHOLD + 10) \/ Add(c) \/ Remove(c) \/ FailOpen(c))
               /\ UNCHANGED failures

Spec == Init /\ [][Next]_vars

(***************************************************************************)
(* Properties.                                                             *)
(***************************************************************************)

Failed(k, t) == {e \in failures[k] : e.at > t - Window /\ e.at <= t}

\* The lockout holds and is deserved (the peek in main.ts): without overlapping
\* sign-ins of the address and with Redis up, a sign-in reaches the handler
\* exactly when fewer than the threshold failed in the window before it, since
\* the last success.
LockoutHolds ==
    \A c \in Checks :
        (At(c, "handler") \/ At(c, "locked")) /\ check[c].k \notin raced \cup broken =>
            (At(c, "locked") <=>
                Cardinality(Failed(check[c].k, check[c].entry.at)) >= LOCKOUT_THRESHOLD)

\* Failures are read before an attempt and counted after it: concurrent sign-ins
\* fail more often than the threshold in a window without a success, but only by
\* as many as are under way, those counted after their answer included.
ExtraFailuresAreConcurrent ==
    \A k \in Keys \ broken, t \in 0..MaxTime :
        Cardinality(Failed(k, t)) <= LOCKOUT_THRESHOLD + Cardinality(Checks) - 1
=============================================================================
