--------------------------- MODULE ExchangeRates ---------------------------
(***************************************************************************)
(* An exchange rate and its copy in Redis: exchange-rates.service.ts.      *)
(*                                                                         *)
(* A request reads the copy, or fetches the rate from the public service   *)
(* and writes the copy with a time to live.  Requests that miss overlap,   *)
(* and nothing limits how long a fetch takes.  The rates of a market and   *)
(* the FIX rate are read in the same way; here there is one.               *)
(***************************************************************************)
EXTENDS Integers

CONSTANTS
    Readers,        \* requests in progress at once
    TTL,            \* MARKET_CACHE_TTL or FIX_CACHE_TTL, in ticks
    MaxTime,        \* bound: ticks
    MaxRates,       \* bound: rates published after the first
    MaxReads        \* bound: requests begun

VARIABLES
    now,        \* the clock
    current,    \* the number of the published rate
    ended,      \* history: ended[n], when rate n was replaced
    copy,       \* the copy in Redis, a rate and when it expires, or NoCopy
    reader,     \* reader[r]: the request r
    reads,      \* requests begun
    newest,     \* history: the newest rate answered
    slowest,    \* history: the longest time a rate was held before it was copied
    mixed       \* history: two requests fetched at once, or Redis failed one

vars == <<now, current, ended, copy, reader, reads, newest, slowest, mixed>>

NoCopy == [rate |-> "none"]
Idle == [pc |-> "idle"]
Rates == 0..MaxRates
Larger(a, b) == IF a > b THEN a ELSE b

TypeOK ==
    /\ now \in 0..MaxTime
    /\ current \in Rates /\ newest \in Rates
    /\ ended \in [Rates -> 0..MaxTime]
    /\ copy \in [rate : Rates, expires : 1..(MaxTime + TTL)] \cup {NoCopy}
    /\ reader \in [Readers -> [pc : {"get", "fetch"}] \cup [pc : {"set"}, rate : Rates, at : 0..MaxTime]
                                \cup [pc : {"answer"}, rate : Rates, cached : BOOLEAN] \cup {Idle}]
    /\ reads \in 0..MaxReads
    /\ slowest \in 0..MaxTime
    /\ mixed \in BOOLEAN

Init ==
    /\ now = 0 /\ current = 0
    /\ ended = [n \in Rates |-> 0]
    /\ copy = NoCopy
    /\ reader = [r \in Readers |-> Idle]
    /\ reads = 0 /\ newest = 0 /\ slowest = 0
    /\ mixed = FALSE

At(r, pc) == reader[r].pc = pc
Goto(r, record) == reader' = [reader EXCEPT ![r] = record]
Missed == {q \in Readers : At(q, "fetch") \/ At(q, "set")}

\* Redis drops the copy when its time has come.
Tick ==
    /\ now < MaxTime
    /\ now' = now + 1
    /\ copy' = IF copy # NoCopy /\ copy.expires <= now + 1 THEN NoCopy ELSE copy
    /\ UNCHANGED <<current, ended, reader, reads, newest, slowest, mixed>>

\* The service publishes another rate.
Publish ==
    /\ current < MaxRates
    /\ current' = current + 1
    /\ ended' = [ended EXCEPT ![current] = now]
    /\ UNCHANGED <<now, copy, reader, reads, newest, slowest, mixed>>

BeginRead(r) ==
    /\ reader[r] = Idle
    /\ reads < MaxReads
    /\ reads' = reads + 1
    /\ Goto(r, [pc |-> "get"])
    /\ UNCHANGED <<now, current, ended, copy, newest, slowest, mixed>>

Miss(r) == Goto(r, [pc |-> "fetch"])

\* GET: a copy is the answer; without one, or when Redis fails, the rate is fetched.
Get(r) ==
    /\ At(r, "get")
    /\ IF copy = NoCopy THEN Miss(r) ELSE Goto(r, [pc |-> "answer", rate |-> copy.rate, cached |-> TRUE])
    /\ mixed' = (mixed \/ (copy = NoCopy /\ Missed # {}))
    /\ UNCHANGED <<now, current, ended, copy, reads, newest, slowest>>

GetFails(r) ==
    /\ At(r, "get")
    /\ Miss(r)
    /\ mixed' = TRUE
    /\ UNCHANGED <<now, current, ended, copy, reads, newest, slowest>>

Fetch(r) ==
    /\ At(r, "fetch")
    /\ Goto(r, [pc |-> "set", rate |-> current, at |-> now])
    /\ UNCHANGED <<now, current, ended, copy, reads, newest, slowest, mixed>>

\* The service does not answer, or with an error: so does the request.
FetchFails(r) ==
    /\ At(r, "fetch")
    /\ Goto(r, Idle)
    /\ UNCHANGED <<now, current, ended, copy, reads, newest, slowest, mixed>>

\* Fault: the copy is written without a time to live.
SetForever(r) ==
    LET q == reader[r] IN
    /\ At(r, "set")
    /\ copy' = [rate |-> q.rate, expires |-> MaxTime + TTL]
    /\ slowest' = Larger(slowest, now - q.at)
    /\ Goto(r, [pc |-> "answer", rate |-> q.rate, cached |-> FALSE])
    /\ UNCHANGED <<now, current, ended, reads, newest, mixed>>

\* SET ... EX
Set(r) ==
    LET q == reader[r] IN
    /\ At(r, "set")
    /\ copy' = [rate |-> q.rate, expires |-> now + TTL]
    /\ slowest' = Larger(slowest, now - q.at)
    /\ Goto(r, [pc |-> "answer", rate |-> q.rate, cached |-> FALSE])
    /\ UNCHANGED <<now, current, ended, reads, newest, mixed>>

\* Redis fails and the request is answered without a copy.
SetFails(r) ==
    /\ At(r, "set")
    /\ Goto(r, [pc |-> "answer", rate |-> reader[r].rate, cached |-> FALSE])
    /\ mixed' = TRUE
    /\ UNCHANGED <<now, current, ended, copy, reads, newest, slowest>>

Answer(r) ==
    /\ At(r, "answer")
    /\ newest' = Larger(newest, reader[r].rate)
    /\ Goto(r, Idle)
    /\ UNCHANGED <<now, current, ended, copy, reads, slowest, mixed>>

Next ==
    \/ Tick \/ Publish
    \/ \E r \in Readers :
        \/ BeginRead(r) \/ Get(r) \/ GetFails(r) \/ Fetch(r) \/ FetchFails(r)
        \/ Set(r) \/ SetFails(r) \/ Answer(r)

Spec == Init /\ [][Next]_vars

(***************************************************************************)
(* Properties.                                                             *)
(***************************************************************************)

\* A copy is never older than it may be: its rate was in force within the last TTL
\* and the longest time a request held a rate before it wrote the copy, which
\* nothing limits (fetch has no timeout).
CopyIsRecent ==
    copy # NoCopy =>
        copy.rate = current \/ ended[copy.rate] > now - TTL - slowest - 1

\* A copy is not replaced by an older rate (getFixRate and getMarketRates write
\* what they fetched, whatever is there by then), unless two requests fetched
\* at once or Redis failed one.
CopyGoesForward ==
    copy # NoCopy /\ ~mixed => copy.rate >= newest
=============================================================================
