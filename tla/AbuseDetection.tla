--------------------------- MODULE AbuseDetection ---------------------------
(***************************************************************************)
(* The abuse score of an address or a user: abuse-detection.service.ts.    *)
(*                                                                         *)
(* A signal is a member of a sorted set in Redis, named by its action and  *)
(* its millisecond; the score adds the weights of the members of the last  *)
(* hour, and a high score writes a flag that the guard reads until it      *)
(* expires or an administrator clears it.  Recording is awaited by nobody, *)
(* so recordings overlap; each of its commands is an action.               *)
(***************************************************************************)
EXTENDS Integers, FiniteSetsExt

CONSTANTS
    Signals,        \* the actions reported, of those that have a weight
    Recordings,     \* calls of recordSignal in progress at once
    Window,         \* DECAY_WINDOW_MS, in ticks; a block lasts one tick
    MaxTime,        \* bound: ticks
    MaxRecorded     \* bound: signals recorded

VARIABLES
    now,        \* the clock
    signals,    \* abuse:signals: members, [action, at]
    blocked,    \* abuse:blocked: the tick at which it was set, or NotBlocked
    recording,  \* recording[c]: the call c
    reported,   \* history: every signal since the last unblock, [action, at, id]
    recorded,   \* signals recorded, for the bound
    raced,      \* history: recordings overlapped, or an unblock met one
    broken      \* history: Redis failed a recording

vars == <<now, signals, blocked, recording, reported, recorded, raced, broken>>

SCORE_WEIGHTS ==
    [rate_limit_hit |-> 10, auth_failure |-> 15, validation_error |-> 5, forbidden |-> 20,
     suspicious_ua |-> 25, rapid_fire |-> 30, account_lockout |-> 40]
BLOCK_THRESHOLD == 80

NotBlocked == -1
Idle == [pc |-> "idle"]

\* calculateScore; the cap of 100 lies above every threshold.
Score(members) == MapThenSumSet(LAMBDA m : SCORE_WEIGHTS[m.action], members)

TypeOK ==
    /\ now \in 0..MaxTime
    /\ signals \subseteq [action : Signals, at : 0..MaxTime]
    /\ blocked \in {NotBlocked} \cup 0..MaxTime
    /\ recording \in [Recordings -> {Idle}
           \cup [pc : {"add", "prune", "score", "block"}, action : Signals, at : 0..MaxTime]]
    /\ reported \subseteq [action : Signals, at : 0..MaxTime, id : 1..MaxRecorded]
    /\ recorded \in 0..MaxRecorded
    /\ raced \in BOOLEAN /\ broken \in BOOLEAN

Init ==
    /\ now = 0
    /\ signals = {}
    /\ blocked = NotBlocked
    /\ recording = [c \in Recordings |-> Idle]
    /\ reported = {}
    /\ recorded = 0
    /\ raced = FALSE /\ broken = FALSE

At(c, pc) == recording[c].pc = pc
Goto(c, record) == recording' = [recording EXCEPT ![c] = record]
Quiet == \A c \in Recordings : recording[c] = Idle

\* A block flag is gone after fifteen minutes, well within the hour of the signals.
Tick ==
    /\ now < MaxTime
    /\ now' = now + 1
    /\ blocked' = IF blocked < now THEN NotBlocked ELSE blocked
    /\ UNCHANGED <<signals, recording, reported, recorded, raced, broken>>

BeginRecord(c, action) ==
    /\ recording[c] = Idle
    /\ recorded < MaxRecorded
    /\ recorded' = recorded + 1
    /\ Goto(c, [pc |-> "add", action |-> action, at |-> now])
    /\ reported' = reported \cup {[action |-> action, at |-> now, id |-> recorded + 1]}
    /\ raced' = (raced \/ ~Quiet)
    /\ UNCHANGED <<now, signals, blocked, broken>>

Add(c) ==
    LET q == recording[c] IN
    /\ At(c, "add")
    /\ signals' = signals \cup {[action |-> q.action, at |-> q.at]}
    /\ Goto(c, [q EXCEPT !.pc = "prune"])
    /\ UNCHANGED <<now, blocked, reported, recorded, raced, broken>>

\* Fault: nothing is old.
PruneNothing(c) ==
    /\ At(c, "prune")
    /\ Goto(c, [recording[c] EXCEPT !.pc = "score"])
    /\ UNCHANGED <<now, signals, blocked, reported, recorded, raced, broken>>

Prune(c) ==
    LET q == recording[c] IN
    /\ At(c, "prune")
    /\ signals' = {m \in signals : m.at + Window > q.at}
    /\ Goto(c, [q EXCEPT !.pc = "score"])
    /\ UNCHANGED <<now, blocked, reported, recorded, raced, broken>>

\* Fault: the threshold itself does not block.
ReadScoreAbove(c) ==
    LET q == recording[c] IN
    /\ At(c, "score")
    /\ Goto(c, IF Score(signals) > BLOCK_THRESHOLD THEN [q EXCEPT !.pc = "block"] ELSE Idle)
    /\ UNCHANGED <<now, signals, blocked, reported, recorded, raced, broken>>

ReadScore(c) ==
    LET q == recording[c] IN
    /\ At(c, "score")
    /\ Goto(c, IF Score(signals) >= BLOCK_THRESHOLD THEN [q EXCEPT !.pc = "block"] ELSE Idle)
    /\ UNCHANGED <<now, signals, blocked, reported, recorded, raced, broken>>

Block(c) ==
    /\ At(c, "block")
    /\ blocked' = now
    /\ Goto(c, Idle)
    /\ UNCHANGED <<now, signals, reported, recorded, raced, broken>>

\* A command fails: the signal and what follows of it are dropped.
RecordFails(c) ==
    /\ recording[c] # Idle
    /\ Goto(c, Idle)
    /\ broken' = TRUE
    /\ UNCHANGED <<now, signals, blocked, reported, recorded, raced>>

\* One DEL of both keys.
Unblock ==
    /\ blocked' = NotBlocked
    /\ signals' = {}
    /\ reported' = {}
    /\ raced' = (raced \/ ~Quiet)
    /\ UNCHANGED <<now, recording, recorded, broken>>

Next ==
    \/ Tick \/ Unblock
    \/ \E c \in Recordings, action \in Signals : BeginRecord(c, action)
    \/ \E c \in Recordings : Add(c) \/ Prune(c) \/ ReadScore(c) \/ Block(c) \/ RecordFails(c)

Spec == Init /\ [][Next]_vars

(***************************************************************************)
(* Properties.                                                             *)
(***************************************************************************)

Recent(t) == {m \in reported : m.at <= t /\ m.at + Window > t}

\* Nobody is blocked for less than was reported (recordSignal): a block flag
\* means that the signals of some hour since the last unblock add up to the
\* threshold, unless recordings overlapped or an unblock met one.
BlockIsEarned ==
    ~raced => (blocked # NotBlocked =>
        \E t \in 0..now : Score(Recent(t)) >= BLOCK_THRESHOLD)

\* ... and who reported as much is blocked: when every recording was alone and
\* Redis up, a recording whose hour adds up to the threshold leaves the flag
\* set.  Signals of one action in one millisecond count once (the member that
\* zadd writes).
ThresholdBlocks ==
    (Quiet /\ ~raced /\ ~broken) =>
        \A m \in reported :
            LET distinct == {[action |-> n.action, at |-> n.at] :
                                n \in {o \in Recent(m.at) : o.id <= m.id}} IN
            (m.at = now /\ Score(distinct) >= BLOCK_THRESHOLD) => blocked # NotBlocked
=============================================================================
