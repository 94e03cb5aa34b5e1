--------------------------- MODULE EventTracking ---------------------------
(***************************************************************************)
(* The buffer of product events: event-tracking.service.ts.                *)
(*                                                                         *)
(* track and trackMany push events on a Redis list; flush, which a timer   *)
(* of every instance, a full buffer and the shutdown start at any time,    *)
(* pops up to a batch one by one and inserts it.  The same eventId can be  *)
(* sent again, so what is in the list are copies, numbered as they are     *)
(* pushed.  A failure or the end of a process loses what it holds.         *)
(***************************************************************************)
EXTENDS Naturals, FiniteSets, SequencesExt

CONSTANTS
    Events,         \* eventIds
    Trackers,       \* calls of track in progress at once
    Flushers,       \* calls of flush in progress at once
    MaxBatch,       \* MAX_BATCH_SIZE
    MaxBuffer,      \* MAX_BUFFER_SIZE
    MaxPushed       \* bound: copies pushed

ASSUME LimitsAssumption ==
    MaxBatch \in Nat \ {0} /\ MaxBuffer \in Nat /\ MaxPushed \in Nat

VARIABLES
    pushed,     \* history: pushed[n], the event of copy n
    buffer,     \* the Redis list, oldest copy first
    tracker,    \* tracker[t]: the call t of track
    flusher,    \* flusher[f]: the call f of flush
    rows,       \* rows[e]: the copy product_events holds of e, 0 without a row
    settled,    \* history: copies an insert that succeeded was given
    lost        \* history: copies lost

vars == <<pushed, buffer, tracker, flusher, rows, settled, lost>>

Idle == [pc |-> "idle"]
Copies == 1..MaxPushed

TypeOK ==
    /\ pushed \in BoundedSeq(Events, MaxPushed)
    /\ buffer \in BoundedSeq(Copies, MaxPushed)
    /\ tracker \in [Trackers -> [pc : {"pushed", "trim"}, size : Copies] \cup {Idle}]
    /\ flusher \in [Flushers -> {Idle} \cup
           [pc : {"pop", "insert"}, batch : BoundedSeq(Copies, MaxBatch)]]
    /\ rows \in [Events -> 0..MaxPushed]
    /\ settled \cup lost \subseteq Copies

Init ==
    /\ pushed = <<>> /\ buffer = <<>>
    /\ tracker = [t \in Trackers |-> Idle]
    /\ flusher = [f \in Flushers |-> Idle]
    /\ rows = [e \in Events |-> 0]
    /\ settled = {} /\ lost = {}

Batch(f) == IF flusher[f] = Idle THEN <<>> ELSE flusher[f].batch
Held == UNION {ToSet(Batch(f)) : f \in Flushers}
Waiting == ToSet(buffer) \cup Held

(***************************************************************************)
(* Tracking.                                                               *)
(***************************************************************************)

Push(events) ==
    /\ Len(pushed) + Len(events) <= MaxPushed
    /\ pushed' = pushed \o events
    /\ buffer' = buffer \o [i \in 1..Len(events) |-> Len(pushed) + i]

\* The LPUSH of track, which answers the length of the list.
Track(t, e) ==
    /\ tracker[t] = Idle
    /\ Push(<<e>>)
    /\ tracker' = [tracker EXCEPT ![t] = [pc |-> "pushed", size |-> Len(buffer) + 1]]
    /\ UNCHANGED <<flusher, rows, settled, lost>>

TrackMany(events) ==
    /\ Push(events)
    /\ UNCHANGED <<tracker, flusher, rows, settled, lost>>

\* The answer of LPUSH: a flush that nobody awaits, and a trim.
Answer(t, f) ==
    LET full == tracker[t].size >= MaxBatch
        over == tracker[t].size > MaxBuffer IN
    /\ tracker[t].pc = "pushed"
    /\ flusher[f] = Idle
    /\ flusher' = IF full THEN [flusher EXCEPT ![f] = [pc |-> "pop", batch |-> <<>>]] ELSE flusher
    /\ tracker' = [tracker EXCEPT ![t] = IF over THEN [@ EXCEPT !.pc = "trim"] ELSE Idle]
    /\ UNCHANGED <<pushed, buffer, rows, settled, lost>>

\* Fault: the trim keeps the oldest.
TrimNewest(t) ==
    LET size == IF Len(buffer) < MaxBuffer THEN Len(buffer) ELSE MaxBuffer IN
    /\ tracker[t].pc = "trim"
    /\ buffer' = SubSeq(buffer, 1, size)
    /\ lost' = lost \cup (ToSet(buffer) \ ToSet(buffer'))
    /\ tracker' = [tracker EXCEPT ![t] = Idle]
    /\ UNCHANGED <<pushed, flusher, rows, settled>>

\* LTRIM keeps the newest, as many as fit when it runs.
Trim(t) ==
    LET size == IF Len(buffer) < MaxBuffer THEN Len(buffer) ELSE MaxBuffer IN
    /\ tracker[t].pc = "trim"
    /\ buffer' = SubSeq(buffer, Len(buffer) - size + 1, Len(buffer))
    /\ lost' = lost \cup (ToSet(buffer) \ ToSet(buffer'))
    /\ tracker' = [tracker EXCEPT ![t] = Idle]
    /\ UNCHANGED <<pushed, flusher, rows, settled>>

(***************************************************************************)
(* Flushing.                                                               *)
(***************************************************************************)

\* The timer or the shutdown.  A flush of an empty list does nothing; one that
\* finds something to pop is the same as one begun then.
BeginFlush(f) ==
    /\ flusher[f] = Idle
    /\ buffer # <<>>
    /\ flusher' = [flusher EXCEPT ![f] = [pc |-> "pop", batch |-> <<>>]]
    /\ UNCHANGED <<pushed, buffer, tracker, rows, settled, lost>>

\* Fault: the batch is read and then removed.
PopCopied(f) ==
    LET batch == Append(Batch(f), Head(buffer)) IN
    /\ flusher[f].pc = "pop"
    /\ buffer # <<>>
    /\ flusher' = [flusher EXCEPT ![f] = [pc |-> "insert", batch |-> batch]]
    /\ UNCHANGED <<pushed, buffer, tracker, rows, settled, lost>>

\* Fault: nothing is inserted of a batch that is not full.
PopFullOnly(f) ==
    LET batch == Append(Batch(f), Head(buffer)) IN
    /\ flusher[f].pc = "pop"
    /\ buffer # <<>>
    /\ buffer' = Tail(buffer)
    /\ flusher' = [flusher EXCEPT ![f] =
           [pc |-> IF Len(batch) = MaxBatch THEN "insert" ELSE "pop", batch |-> batch]]
    /\ UNCHANGED <<pushed, tracker, rows, settled, lost>>

\* One RPOP.  An empty list or a full batch ends the loop.
Pop(f) ==
    LET batch == IF buffer = <<>> THEN Batch(f) ELSE Append(Batch(f), Head(buffer))
        last == buffer = <<>> \/ Len(batch) = MaxBatch IN
    /\ flusher[f].pc = "pop"
    /\ buffer' = IF buffer = <<>> THEN <<>> ELSE Tail(buffer)
    /\ flusher' = [flusher EXCEPT ![f] = IF batch = <<>> THEN Idle
                   ELSE [pc |-> IF last THEN "insert" ELSE "pop", batch |-> batch]]
    /\ UNCHANGED <<pushed, tracker, rows, settled, lost>>

First(e, batch) == CHOOSE i \in DOMAIN batch :
    pushed[batch[i]] = e /\ \A j \in 1..(i - 1) : pushed[batch[j]] # e
InBatch(e, batch) == \E i \in DOMAIN batch : pushed[batch[i]] = e

\* Fault: a later copy replaces the row.
InsertReplaces(f) ==
    LET batch == Batch(f) IN
    /\ flusher[f].pc = "insert"
    /\ rows' = [e \in Events |-> IF InBatch(e, batch) THEN batch[First(e, batch)] ELSE rows[e]]
    /\ settled' = settled \cup ToSet(batch)
    /\ flusher' = [flusher EXCEPT ![f] = Idle]
    /\ UNCHANGED <<pushed, buffer, tracker, lost>>

\* Fault: one insert for each event, and the second fails.
InsertOneByOne(f) ==
    LET batch == Batch(f) IN
    /\ flusher[f].pc = "insert"
    /\ rows' = IF rows[pushed[batch[1]]] = 0 THEN [rows EXCEPT ![pushed[batch[1]]] = batch[1]] ELSE rows
    /\ settled' = settled \cup {batch[1]}
    /\ lost' = lost \cup ToSet(Tail(batch))
    /\ flusher' = [flusher EXCEPT ![f] = Idle]
    /\ UNCHANGED <<pushed, buffer, tracker>>

\* INSERT ... ON CONFLICT (event_id) DO NOTHING
Insert(f) ==
    LET batch == Batch(f) IN
    /\ flusher[f].pc = "insert"
    /\ rows' = [e \in Events |-> IF rows[e] = 0 /\ InBatch(e, batch)
                                 THEN batch[First(e, batch)] ELSE rows[e]]
    /\ settled' = settled \cup ToSet(batch)
    /\ flusher' = [flusher EXCEPT ![f] = Idle]
    /\ UNCHANGED <<pushed, buffer, tracker, lost>>

\* An RPOP or the insert fails, or the process ends: the batch is gone.
FlushFails(f) ==
    /\ flusher[f] # Idle
    /\ lost' = lost \cup ToSet(Batch(f))
    /\ flusher' = [flusher EXCEPT ![f] = Idle]
    /\ UNCHANGED <<pushed, buffer, tracker, rows, settled>>

\* The process ends before the answer, or the LTRIM fails.  An LPUSH that fails
\* leaves nothing behind.
TrackFails(t) ==
    /\ tracker[t] # Idle
    /\ tracker' = [tracker EXCEPT ![t] = Idle]
    /\ UNCHANGED <<pushed, buffer, flusher, rows, settled, lost>>

Next ==
    \/ \E t \in Trackers, e \in Events : Track(t, e)
    \/ \E e1, e2 \in Events : TrackMany(<<e1, e2>>)
    \/ \E t \in Trackers, f \in Flushers : Answer(t, f)
    \/ \E t \in Trackers : Trim(t) \/ TrackFails(t)
    \/ \E f \in Flushers : BeginFlush(f) \/ Pop(f) \/ Insert(f) \/ FlushFails(f)

Spec == Init /\ [][Next]_vars

\* The timer of an instance that is up keeps firing, the event loop runs the
\* handlers it has begun, and Redis does not fail every RPOP for ever.
Fairness ==
    /\ WF_vars(\E f \in Flushers : BeginFlush(f))
    /\ SF_vars(\E f \in Flushers : Pop(f))
    /\ \A f \in Flushers : WF_vars(Insert(f))

FairSpec == Spec /\ Fairness

(***************************************************************************)
(* Properties.                                                             *)
(***************************************************************************)

\* Every copy is in one place (flush): overlapping flushes never take the same
\* copy and none vanishes between them; it waits in the list, is held by one
\* flush, was inserted, or was lost to a failure or a trim.  In the list and in a
\* batch copies stand once, in the order they were pushed.
InOrder(copies) == \A i, j \in DOMAIN copies : i < j => copies[i] < copies[j]
TakenOnce ==
    /\ DOMAIN pushed = Waiting \cup settled \cup lost
    /\ InOrder(buffer) /\ \A f \in Flushers : InOrder(Batch(f))
    /\ ToSet(buffer) \cap Held = {}
    /\ \A f, g \in Flushers : f # g => ToSet(Batch(f)) \cap ToSet(Batch(g)) = {}
    /\ Waiting \cap (settled \cup lost) = {} /\ settled \cap lost = {}

\* A full list loses its oldest events only (track's LTRIM, on a length read
\* before): what a trim removes is older than all it leaves, and it leaves as
\* many as the limit, however the list changed since the length was read.
TrimsToLimit ==
    [][\A t \in Trackers : (tracker[t] # Idle /\ tracker[t].pc = "trim" /\ lost' # lost) =>
         \A n \in lost' \ lost : n \in ToSet(buffer) =>
             /\ Len(buffer') = MaxBuffer
             /\ \A m \in ToSet(buffer') : n < m]_vars

\* The writer keeps the promise of AtMostOnce: an event is stored once and stays
\* stored, a batch is stored or lost as a whole, and what is lost is as if it had
\* never been sent.
Place(e) ==
    IF rows[e] # 0 THEN "stored"
    ELSE IF \E n \in Waiting : pushed[n] = e THEN "pending" ELSE "outside"
Promise == INSTANCE AtMostOnce WITH Items <- Events, place <- [e \in Events |-> Place(e)]
StoresAtMostOnce == Promise!Spec

\* The first copy of an event that is inserted is the one kept.
FirstCopyStays == [][\A e \in Events : rows[e] # 0 => rows'[e] = rows[e]]_vars

\* A full buffer loses its oldest events only, and of copies the first one stays
\* (LTRIM, ON CONFLICT DO NOTHING).
OldestLostFirstKept == TrimsToLimit /\ FirstCopyStays

\* No event waits for ever in the list or in a batch.
EventsArrive == Promise!Settles
=============================================================================
