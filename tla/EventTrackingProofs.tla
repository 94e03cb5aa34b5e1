------------------------ MODULE EventTrackingProofs ------------------------
(***************************************************************************)
(* Proofs about EventTracking, for any events, any number of calls of track *)
(* and flush, and any sizes of the batch and the buffer.                   *)
(***************************************************************************)
EXTENDS EventTracking, FiniteSetTheorems, TLAPS

(***************************************************************************)
(* The inductive invariant.                                                *)
(***************************************************************************)

\* The list is always the newest copies, without a gap: pushes append, and pops
\* and trims take the oldest.
Taken == Len(pushed) - Len(buffer)
BufferInv ==
    /\ Len(buffer) <= Len(pushed)
    /\ \A i \in 1..Len(buffer) : buffer[i] = Taken + i

\* The copies that left it are each held by one flush, in order, or settled, or lost.
TakenInv ==
    /\ Held \cup settled \cup lost = 1..Taken
    /\ \A f, g \in Flushers : f # g => ToSet(Batch(f)) \cap ToSet(Batch(g)) = {}
    /\ Held \cap (settled \cup lost) = {} /\ settled \cap lost = {}
    /\ \A f \in Flushers : InOrder(Batch(f))

\* A flush that still pops has room in its batch.
RoomInv == \A f \in Flushers : flusher[f].pc = "pop" => Len(flusher[f].batch) < MaxBatch

Inv == TypeOK /\ BufferInv /\ TakenInv /\ RoomInv

(***************************************************************************)
(* Lemmas about sequences.                                                 *)
(***************************************************************************)

\* A set of naturals has a least element.
LEMMA Least ==
    ASSUME NEW K \in SUBSET Nat, K # {}
    PROVE  \E k \in K : \A j \in K : k <= j
<1> DEFINE Ts == {1..k : k \in K}
<1>1. \A k \in K : 1..k \in SUBSET Nat /\ IsFiniteSet(1..k)
      BY FS_Interval
<1>2. Ts \subseteq FiniteSubsetsOf(Nat) /\ Ts # {}
      BY <1>1 DEF FiniteSubsetsOf
<1>3. IsWellFoundedOn(StrictSubsetOrdering(Nat), FiniteSubsetsOf(Nat))
      BY FS_StrictSubsetOrderingWellFounded
<1>4. PICK x \in Ts : \A y \in Ts : <<y, x>> \notin StrictSubsetOrdering(Nat)
  <2> HIDE DEF Ts
  <2> QED BY <1>2, <1>3, WFMin
<1>5. PICK k \in K : x = 1..k
      OBVIOUS
<1>6. ASSUME NEW j \in K, j < k
      PROVE  FALSE
  <2>1. 1..j \subseteq 1..k /\ 1..j # 1..k
        BY <1>6
  <2>2. <<1..j, x>> \in StrictSubsetOrdering(Nat)
        BY <1>5, <2>1 DEF StrictSubsetOrdering
  <2> QED BY <1>4, <2>2
<1> QED BY <1>6

\* Bounded sequences are the sequences that are not longer than the bound.
LEMMA Bounded ==
    ASSUME NEW S, NEW n \in Nat
    PROVE  \A s : s \in BoundedSeq(S, n) <=> s \in Seq(S) /\ Len(s) <= n
<1>1. \A s : s \in BoundedSeq(S, n) => s \in Seq(S) /\ Len(s) <= n
      BY DEF BoundedSeq, SeqOf
<1>2. ASSUME NEW s \in Seq(S), Len(s) <= n
      PROVE  s \in BoundedSeq(S, n)
  <2>1. Len(s) \in 0..n /\ s \in [1..Len(s) -> S]
        BY <1>2
  <2> QED BY <2>1 DEF BoundedSeq, SeqOf
<1> QED BY <1>1, <1>2

\* Appending adds an element; taking the head leaves the others.
LEMMA AppendSet ==
    ASSUME NEW S, NEW s \in Seq(S), NEW x
    PROVE  ToSet(Append(s, x)) = ToSet(s) \cup {x}
BY DEF ToSet

\* Concatenation.
LEMMA Concat ==
    ASSUME NEW S, NEW s \in Seq(S), NEW u \in Seq(S)
    PROVE  /\ s \o u \in Seq(S) /\ Len(s \o u) = Len(s) + Len(u)
           /\ \A i \in 1..Len(s \o u) : (s \o u)[i] = IF i <= Len(s) THEN s[i] ELSE u[i - Len(s)]
OBVIOUS

\* The empty sequence has no elements.
LEMMA EmptySet == ToSet(<<>>) = {}
BY DEF ToSet

\* With an empty list and no flush the invariant holds.
LEMMA InitInv == Init => Inv
<1> SUFFICES ASSUME Init
             PROVE  Inv
    OBVIOUS
<1> USE LimitsAssumption DEF Init
<1>1. \A f \in Flushers : Batch(f) = <<>>
      BY DEF Batch
<1>2. Held = {}
      BY <1>1, EmptySet DEF Held
<1>3. TypeOK
  <2>1. ASSUME NEW S
        PROVE  <<>> \in BoundedSeq(S, MaxPushed)
    <3>1. <<>> \in Seq(S) /\ Len(<<>>) <= MaxPushed
          OBVIOUS
    <3> QED BY <3>1, Bounded
  <2> QED BY <2>1 DEF TypeOK
<1>4. BufferInv
      BY DEF BufferInv
<1>5. TakenInv
      BY <1>1, <1>2, EmptySet DEF TakenInv, Taken, InOrder
<1>6. RoomInv
      BY DEF RoomInv, Idle
<1> QED BY <1>3, <1>4, <1>5, <1>6 DEF Inv

(***************************************************************************)
(* What the state is made of.                                              *)
(***************************************************************************)

\* The types, with plain sequences.
LEMMA Sequences ==
    ASSUME TypeOK
    PROVE  /\ pushed \in Seq(Events) /\ Len(pushed) <= MaxPushed
           /\ buffer \in Seq(Copies)
           /\ \A f \in Flushers : Batch(f) \in Seq(Copies) /\ Len(Batch(f)) <= MaxBatch
<1> USE LimitsAssumption
<1>1. ASSUME NEW f \in Flushers
      PROVE  Batch(f) \in Seq(Copies) /\ Len(Batch(f)) <= MaxBatch
  <2>1. CASE flusher[f] = Idle
        BY <2>1 DEF Batch
  <2>2. CASE flusher[f] # Idle
    <3>1. flusher[f].batch \in BoundedSeq(Copies, MaxBatch)
          BY <2>2 DEF TypeOK
    <3> QED BY <2>2, <3>1, Bounded DEF Batch
  <2> QED BY <2>1, <2>2
<1> QED BY <1>1, Bounded DEF TypeOK

\* Of a flush: what its batch holds when it is busy.
LEMMA BusyBatch ==
    ASSUME TypeOK, NEW f \in Flushers
    PROVE  /\ flusher[f].pc \in {"pop", "insert"} => flusher[f] # Idle /\ Batch(f) = flusher[f].batch
           /\ flusher[f] = Idle => Batch(f) = <<>>
BY DEF Batch, Idle

\* A sequence of consecutive numbers.
LEMMA Consecutive ==
    ASSUME NEW S, NEW k \in Nat, NEW s \in Seq(S), \A i \in 1..Len(s) : s[i] = k + i
    PROVE  ToSet(s) = (k + 1)..(k + Len(s))
<1>1. Len(s) \in Nat /\ DOMAIN s = 1..Len(s)
      OBVIOUS
<1>2. \A n \in (k + 1)..(k + Len(s)) : n - k \in 1..Len(s) /\ s[n - k] = n
      BY <1>1
<1> QED BY <1>1, <1>2 DEF ToSet

\* The copies in the list are the newest.
LEMMA BufferSet ==
    ASSUME TypeOK, BufferInv
    PROVE  ToSet(buffer) = (Taken + 1)..Len(pushed) /\ Taken \in Nat
<1>1. buffer \in Seq(Copies) /\ pushed \in Seq(Events)
      BY Sequences
<1>2. Len(buffer) \in Nat /\ Len(pushed) \in Nat /\ Taken \in Nat /\ Taken + Len(buffer) = Len(pushed)
      BY <1>1 DEF BufferInv, Taken
<1> QED BY <1>1, <1>2, Consecutive DEF BufferInv

\* The copies flushes other than f hold.
Others(f) == UNION {ToSet(Batch(g)) : g \in Flushers \ {f}}

\* The batch of one flush and the batches of the others make up what flushes hold.
LEMMA HeldParts ==
    ASSUME NEW f \in Flushers
    PROVE  Held = Others(f) \cup ToSet(Batch(f))
BY DEF Held, Others

\* A step of one flush leaves the batches of the others.
LEMMA OneFlush ==
    ASSUME NEW f \in Flushers, \A g \in Flushers \ {f} : flusher'[g] = flusher[g]
    PROVE  /\ \A g \in Flushers \ {f} : Batch(g)' = Batch(g)
           /\ Others(f)' = Others(f)
           /\ Held' = Others(f) \cup ToSet(Batch(f)')
<1>1. \A g \in Flushers \ {f} : Batch(g)' = Batch(g)
      BY DEF Batch
<1>2. Others(f)' = Others(f)
      BY <1>1 DEF Others
<1>3. Held' = Others(f)' \cup ToSet(Batch(f)')
      BY HeldParts DEF Held, Others
<1> QED BY <1>1, <1>2, <1>3

\* What one flush holds, no other does, nor is it settled, lost or in the list.
LEMMA Apart ==
    ASSUME TakenInv, NEW f \in Flushers
    PROVE  /\ ToSet(Batch(f)) \cap Others(f) = {}
           /\ ToSet(Batch(f)) \cap (settled \cup lost) = {}
           /\ Others(f) \cap (settled \cup lost) = {}
           /\ ToSet(Batch(f)) \cup Others(f) \cup settled \cup lost = 1..Taken
<1>1. ToSet(Batch(f)) \cap Others(f) = {}
      BY DEF TakenInv, Others
<1> QED BY <1>1, HeldParts DEF TakenInv

\* One flush takes, drops or adds to its batch: the batches stay apart.
LEMMA FlushStep ==
    ASSUME TakenInv, NEW f \in Flushers, \A g \in Flushers \ {f} : flusher'[g] = flusher[g],
           InOrder(Batch(f)'), ToSet(Batch(f)') \cap Others(f) = {},
           ToSet(Batch(f)') \cap (settled' \cup lost') = {},
           Others(f) \cap (settled' \cup lost') = {},
           settled' \cap lost' = {},
           ToSet(Batch(f)') \cup Others(f) \cup settled' \cup lost' = 1..(Taken')
    PROVE  TakenInv'
<1>1. /\ \A g \in Flushers \ {f} : Batch(g)' = Batch(g)
      /\ Held' = Others(f) \cup ToSet(Batch(f)')
      BY OneFlush
<1>2. \A g \in Flushers : InOrder(Batch(g)')
      BY <1>1 DEF TakenInv
<1>3. \A g \in Flushers \ {f} : ToSet(Batch(g)) \subseteq Others(f)
      BY DEF Others
<1>4. \A g, h \in Flushers : g # h => ToSet(Batch(g)') \cap ToSet(Batch(h)') = {}
  <2> SUFFICES ASSUME NEW g \in Flushers, NEW h \in Flushers, g # h
               PROVE  ToSet(Batch(g)') \cap ToSet(Batch(h)') = {}
      OBVIOUS
  <2>1. CASE g = f
        BY <1>1, <1>3, <2>1
  <2>2. CASE h = f
        BY <1>1, <1>3, <2>2
  <2>3. CASE g # f /\ h # f
        BY <1>1, <2>3 DEF TakenInv
  <2> QED BY <2>1, <2>2, <2>3
<1>5. \A g \in Flushers : InOrder(Batch(g))'
      BY <1>2 DEF InOrder
<1>6. \A g, h \in Flushers : g # h => (ToSet(Batch(g)) \cap ToSet(Batch(h)) = {})'
      BY <1>4 DEF ToSet
<1> QED BY <1>1, <1>5, <1>6 DEF TakenInv

(***************************************************************************)
(* Steps.                                                                  *)
(***************************************************************************)

\* Pushing adds the newest copies at the end of the list.
LEMMA PushStep ==
    ASSUME Inv, NEW events \in Seq(Events), Push(events)
    PROVE  /\ pushed' \in Seq(Events) /\ Len(pushed') = Len(pushed) + Len(events) /\ Len(pushed') <= MaxPushed
           /\ buffer' \in Seq(Copies) /\ Len(buffer') = Len(buffer) + Len(events)
           /\ BufferInv' /\ Taken' = Taken
           /\ \A n \in 1..Len(pushed) : pushed'[n] = pushed[n]
           /\ \A n \in (Len(pushed) + 1)..Len(pushed') : pushed'[n] = events[n - Len(pushed)]
<1> DEFINE new == [i \in 1..Len(events) |-> Len(pushed) + i]
<1>1. pushed \in Seq(Events) /\ buffer \in Seq(Copies) /\ Len(pushed) \in Nat /\ Len(buffer) \in Nat
      /\ Len(events) \in Nat /\ Len(pushed) + Len(events) <= MaxPushed
      BY Sequences DEF Inv, Push
<1>2. new \in Seq(Copies) /\ Len(new) = Len(events)
      BY <1>1, LimitsAssumption DEF Copies
<1>3. pushed' = pushed \o events /\ buffer' = buffer \o new
      BY DEF Push
<1>4. /\ pushed' \in Seq(Events) /\ Len(pushed') = Len(pushed) + Len(events)
      /\ \A n \in 1..Len(pushed) : pushed'[n] = pushed[n]
      /\ \A n \in (Len(pushed) + 1)..Len(pushed') : pushed'[n] = events[n - Len(pushed)]
      BY <1>1, <1>3
<1>5. /\ buffer' \in Seq(Copies) /\ Len(buffer') = Len(buffer) + Len(events)
      /\ \A i \in 1..Len(buffer) : buffer'[i] = buffer[i]
      /\ \A i \in (Len(buffer) + 1)..Len(buffer') : buffer'[i] = Len(pushed) + (i - Len(buffer))
  <2>1. buffer' = buffer \o new /\ buffer \in Seq(Copies) /\ new \in Seq(Copies)
        /\ Len(new) = Len(events) /\ Len(new) \in Nat /\ Len(buffer) \in Nat
        BY <1>1, <1>2, <1>3
  <2>2. \A i \in 1..Len(new) : new[i] = Len(pushed) + i
        BY <1>1, <1>2 DEF new
  <2> HIDE DEF new
  <2>3. buffer' \in Seq(Copies) /\ Len(buffer') = Len(buffer) + Len(new)
        BY <2>1, Concat
  <2>4. \A i \in 1..Len(buffer') : buffer'[i] = IF i <= Len(buffer) THEN buffer[i] ELSE new[i - Len(buffer)]
        BY <2>1, Concat
  <2>5. \A i \in (Len(buffer) + 1)..Len(buffer') : i - Len(buffer) \in 1..Len(new)
        BY <2>1, <2>3
  <2> QED BY <2>1, <2>2, <2>3, <2>4, <2>5
<1>6. Taken' = Taken
      BY <1>1, <1>4, <1>5 DEF Taken
<1>7. \A i \in 1..Len(buffer') : buffer'[i] = Taken + i
  <2>1. ASSUME NEW i \in 1..Len(buffer)
        PROVE  buffer'[i] = Taken + i
        BY <1>5 DEF Inv, BufferInv
  <2>2. ASSUME NEW i \in (Len(buffer) + 1)..Len(buffer')
        PROVE  buffer'[i] = Taken + i
        BY <1>1, <1>5 DEF Taken
  <2>3. Len(buffer') \in Nat /\ Len(buffer) <= Len(buffer')
        BY <1>1, <1>5
  <2> QED BY <1>1, <2>1, <2>2, <2>3
<1>8. BufferInv'
      BY <1>1, <1>4, <1>5, <1>6, <1>7 DEF Inv, BufferInv
<1> QED BY <1>1, <1>4, <1>5, <1>6, <1>8

\* Pushes, and steps of track that leave the list.
LEMMA UntakenStep ==
    ASSUME Inv, Taken' = Taken, UNCHANGED <<flusher, settled, lost>>
    PROVE  TakenInv' /\ RoomInv'
BY DEF Inv, TakenInv, RoomInv, Held, Batch, InOrder

\* track pushes one copy and goes on to the length it was answered.
LEMMA TrackStep ==
    ASSUME Inv, NEW t \in Trackers, NEW e \in Events, Track(t, e)
    PROVE  Inv'
<1>1. <<e>> \in Seq(Events) /\ Push(<<e>>) /\ Len(<<e>>) = 1
      BY DEF Track
<1>2. /\ pushed' \in Seq(Events) /\ Len(pushed') <= MaxPushed /\ Len(pushed') = Len(pushed) + 1
      /\ buffer' \in Seq(Copies) /\ Len(buffer') = Len(buffer) + 1
      /\ BufferInv' /\ Taken' = Taken
      BY <1>1, PushStep
<1>3. Len(buffer') \in Copies
      BY <1>2, Sequences, LimitsAssumption DEF Inv, BufferInv, Copies
<1>4. pushed' \in BoundedSeq(Events, MaxPushed) /\ buffer' \in BoundedSeq(Copies, MaxPushed)
      BY <1>2, <1>3, Bounded, LimitsAssumption DEF Copies
<1>5. tracker' \in [Trackers -> [pc : {"pushed", "trim"}, size : Copies] \cup {Idle}]
      BY <1>2, <1>3 DEF Track, Inv, TypeOK
<1>6. TypeOK'
      BY <1>4, <1>5 DEF Track, Inv, TypeOK
<1> QED BY <1>2, <1>6, UntakenStep DEF Track, Inv

\* trackMany pushes the copies of its events at once and trims nothing.
LEMMA TrackManyStep ==
    ASSUME Inv, NEW e1 \in Events, NEW e2 \in Events, TrackMany(<<e1, e2>>)
    PROVE  Inv'
<1>1. <<e1, e2>> \in Seq(Events) /\ Push(<<e1, e2>>) /\ Len(<<e1, e2>>) = 2
      BY DEF TrackMany
<1>2. /\ pushed' \in Seq(Events) /\ Len(pushed') <= MaxPushed /\ Len(pushed') = Len(pushed) + 2
      /\ buffer' \in Seq(Copies) /\ Len(buffer') = Len(buffer) + 2
      /\ BufferInv' /\ Taken' = Taken
      BY <1>1, PushStep
<1>3. Len(buffer') <= MaxPushed
      BY <1>2, Sequences, LimitsAssumption DEF Inv, BufferInv
<1>4. pushed' \in BoundedSeq(Events, MaxPushed) /\ buffer' \in BoundedSeq(Copies, MaxPushed)
      BY <1>2, <1>3, Bounded, LimitsAssumption
<1>5. TypeOK'
      BY <1>4 DEF TrackMany, Inv, TypeOK
<1> QED BY <1>2, <1>5, UntakenStep DEF TrackMany, Inv

\* A flush begins with an empty batch.
LEMMA BeginStep ==
    ASSUME Inv, NEW f \in Flushers, flusher[f] = Idle,
           flusher' = [flusher EXCEPT ![f] = [pc |-> "pop", batch |-> <<>>]],
           UNCHANGED <<pushed, buffer, settled, lost>>
    PROVE  BufferInv' /\ TakenInv' /\ RoomInv'
           /\ flusher' \in [Flushers -> {Idle} \cup [pc : {"pop", "insert"}, batch : BoundedSeq(Copies, MaxBatch)]]
<1> DEFINE record == [pc |-> "pop", batch |-> <<>>]
<1>1. record # Idle /\ record.batch = <<>> /\ record.pc = "pop"
      BY DEF Idle
<1>2. /\ flusher'[f] = record /\ Batch(f)' = <<>>
      /\ \A g \in Flushers \ {f} : flusher'[g] = flusher[g]
      BY <1>1 DEF Inv, TypeOK, Batch
<1>3. Batch(f) = <<>>
      BY BusyBatch DEF Inv
<1>4. BufferInv' /\ Taken' = Taken
      BY DEF Inv, BufferInv, Taken
<1>5. RoomInv'
      BY <1>1, <1>2, LimitsAssumption DEF Inv, RoomInv
<1>6. Batch(f)' = Batch(f) /\ ToSet(Batch(f)') = ToSet(Batch(f))
      BY <1>2, <1>3
<1>7. TakenInv'
  <2>1. InOrder(Batch(f)')
        BY <1>6 DEF Inv, TakenInv
  <2>2. settled' = settled /\ lost' = lost /\ settled \cap lost = {}
        BY DEF Inv, TakenInv
  <2> QED BY <1>2, <1>4, <1>6, <2>1, <2>2, Apart, FlushStep DEF Inv
<1>8. record \in [pc : {"pop", "insert"}, batch : BoundedSeq(Copies, MaxBatch)]
  <2>1. <<>> \in Seq(Copies) /\ Len(<<>>) <= MaxBatch
        BY LimitsAssumption
  <2> QED BY <2>1, Bounded, LimitsAssumption
<1> QED BY <1>4, <1>5, <1>7, <1>8 DEF Inv, TypeOK

\* The answer of a push leaves the list and the batches alone.
LEMMA AnswerStep ==
    ASSUME Inv, NEW t \in Trackers, NEW f \in Flushers, Answer(t, f)
    PROVE  Inv'
<1>1. tracker' \in [Trackers -> [pc : {"pushed", "trim"}, size : Copies] \cup {Idle}]
  <2>1. tracker[t] # Idle /\ tracker[t] \in [pc : {"pushed", "trim"}, size : Copies]
        BY DEF Answer, Inv, TypeOK, Idle
  <2> QED BY <2>1 DEF Answer, Inv, TypeOK
<1>2. UNCHANGED <<pushed, buffer, rows, settled, lost>>
      BY DEF Answer
<1>3. CASE tracker[t].size >= MaxBatch
  <2>1. flusher' = [flusher EXCEPT ![f] = [pc |-> "pop", batch |-> <<>>]] /\ flusher[f] = Idle
        BY <1>3 DEF Answer
  <2> QED BY <1>1, <1>2, <2>1, BeginStep DEF Inv, TypeOK
<1>4. CASE ~(tracker[t].size >= MaxBatch)
  <2>1. flusher' = flusher
        BY <1>4 DEF Answer
  <2>2. Taken' = Taken /\ BufferInv'
        BY <1>2 DEF Taken, Inv, BufferInv
  <2> QED BY <1>1, <1>2, <2>1, <2>2, UntakenStep DEF Inv, TypeOK
<1> QED BY <1>3, <1>4

\* A trim takes the oldest copies of the list: those it loses are the next after
\* the ones taken before.
LEMMA TrimStep ==
    ASSUME Inv, NEW t \in Trackers, Trim(t)
    PROVE  /\ Inv'
           /\ Taken <= Taken' /\ lost' = lost \cup (Taken + 1)..(Taken')
           /\ Taken # Taken' => Len(buffer') = MaxBuffer
           /\ ToSet(buffer') \subseteq ToSet(buffer)
<1> DEFINE size == IF Len(buffer) < MaxBuffer THEN Len(buffer) ELSE MaxBuffer
           from == Len(buffer) - size
<1>1. /\ buffer \in Seq(Copies) /\ Len(buffer) \in Nat /\ Len(pushed) \in Nat /\ Len(buffer) <= Len(pushed)
      /\ size \in Nat /\ from \in Nat /\ from + size = Len(buffer)
      BY Sequences, LimitsAssumption DEF Inv, BufferInv
<1>2. /\ buffer' = SubSeq(buffer, from + 1, Len(buffer))
      /\ lost' = lost \cup (ToSet(buffer) \ ToSet(buffer'))
      /\ tracker' = [tracker EXCEPT ![t] = Idle] /\ UNCHANGED <<pushed, flusher, rows, settled>>
      BY DEF Trim
<1> HIDE DEF from, size
<1>3. /\ buffer' \in Seq(Copies) /\ Len(buffer') = size
      /\ \A i \in 1..size : buffer'[i] = buffer[from + i]
      BY <1>1, <1>2
<1>4. pushed' = pushed /\ Taken' = Taken + from
  <2>1. pushed' = pushed
        BY <1>2
  <2>2. Len(buffer') = size
        BY <1>3
  <2> QED BY <1>1, <2>1, <2>2 DEF Taken
<1>5. BufferInv'
  <2>1. \A i \in 1..size : from + i \in 1..Len(buffer)
        BY <1>1
  <2>2. \A i \in 1..size : buffer'[i] = Taken' + i
        BY <1>1, <1>3, <1>4, <2>1, BufferSet DEF Inv, BufferInv
  <2> QED BY <1>1, <1>2, <1>3, <2>2 DEF BufferInv
<1>6. buffer' \in BoundedSeq(Copies, MaxPushed) /\ BoundedSeq(Copies, MaxPushed) # {}
      BY <1>1, <1>3, Sequences, Bounded, LimitsAssumption DEF Inv
<1>7. ToSet(buffer') = (Taken' + 1)..Len(pushed) /\ Taken \in Nat /\ Taken' \in Nat
  <2>1. Taken \in Nat /\ Taken' \in Nat /\ Taken' + size = Len(pushed)
        BY <1>1, <1>4, BufferSet DEF Taken, Inv
  <2>2. \A i \in 1..Len(buffer') : buffer'[i] = Taken' + i
        BY <1>5 DEF BufferInv
  <2> QED BY <1>3, <2>1, <2>2, Consecutive
<1>8. lost' = lost \cup (Taken + 1)..(Taken')
  <2>1. ToSet(buffer) = (Taken + 1)..Len(pushed)
        BY BufferSet DEF Inv
  <2>2. ToSet(buffer) \ ToSet(buffer') = (Taken + 1)..(Taken')
        BY <1>1, <1>4, <1>7, <2>1 DEF Taken
  <2> QED BY <1>2, <2>2
<1>9. TypeOK'
  <2>1. Len(pushed) <= MaxPushed
        BY Sequences DEF Inv
  <2>2. lost' \subseteq Copies
        BY <1>1, <1>7, <1>8, <1>4, <2>1, LimitsAssumption DEF Inv, TypeOK, Copies, Taken
  <2> QED BY <1>2, <1>6, <2>2 DEF Inv, TypeOK
<1>10. TakenInv'
  <2>1. Held' = Held /\ \A g \in Flushers : Batch(g)' = Batch(g)
        BY <1>2 DEF Held, Batch
  <2>2. Held \cup settled \cup lost' = 1..(Taken')
        BY <1>4, <1>7, <1>8, <1>1 DEF Inv, TakenInv
  <2>3. (Taken + 1)..(Taken') \cap (Held \cup settled) = {}
        BY <1>7 DEF Inv, TakenInv
  <2>4. Held \cap (settled \cup lost') = {} /\ settled \cap lost' = {}
        BY <1>8, <2>3 DEF Inv, TakenInv
  <2>5. /\ \A f, g \in Flushers : f # g => (ToSet(Batch(f)) \cap ToSet(Batch(g)) = {})'
        /\ \A f \in Flushers : InOrder(Batch(f))'
        BY <2>1 DEF Inv, TakenInv, InOrder
  <2> QED BY <1>2, <2>1, <2>2, <2>4, <2>5 DEF TakenInv
<1>11. RoomInv'
      BY <1>2 DEF Inv, RoomInv
<1>12. Taken # Taken' => Len(buffer') = MaxBuffer
      BY <1>1, <1>3, <1>4, <1>7 DEF size, from
<1>13. ToSet(buffer') \subseteq ToSet(buffer)
  <2>1. ToSet(buffer) = (Taken + 1)..Len(pushed) /\ Taken <= Taken'
        BY <1>1, <1>4, BufferSet DEF Inv
  <2> QED BY <1>1, <1>7, <2>1
<1> QED BY <1>1, <1>4, <1>5, <1>7, <1>8, <1>9, <1>10, <1>11, <1>12, <1>13 DEF Inv

\* A flush begins with nothing popped.
LEMMA BeginFlushStep ==
    ASSUME Inv, NEW f \in Flushers, BeginFlush(f)
    PROVE  Inv'
BY BeginStep DEF BeginFlush, Inv, TypeOK

\* A request whose push or trim fails is over; what it pushed stays.
LEMMA TrackFailsStep ==
    ASSUME Inv, NEW t \in Trackers, TrackFails(t)
    PROVE  Inv'
<1>1. UNCHANGED <<pushed, buffer, flusher, rows, settled, lost>>
      BY DEF TrackFails
<1>2. TypeOK'
      BY <1>1 DEF TrackFails, Inv, TypeOK
<1>3. BufferInv' /\ Taken' = Taken
      BY <1>1 DEF Inv, BufferInv, Taken
<1> QED BY <1>1, <1>2, <1>3, UntakenStep DEF Inv

\* A pop takes the oldest copy of the list to the end of the batch.
LEMMA PopStep ==
    ASSUME Inv, NEW f \in Flushers, Pop(f)
    PROVE  Inv' /\ Waiting' = Waiting
<1>1. /\ flusher[f].pc = "pop" /\ flusher[f] # Idle /\ Batch(f) = flusher[f].batch
      /\ UNCHANGED <<pushed, tracker, rows, settled, lost>>
      BY BusyBatch DEF Pop, Inv
<1>2. /\ pushed \in Seq(Events) /\ buffer \in Seq(Copies) /\ Batch(f) \in Seq(Copies)
      /\ Len(Batch(f)) < MaxBatch /\ Taken \in Nat /\ ToSet(buffer) = (Taken + 1)..Len(pushed)
      BY <1>1, Sequences, BufferSet DEF Inv, RoomInv
<1>3. CASE buffer = <<>>
  <2>0. PICK record : record = IF Batch(f) = <<>> THEN Idle ELSE [pc |-> "insert", batch |-> Batch(f)]
        OBVIOUS
  <2>1. flusher' = [flusher EXCEPT ![f] = record] /\ buffer' = buffer
        BY <1>3, <2>0 DEF Pop
  <2>2. /\ record # Idle => record = [pc |-> "insert", batch |-> Batch(f)]
        /\ record = Idle => Batch(f) = <<>>
        BY <2>0 DEF Idle
  <2>3. /\ Batch(f)' = Batch(f) /\ flusher'[f] = record
        /\ \A g \in Flushers \ {f} : flusher'[g] = flusher[g]
    <3>1. flusher'[f] = record /\ \A g \in Flushers \ {f} : flusher'[g] = flusher[g]
          BY <2>1 DEF Inv, TypeOK
    <3>2. Batch(f)' = IF record = Idle THEN <<>> ELSE record.batch
          BY <3>1 DEF Batch
    <3>3. record # Idle => record.batch = Batch(f)
          BY <2>2
    <3> QED BY <2>2, <3>1, <3>2, <3>3
  <2>4. BufferInv' /\ Taken' = Taken
        BY <1>1, <2>1 DEF Inv, BufferInv, Taken
  <2>5. record \in {Idle} \cup [pc : {"pop", "insert"}, batch : BoundedSeq(Copies, MaxBatch)]
        BY <1>2, <2>2, Bounded, LimitsAssumption
  <2>6. TypeOK'
        BY <1>1, <2>1, <2>5 DEF Inv, TypeOK
  <2>7. RoomInv'
    <3>1. record.pc # "pop"
          BY <2>2 DEF Idle
    <3> QED BY <2>3, <3>1 DEF Inv, RoomInv
  <2>8. TakenInv'
    <3>1. ToSet(Batch(f)') = ToSet(Batch(f)) /\ InOrder(Batch(f)')
          BY <2>3 DEF Inv, TakenInv
    <3> QED BY <1>1, <2>3, <2>4, <3>1, Apart, FlushStep DEF Inv, TakenInv
  <2>9. Held' = Held
        BY <2>3, OneFlush, HeldParts
  <2> QED BY <2>1, <2>4, <2>6, <2>7, <2>8, <2>9 DEF Inv, Waiting
<1>4. CASE buffer # <<>>
  <2> PICK batch : batch = Append(Batch(f), Head(buffer))
      OBVIOUS
  <2> PICK record : record = [pc |-> IF Len(batch) = MaxBatch THEN "insert" ELSE "pop", batch |-> batch]
      OBVIOUS
  <2>1. Len(buffer) \in Nat \ {0} /\ Len(pushed) \in Nat /\ Taken + Len(buffer) = Len(pushed)
        BY <1>2, <1>4 DEF Taken
  <2>2. Head(buffer) = Taken + 1 /\ Head(buffer) \in Copies
        BY <1>2, <2>1 DEF Inv, BufferInv
  <2>3. /\ batch \in Seq(Copies) /\ Len(batch) = Len(Batch(f)) + 1 /\ batch # <<>>
        /\ ToSet(batch) = ToSet(Batch(f)) \cup {Taken + 1}
        /\ \A k \in 1..Len(Batch(f)) : batch[k] = Batch(f)[k]
        /\ batch[Len(batch)] = Taken + 1
        BY <1>2, <2>2, AppendSet
  <2>4. flusher' = [flusher EXCEPT ![f] = record] /\ buffer' = Tail(buffer)
        BY <1>4, <2>3 DEF Pop
  <2>5. record # Idle /\ record.batch = batch /\ (record.pc = "pop" => Len(batch) # MaxBatch)
        BY DEF Idle
  <2>6. record \in [pc : {"pop", "insert"}, batch : BoundedSeq(Copies, MaxBatch)]
    <3>1. batch \in Seq(Copies) /\ Len(batch) <= MaxBatch
          BY <1>2, <2>3, LimitsAssumption
    <3>2. batch \in BoundedSeq(Copies, MaxBatch)
          BY <3>1, Bounded, LimitsAssumption
    <3> QED BY <3>2
  <2>7. /\ Batch(f)' = batch /\ flusher'[f] = record
        /\ \A g \in Flushers \ {f} : flusher'[g] = flusher[g]
    <3>1. flusher'[f] = record /\ \A g \in Flushers \ {f} : flusher'[g] = flusher[g]
          BY <2>4 DEF Inv, TypeOK
    <3>2. Batch(f)' = IF record = Idle THEN <<>> ELSE record.batch
          BY <3>1 DEF Batch
    <3> QED BY <2>5, <3>1, <3>2
  <2>8. /\ buffer' \in Seq(Copies) /\ Len(buffer') = Len(buffer) - 1
        /\ \A k \in 1..Len(buffer') : buffer'[k] = buffer[k + 1]
        BY <1>2, <2>1, <2>4
  <2>9. Taken' = Taken + 1 /\ BufferInv'
    <3>1. Taken' = Taken + 1
          BY <1>1, <2>1, <2>8 DEF Taken
    <3>2. \A k \in 1..Len(buffer') : buffer'[k] = Taken' + k
          BY <1>2, <2>1, <2>8, <3>1 DEF Inv, BufferInv
    <3> QED BY <1>1, <2>1, <2>8, <3>1, <3>2 DEF BufferInv, Inv
  <2>10. TypeOK'
    <3>1. buffer' \in BoundedSeq(Copies, MaxPushed)
          BY <1>2, <2>1, <2>8, Sequences, Bounded, LimitsAssumption DEF Inv, BufferInv
    <3> QED BY <1>1, <2>4, <2>6, <3>1 DEF Inv, TypeOK
  <2>11. RoomInv'
    <3>1. record.pc = "pop" => Len(record.batch) < MaxBatch
          BY <1>2, <2>3, <2>5, LimitsAssumption
    <3> QED BY <2>7, <3>1 DEF Inv, RoomInv
  <2>12. /\ ToSet(Batch(f)) \cap Others(f) = {} /\ ToSet(Batch(f)) \cap (settled \cup lost) = {}
         /\ Others(f) \cap (settled \cup lost) = {} /\ settled \cap lost = {}
         /\ ToSet(Batch(f)) \cup Others(f) \cup settled \cup lost = 1..Taken
         BY Apart DEF Inv, TakenInv
  <2>13. InOrder(batch)
    <3>1. \A k \in 1..Len(Batch(f)) : Batch(f)[k] \in 1..Taken
          BY <1>2, <2>12 DEF ToSet
    <3>2. InOrder(Batch(f))
          BY DEF Inv, TakenInv
    <3> QED BY <1>2, <2>3, <3>1, <3>2 DEF InOrder
  <2>14. 1..(Taken + 1) = 1..Taken \cup {Taken + 1} /\ Taken + 1 \notin 1..Taken
         BY <1>2
  <2>15. TakenInv'
    <3>1. ToSet(Batch(f)') = ToSet(Batch(f)) \cup {Taken + 1} /\ InOrder(Batch(f)')
          BY <2>3, <2>7, <2>13
    <3>2. settled' = settled /\ lost' = lost
          BY <1>1
    <3>3. Taken + 1 \notin Others(f) \cup settled \cup lost
          BY <2>12, <2>14
    <3>4. ToSet(Batch(f)') \cap Others(f) = {} /\ ToSet(Batch(f)') \cap (settled' \cup lost') = {}
          BY <2>12, <3>1, <3>2, <3>3
    <3>5. ToSet(Batch(f)') \cup Others(f) \cup settled' \cup lost' = 1..(Taken')
          BY <2>9, <2>12, <2>14, <3>1, <3>2
    <3>6. Others(f) \cap (settled' \cup lost') = {} /\ settled' \cap lost' = {}
          BY <2>12, <3>2
    <3> QED BY <2>7, <3>1, <3>4, <3>5, <3>6, FlushStep DEF Inv
  <2>16. Waiting' = Waiting
    <3>1. Held' = Held \cup {Taken + 1}
          BY <2>3, <2>7, OneFlush, HeldParts
    <3>2. ToSet(buffer') = (Taken' + 1)..Len(pushed)
      <4>1. \A k \in 1..Len(buffer') : buffer'[k] = Taken' + k
            BY <2>9 DEF BufferInv
      <4>2. Taken' \in Nat /\ Taken' + Len(buffer') = Len(pushed)
        <5>1. Taken' = Taken + 1 /\ Len(buffer') = Len(buffer) - 1 /\ Taken \in Nat
              BY <1>2, <2>8, <2>9
        <5> QED BY <2>1, <5>1
      <4> QED BY <2>8, <4>1, <4>2, Consecutive
    <3>3. (Taken + 1)..Len(pushed) = {Taken + 1} \cup (Taken + 2)..Len(pushed)
          BY <1>2, <2>1
    <3> QED BY <1>2, <2>9, <3>1, <3>2, <3>3 DEF Waiting
  <2> QED BY <2>9, <2>10, <2>11, <2>15, <2>16 DEF Inv
<1> QED BY <1>3, <1>4

\* Of an event with copies in a batch there is a first one.
LEMMA FirstOf ==
    ASSUME NEW e, NEW S, NEW batch \in Seq(S), InBatch(e, batch)
    PROVE  First(e, batch) \in DOMAIN batch /\ batch[First(e, batch)] \in S
           /\ pushed[batch[First(e, batch)]] = e
<1> DEFINE K == {i \in DOMAIN batch : pushed[batch[i]] = e}
<1>1. K \in SUBSET Nat /\ K # {} /\ DOMAIN batch = 1..Len(batch)
      BY DEF InBatch
<1> HIDE DEF K
<1>2. PICK k \in K : \A j \in K : k <= j
      BY <1>1, Least
<1>3. k \in DOMAIN batch /\ pushed[batch[k]] = e /\ k \in 1..Len(batch)
      BY <1>1, <1>2 DEF K
<1>4. \A j \in 1..(k - 1) : pushed[batch[j]] # e
  <2> SUFFICES ASSUME NEW j \in 1..(k - 1), pushed[batch[j]] = e
               PROVE  FALSE
      OBVIOUS
  <2>1. j \in K
        BY <1>1, <1>3 DEF K
  <2> QED BY <1>2, <1>3, <2>1
<1>5. /\ First(e, batch) \in DOMAIN batch
      /\ pushed[batch[First(e, batch)]] = e
      BY <1>3, <1>4 DEF First
<1> QED BY <1>1, <1>5

\* An insert settles the whole batch.
LEMMA InsertStep ==
    ASSUME Inv, NEW f \in Flushers, Insert(f)
    PROVE  Inv'
<1>1. /\ settled' = settled \cup ToSet(Batch(f)) /\ flusher' = [flusher EXCEPT ![f] = Idle]
      /\ UNCHANGED <<pushed, buffer, tracker, lost>>
      BY DEF Insert
<1>2. /\ flusher'[f] = Idle /\ \A g \in Flushers \ {f} : flusher'[g] = flusher[g]
      BY <1>1 DEF Inv, TypeOK
<1>3. Batch(f)' = <<>>
      BY <1>2 DEF Batch
<1>4. BufferInv' /\ Taken' = Taken
      BY <1>1 DEF Inv, BufferInv, Taken
<1>5. RoomInv'
  <2>1. Idle.pc # "pop"
        BY DEF Idle
  <2> QED BY <1>2, <2>1 DEF Inv, RoomInv
<1>6. TakenInv'
  <2>1. ToSet(Batch(f)') = {} /\ InOrder(Batch(f)')
        BY <1>3, EmptySet DEF InOrder
  <2>2. /\ ToSet(Batch(f)) \cap Others(f) = {} /\ ToSet(Batch(f)) \cap (settled \cup lost) = {}
        /\ Others(f) \cap (settled \cup lost) = {} /\ settled \cap lost = {}
        /\ ToSet(Batch(f)) \cup Others(f) \cup settled \cup lost = 1..Taken
        BY Apart DEF Inv, TakenInv
  <2> QED BY <1>1, <1>2, <1>4, <2>1, <2>2, FlushStep DEF Inv
<1>7. TypeOK'
  <2>1. \A s \in Seq(Copies) : ToSet(s) \subseteq Copies
        BY DEF ToSet
  <2>2. settled' \cup lost' \subseteq Copies
        BY <1>1, <2>1, Sequences DEF Inv, TypeOK
  <2>3. rows' \in [Events -> 0..MaxPushed]
    <3>1. \A e \in Events : InBatch(e, Batch(f)) => Batch(f)[First(e, Batch(f))] \in Copies
          BY Sequences, FirstOf DEF Inv
    <3> QED BY <3>1, LimitsAssumption DEF Insert, Inv, TypeOK, Copies
  <2> QED BY <1>1, <2>2, <2>3 DEF Inv, TypeOK
<1> QED BY <1>4, <1>5, <1>6, <1>7 DEF Inv

\* A flush that fails loses the whole batch.
LEMMA FlushFailsStep ==
    ASSUME Inv, NEW f \in Flushers, FlushFails(f)
    PROVE  Inv'
<1>1. /\ lost' = lost \cup ToSet(Batch(f)) /\ flusher' = [flusher EXCEPT ![f] = Idle]
      /\ UNCHANGED <<pushed, buffer, tracker, rows, settled>>
      BY DEF FlushFails
<1>2. /\ flusher'[f] = Idle /\ \A g \in Flushers \ {f} : flusher'[g] = flusher[g]
      BY <1>1 DEF Inv, TypeOK
<1>3. Batch(f)' = <<>>
      BY <1>2 DEF Batch
<1>4. BufferInv' /\ Taken' = Taken
      BY <1>1 DEF Inv, BufferInv, Taken
<1>5. RoomInv'
  <2>1. Idle.pc # "pop"
        BY DEF Idle
  <2> QED BY <1>2, <2>1 DEF Inv, RoomInv
<1>6. TakenInv'
  <2>1. ToSet(Batch(f)') = {} /\ InOrder(Batch(f)')
        BY <1>3, EmptySet DEF InOrder
  <2>2. /\ ToSet(Batch(f)) \cap Others(f) = {} /\ ToSet(Batch(f)) \cap (settled \cup lost) = {}
        /\ Others(f) \cap (settled \cup lost) = {} /\ settled \cap lost = {}
        /\ ToSet(Batch(f)) \cup Others(f) \cup settled \cup lost = 1..Taken
        BY Apart DEF Inv, TakenInv
  <2> QED BY <1>1, <1>2, <1>4, <2>1, <2>2, FlushStep DEF Inv
<1>7. TypeOK'
  <2>1. \A s \in Seq(Copies) : ToSet(s) \subseteq Copies
        BY DEF ToSet
  <2>2. settled' \cup lost' \subseteq Copies
        BY <1>1, <2>1, Sequences DEF Inv, TypeOK
  <2> QED BY <1>1, <2>2 DEF Inv, TypeOK
<1> QED BY <1>4, <1>5, <1>6, <1>7 DEF Inv

\* Every step of Next keeps the invariant.
LEMMA InvStep ==
    ASSUME Inv, [Next]_vars
    PROVE  Inv'
<1>1. CASE UNCHANGED vars
  <2>1. UNCHANGED <<pushed, buffer, tracker, flusher, rows, settled, lost>>
        BY <1>1 DEF vars
  <2>2. TypeOK'
        BY <2>1 DEF Inv, TypeOK
  <2>3. BufferInv' /\ Taken' = Taken
        BY <2>1 DEF Inv, BufferInv, Taken
  <2> QED BY <2>1, <2>2, <2>3, UntakenStep DEF Inv
<1> QED BY <1>1, TrackStep, TrackManyStep, AnswerStep, TrimStep, TrackFailsStep, BeginFlushStep, PopStep,
           InsertStep, FlushFailsStep DEF Next

\* The invariant holds in every reachable state.
LEMMA InvCorrect == Spec => []Inv
<1>1. Inv /\ [Next]_vars => Inv'
      BY InvStep
<1> QED BY <1>1, InitInv, PTL DEF Spec

(***************************************************************************)
(* The properties.                                                         *)
(***************************************************************************)

\* The variables keep the shape the code gives them; no batch outgrows its limit.
THEOREM TypeCorrect == Spec => []TypeOK
<1>1. Inv => TypeOK
      BY DEF Inv
<1> QED BY <1>1, InvCorrect, PTL

\* Overlapping flushes never take the same copy and none vanishes (flush), however
\* pushes, pops, trims, inserts and failures interleave.
THEOREM TakenOnceCorrect == Spec => []TakenOnce
<1>1. Inv => TakenOnce
  <2> SUFFICES ASSUME Inv
               PROVE  TakenOnce
      OBVIOUS
  <2>1. /\ pushed \in Seq(Events) /\ Len(pushed) \in Nat /\ DOMAIN pushed = 1..Len(pushed)
        /\ buffer \in Seq(Copies) /\ Len(buffer) \in Nat /\ DOMAIN buffer = 1..Len(buffer)
        BY Sequences DEF Inv
  <2>2. /\ ToSet(buffer) = (Taken + 1)..Len(pushed) /\ Taken \in Nat /\ Taken <= Len(pushed)
        BY <2>1, BufferSet DEF Inv, Taken
  <2>3. 1..Len(pushed) = 1..Taken \cup (Taken + 1)..Len(pushed)
        /\ 1..Taken \cap (Taken + 1)..Len(pushed) = {}
        BY <2>1, <2>2
  <2>4. InOrder(buffer)
        BY <2>1, <2>2 DEF Inv, BufferInv, InOrder
  <2>5. Held \cup settled \cup lost = 1..Taken
        BY DEF Inv, TakenInv
  <2> QED BY <2>1, <2>2, <2>3, <2>4, <2>5 DEF TakenOnce, Waiting, Inv, TakenInv
<1> QED BY <1>1, InvCorrect, PTL

\* A trim removes older copies than all it leaves and leaves as many as the limit,
\* though it acts on a length read before (track), and the row of an event is
\* never replaced (ON CONFLICT DO NOTHING).
THEOREM OldestLostFirstKeptCorrect == Spec => OldestLostFirstKept
<1>1. ASSUME Inv, [Next]_vars, NEW n \in lost' \ lost, n \in ToSet(buffer)
      PROVE  Len(buffer') = MaxBuffer /\ \A m \in ToSet(buffer') : n < m
  <2>1. CASE \E t \in Trackers : Trim(t)
    <3>1. /\ Inv' /\ Taken <= Taken' /\ lost' = lost \cup (Taken + 1)..(Taken')
          /\ Taken # Taken' => Len(buffer') = MaxBuffer
          BY <1>1, <2>1, TrimStep
    <3>2. Taken \in Nat /\ n \in (Taken + 1)..(Taken')
          BY <1>1, <3>1, BufferSet DEF Inv
    <3>3. /\ buffer' \in Seq(Copies) /\ Len(buffer') \in Nat /\ Len(pushed') \in Nat
          /\ \A i \in 1..Len(buffer') : buffer'[i] = Taken' + i
      <4>1. pushed' \in BoundedSeq(Events, MaxPushed) /\ buffer' \in BoundedSeq(Copies, MaxPushed)
            BY <3>1 DEF Inv, TypeOK
      <4>2. pushed' \in Seq(Events) /\ buffer' \in Seq(Copies)
            BY <4>1, Bounded, LimitsAssumption
      <4> QED BY <3>1, <4>2 DEF Inv, BufferInv
    <3>4. Taken' \in Nat
          BY <3>1, <3>3 DEF Inv, BufferInv, Taken
    <3>5. ToSet(buffer') = (Taken' + 1)..(Taken' + Len(buffer'))
          BY <3>3, <3>4, Consecutive
    <3> QED BY <3>1, <3>2, <3>3, <3>4, <3>5
  <2>2. CASE \E f \in Flushers : FlushFails(f)
    <3>1. PICK f \in Flushers : lost' = lost \cup ToSet(Batch(f))
          BY <2>2 DEF FlushFails
    <3>2. n \in 1..Taken
          BY <1>1, <3>1, Apart DEF Inv
    <3> QED BY <1>1, <3>2, BufferSet DEF Inv
  <2>3. CASE lost' = lost
        BY <1>1, <2>3
  <2> QED BY <1>1, <2>1, <2>2, <2>3 DEF Next, vars, Track, TrackMany, Answer, TrackFails, BeginFlush,
             Pop, Insert
<1>2. ASSUME Inv, [Next]_vars, NEW e \in Events, rows[e] # 0
      PROVE  rows'[e] = rows[e]
  <2>1. CASE \E f \in Flushers : Insert(f)
        BY <1>2, <2>1 DEF Insert
  <2>2. CASE rows' = rows
        BY <2>2
  <2> QED BY <1>2, <2>1, <2>2 DEF Next, vars, Track, TrackMany, Answer, Trim, TrackFails, BeginFlush,
             Pop, FlushFails
<1>3. Inv /\ [Next]_vars =>
        [\A t \in Trackers : (tracker[t] # Idle /\ tracker[t].pc = "trim" /\ lost' # lost) =>
           \A n \in lost' \ lost : n \in ToSet(buffer) =>
               /\ Len(buffer') = MaxBuffer
               /\ \A m \in ToSet(buffer') : n < m]_vars
      BY <1>1
<1>4. Inv /\ [Next]_vars => [\A e \in Events : rows[e] # 0 => rows'[e] = rows[e]]_vars
      BY <1>2
<1>5. Spec => TrimsToLimit
      BY <1>3, InvCorrect, PTL DEF Spec, TrimsToLimit
<1>6. Spec => FirstCopyStays
      BY <1>4, InvCorrect, PTL DEF Spec, FirstCopyStays
<1> QED BY <1>5, <1>6 DEF OldestLostFirstKept

(***************************************************************************)
(* The refinement of AtMostOnce.                                           *)
(***************************************************************************)

Places == [e \in Events |-> Place(e)]

\* When an event is where it was, or goes where S goes, AtMostOnce moves S.
LEMMA MoveStep ==
    ASSUME NEW S \in SUBSET Events, NEW From, NEW to,
           \A e \in Events : Place(e)' = IF e \in S /\ Place(e) \in From THEN to ELSE Place(e)
    PROVE  Promise!Move(S, From, to)
BY DEF Promise!Move

\* Nothing moves while what waits and the rows stay.
LEMMA StayStep ==
    ASSUME UNCHANGED <<pushed, rows>>, Waiting' = Waiting
    PROVE  Places' = Places
<1>1. \A e \in Events : Place(e)' = Place(e)
      BY DEF Place
<1> QED BY <1>1 DEF Places

\* A push gives its events.
LEMMA GiveStep ==
    ASSUME Inv, NEW events \in Seq(Events), Push(events), UNCHANGED <<flusher, rows>>
    PROVE  Promise!Next
<1> DEFINE S == ToSet(events)
<1>1. S \in SUBSET Events
      BY DEF ToSet
<1>2. /\ pushed' \in Seq(Events) /\ Len(pushed') = Len(pushed) + Len(events)
      /\ buffer' \in Seq(Copies) /\ Len(buffer') = Len(buffer) + Len(events)
      /\ BufferInv' /\ Taken' = Taken
      /\ \A n \in 1..Len(pushed) : pushed'[n] = pushed[n]
      /\ \A n \in (Len(pushed) + 1)..Len(pushed') : pushed'[n] = events[n - Len(pushed)]
      BY PushStep
<1>3. /\ Len(pushed) \in Nat /\ Len(events) \in Nat /\ Len(buffer) \in Nat /\ DOMAIN events = 1..Len(events)
      /\ ToSet(buffer) = (Taken + 1)..Len(pushed) /\ Taken \in Nat /\ Taken + Len(buffer) = Len(pushed)
      BY Sequences, BufferSet DEF Inv, Taken
<1>4. ToSet(buffer') = (Taken + 1)..Len(pushed')
  <2>1. \A i \in 1..Len(buffer') : buffer'[i] = Taken + i
        BY <1>2 DEF BufferInv
  <2>2. /\ Len(pushed') = Len(pushed) + Len(events) /\ Len(buffer') = Len(buffer) + Len(events)
        /\ Len(pushed) \in Nat /\ Len(events) \in Nat /\ Len(buffer) \in Nat /\ Taken \in Nat
        /\ Taken + Len(buffer) = Len(pushed)
        BY <1>2, <1>3
  <2>3. Taken + Len(buffer') = Len(pushed')
        BY <2>2
  <2> QED BY <1>2, <1>3, <2>1, <2>3, Consecutive
<1>5. Held' = Held /\ Held \subseteq 1..Taken
      BY DEF Held, Batch, Inv, TakenInv
<1>6. Waiting' = Waiting \cup (Len(pushed) + 1)..Len(pushed') /\ Waiting \subseteq 1..Len(pushed)
  <2>1. /\ Len(pushed') = Len(pushed) + Len(events) /\ Len(pushed) \in Nat /\ Len(events) \in Nat
        /\ Taken \in Nat /\ Taken <= Len(pushed)
        BY <1>2, <1>3
  <2>2. (Taken + 1)..Len(pushed') = (Taken + 1)..Len(pushed) \cup (Len(pushed) + 1)..Len(pushed')
        BY <2>1
  <2>3. ToSet(buffer) \subseteq 1..Len(pushed) /\ Held \subseteq 1..Len(pushed)
        BY <1>3, <1>5, <2>1
  <2>4. ToSet(buffer') = ToSet(buffer) \cup (Len(pushed) + 1)..Len(pushed')
        BY <1>3, <1>4, <2>2
  <2> QED BY <1>5, <2>3, <2>4 DEF Waiting
<1>7. ASSUME NEW e \in Events
      PROVE  (\E n \in Waiting' : pushed'[n] = e) <=> e \in S \/ \E n \in Waiting : pushed[n] = e
  <2>1. (\E n \in (Len(pushed) + 1)..Len(pushed') : pushed'[n] = e) <=> e \in S
    <3>1. Len(pushed') = Len(pushed) + Len(events) /\ Len(pushed) \in Nat /\ Len(events) \in Nat
          BY <1>2, <1>3
    <3>2. \A n \in (Len(pushed) + 1)..Len(pushed') :
            n - Len(pushed) \in DOMAIN events /\ pushed'[n] = events[n - Len(pushed)]
          BY <1>2, <1>3, <3>1
    <3>3. \A i \in DOMAIN events : /\ Len(pushed) + i \in (Len(pushed) + 1)..Len(pushed')
                                   /\ (Len(pushed) + i) - Len(pushed) = i
          BY <1>3, <3>1
    <3>4. \A i \in DOMAIN events : \E n \in (Len(pushed) + 1)..Len(pushed') : pushed'[n] = events[i]
          BY <3>2, <3>3
    <3>5. e \in S <=> \E i \in DOMAIN events : events[i] = e
          BY DEF ToSet
    <3> HIDE DEF S
    <3> QED BY <3>2, <3>4, <3>5
  <2>2. \A n \in Waiting : pushed'[n] = pushed[n]
        BY <1>2, <1>6
  <2> QED BY <1>6, <2>1, <2>2
<1> HIDE DEF S
<1>8. \A e \in Events : Place(e)' = IF e \in S /\ Place(e) \in {"outside"} THEN "pending" ELSE Place(e)
      BY <1>7 DEF Place
<1>9. Promise!Give(S)
      BY <1>1, <1>8, MoveStep DEF Promise!Give
<1> QED BY <1>1, <1>9 DEF Promise!Next

\* A trim or a flush that fails loses events.
LEMMA LoseStep ==
    ASSUME Waiting' \subseteq Waiting, UNCHANGED <<pushed, rows>>
    PROVE  Promise!Next
<1> DEFINE S == {e \in Events : ~\E n \in Waiting' : pushed[n] = e}
<1>1. S \in SUBSET Events
      OBVIOUS
<1>2. \A e \in Events : Place(e)' = IF e \in S /\ Place(e) \in {"pending"} THEN "outside" ELSE Place(e)
      BY DEF Place
<1>3. Promise!Lose(S)
  <2> HIDE DEF S
  <2> QED BY <1>1, <1>2, MoveStep DEF Promise!Lose
<1> QED BY <1>1, <1>3 DEF Promise!Next

\* An insert stores the events of the batch.
LEMMA StoreStep ==
    ASSUME Inv, NEW f \in Flushers, Insert(f)
    PROVE  Promise!Next
<1> DEFINE S == {e \in Events : InBatch(e, Batch(f))}
<1>1. S \in SUBSET Events
      OBVIOUS
<1>2. /\ flusher' = [flusher EXCEPT ![f] = Idle] /\ UNCHANGED <<pushed, buffer>>
      /\ rows' = [e \in Events |-> IF rows[e] = 0 /\ InBatch(e, Batch(f))
                                    THEN Batch(f)[First(e, Batch(f))] ELSE rows[e]]
      BY DEF Insert
<1>3. /\ flusher'[f] = Idle /\ \A g \in Flushers \ {f} : flusher'[g] = flusher[g]
      BY <1>2 DEF Inv, TypeOK
<1>4. ToSet(Batch(f)') = {}
      BY <1>3, EmptySet DEF Batch
<1>5. Waiting' = Waiting \ ToSet(Batch(f))
  <2>1. Held' = Others(f)
        BY <1>3, <1>4, OneFlush
  <2>2. Held = Others(f) \cup ToSet(Batch(f)) /\ ToSet(Batch(f)) \cap Others(f) = {}
        BY HeldParts, Apart DEF Inv
  <2>3. ToSet(buffer) \cap ToSet(Batch(f)) = {}
        BY BufferSet, Apart DEF Inv
  <2> QED BY <1>2, <2>1, <2>2, <2>3 DEF Waiting
<1>6. \A e \in Events : InBatch(e, Batch(f)) <=> \E n \in ToSet(Batch(f)) : pushed[n] = e
      BY DEF InBatch, ToSet
<1>7. ToSet(Batch(f)) \subseteq Waiting
      BY HeldParts DEF Waiting
<1>8. \A e \in Events : InBatch(e, Batch(f)) => Batch(f)[First(e, Batch(f))] # 0
  <2>1. \A e \in Events : InBatch(e, Batch(f)) => Batch(f)[First(e, Batch(f))] \in Copies
        BY Sequences, FirstOf DEF Inv
  <2> QED BY <2>1 DEF Copies
<1>9. \A e \in Events : Place(e)' = IF e \in S /\ Place(e) \in {"pending"} THEN "stored" ELSE Place(e)
  <2> SUFFICES ASSUME NEW e \in Events
               PROVE  Place(e)' = IF e \in S /\ Place(e) \in {"pending"} THEN "stored" ELSE Place(e)
      OBVIOUS
  <2>1. CASE e \in S
    <3>1. rows'[e] # 0
          BY <1>2, <1>8, <2>1
    <3>2. Place(e) \in {"stored", "pending"}
          BY <1>6, <1>7, <2>1 DEF Place
    <3> QED BY <2>1, <3>1, <3>2 DEF Place
  <2>2. CASE e \notin S
    <3>1. rows'[e] = rows[e]
          BY <1>2, <2>2
    <3>2. (\E n \in Waiting' : pushed'[n] = e) <=> \E n \in Waiting : pushed[n] = e
          BY <1>2, <1>5, <1>6, <2>2
    <3> QED BY <2>2, <3>1, <3>2 DEF Place
  <2> QED BY <2>1, <2>2
<1>10. Promise!Store(S)
  <2> HIDE DEF S
  <2> QED BY <1>1, <1>9, MoveStep DEF Promise!Store
<1> QED BY <1>1, <1>10 DEF Promise!Next

\* The writer keeps the promise of AtMostOnce (flush): an event is stored once and
\* stays stored, a batch is stored or lost as a whole, and what is lost is as if
\* it had never been sent.
THEOREM StoresAtMostOnceCorrect == Spec => StoresAtMostOnce
<1>1. Init => Promise!Init
  <2> SUFFICES ASSUME Init
               PROVE  Promise!Init
      OBVIOUS
  <2>1. Waiting = {}
        BY EmptySet DEF Init, Waiting, Held, Batch
  <2>2. \A e \in Events : Place(e) = "outside"
        BY <2>1 DEF Place, Init
  <2> QED BY <2>2 DEF Promise!Init
<1>2. ASSUME Inv, [Next]_vars
      PROVE  Promise!Next \/ Places' = Places
  <2>1. ASSUME NEW t \in Trackers, NEW e \in Events, Track(t, e)
        PROVE  Promise!Next
    <3>1. <<e>> \in Seq(Events)
          OBVIOUS
    <3> QED BY <1>2, <2>1, <3>1, GiveStep DEF Track
  <2>2. ASSUME NEW e1 \in Events, NEW e2 \in Events, TrackMany(<<e1, e2>>)
        PROVE  Promise!Next
    <3>1. <<e1, e2>> \in Seq(Events)
          OBVIOUS
    <3> QED BY <1>2, <2>2, <3>1, GiveStep DEF TrackMany
  <2>3. ASSUME UNCHANGED <<pushed, buffer, rows>>,
               \A f \in Flushers : Batch(f)' = Batch(f)
        PROVE  Places' = Places
        BY <2>3, StayStep DEF Waiting, Held
  <2>4. ASSUME NEW f \in Flushers, flusher[f] = Idle, UNCHANGED <<pushed, buffer, rows>>,
               flusher' = [flusher EXCEPT ![f] = [pc |-> "pop", batch |-> <<>>]]
        PROVE  Places' = Places
        BY <1>2, <2>3, <2>4 DEF Batch, Inv, TypeOK
  <2>5. ASSUME NEW t \in Trackers, NEW f \in Flushers, Answer(t, f)
        PROVE  Places' = Places
        BY <2>3, <2>4, <2>5 DEF Answer, Batch
  <2>6. ASSUME NEW t \in Trackers, TrackFails(t)
        PROVE  Places' = Places
        BY <2>3, <2>6 DEF TrackFails, Batch
  <2>7. ASSUME NEW f \in Flushers, BeginFlush(f)
        PROVE  Places' = Places
        BY <2>4, <2>7 DEF BeginFlush
  <2>8. ASSUME NEW f \in Flushers, Pop(f)
        PROVE  Places' = Places
        BY <1>2, <2>8, PopStep, StayStep DEF Pop
  <2>9. ASSUME NEW t \in Trackers, Trim(t)
        PROVE  Promise!Next
    <3>1. Held' = Held
          BY <2>9 DEF Trim, Held, Batch
    <3>2. ToSet(buffer') \subseteq ToSet(buffer)
          BY <1>2, <2>9, TrimStep
    <3> QED BY <2>9, <3>1, <3>2, LoseStep DEF Trim, Waiting
  <2>10. ASSUME NEW f \in Flushers, FlushFails(f)
         PROVE  Promise!Next
    <3>1. flusher'[f] = Idle /\ \A g \in Flushers \ {f} : flusher'[g] = flusher[g]
          BY <1>2, <2>10 DEF FlushFails, Inv, TypeOK
    <3>2. Held' \subseteq Held
          BY <3>1, OneFlush, HeldParts, EmptySet DEF Batch
    <3> QED BY <2>10, <3>2, LoseStep DEF FlushFails, Waiting
  <2>11. CASE UNCHANGED vars
         BY <2>3, <2>11 DEF vars, Batch
  <2> QED BY <1>2, <2>1, <2>2, <2>5, <2>6, <2>7, <2>8, <2>9, <2>10, <2>11, StoreStep DEF Next
<1>3. Inv /\ [Next]_vars => [Promise!Next]_Places
      BY <1>2
<1> QED BY <1>1, <1>3, InvCorrect, PTL DEF Spec, StoresAtMostOnce, Promise!Spec, Places
=============================================================================
