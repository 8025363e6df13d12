----------------------------- MODULE StreamProofs -----------------------------
(* What is proved of SessionStream for every script, every size and every bound. *)
EXTENDS SessionStream, SequenceTheorems, FiniteSetTheorems, TLAPS

Event == [seq : Nat, at : Nat]

(* What the proof needs beside the channel: events are published in order, one more each time. *)
ChannelOK == RingOK /\ said \in Nat /\ epoch \in Nat

(* A broadcast numbers its event above every other and drops at most the oldest. *)
LEMMA BroadcastKeeps ==
  ASSUME RingOK, NEW at \in Nat, Broadcast(at)
  PROVE  RingOK'
<1> DEFINE new == [seq |-> seq + 1, at |-> at]
           longer == Append(ring, new)
<1>1. new \in Event /\ longer \in Seq(Event)
  BY DEF RingOK, Event
<1>2. /\ Len(longer) = Len(ring) + 1
      /\ \A i \in 1..Len(ring) : longer[i] = ring[i]
      /\ longer[Len(ring) + 1] = new
  BY DEF RingOK, Event
<1>3. Len(ring) \in Nat /\ Len(longer) \in Nat /\ Len(longer) >= 1
      /\ seq \in Nat /\ evicted \in Nat /\ evicted <= seq /\ Len(ring) <= RingSize
  BY <1>2 DEF RingOK
<1>4. \A i \in 1..Len(longer) :
         longer[i].seq \in Nat /\ evicted < longer[i].seq /\ longer[i].seq <= seq + 1
  <2> SUFFICES ASSUME NEW i \in 1..Len(longer)
               PROVE  longer[i].seq \in Nat /\ evicted < longer[i].seq /\ longer[i].seq <= seq + 1
    OBVIOUS
  <2>1. CASE i \in 1..Len(ring)
    BY <1>2, <1>3, <2>1, SMTT(30) DEF RingOK
  <2>2. CASE i = Len(ring) + 1
    BY <1>2, <1>3, <2>2
  <2> QED
    BY <1>2, <1>3, <2>1, <2>2
<1>5. \A i, j \in 1..Len(longer) : i < j => longer[i].seq < longer[j].seq
  <2> SUFFICES ASSUME NEW i \in 1..Len(longer), NEW j \in 1..Len(longer), i < j
               PROVE  longer[i].seq < longer[j].seq
    OBVIOUS
  <2>1. i \in 1..Len(ring)
    BY <1>2, <1>3
  <2>2. CASE j \in 1..Len(ring)
    BY <1>2, <2>1, <2>2 DEF RingOK
  <2>3. CASE j = Len(ring) + 1
    <3>1. longer[i].seq \in 0..seq
      BY <1>2, <1>3, <2>1 DEF RingOK
    <3> QED
      BY <1>2, <1>3, <2>3, <3>1
  <2> QED
    BY <1>2, <1>3, <2>2, <2>3
<1>6. seq' = seq + 1 /\ ring' = Evict(longer).kept /\ evicted' = Evict(longer).evicted
  BY DEF Broadcast
<1> HIDE DEF longer
<1>7. CASE Len(longer) > RingSize
  <2> DEFINE rest == Tail(longer)
  <2>1. ring' = rest /\ evicted' = longer[1].seq
    BY <1>6, <1>7, <1>1, <1>3 DEF Evict
  <2>2. /\ rest \in Seq(Event)
        /\ Len(rest) = Len(longer) - 1
        /\ \A i \in 1..Len(rest) : rest[i] = longer[i + 1]
    BY <1>1, <1>3
  <2> HIDE DEF rest
  <2>3. 1 \in 1..Len(longer) /\ \A i \in 1..Len(rest) : i + 1 \in 1..Len(longer)
    BY <1>3, <2>2
  <2>4. evicted' \in 0..seq'
    BY <1>3, <1>4, <1>6, <2>1, <2>3
  <2>5. \A i \in 1..Len(rest) : longer[1].seq < rest[i].seq /\ rest[i].seq \in 0..(seq + 1)
    BY <1>3, <1>4, <1>5, <2>2, <2>3, SMTT(30)
  <2>6. \A i \in 1..Len(rest) : rest[i].seq \in (evicted' + 1)..seq'
    BY <1>3, <1>4, <1>6, <2>1, <2>3, <2>5, SMTT(30)
  <2>7. \A i, j \in 1..Len(rest) : i < j => rest[i].seq < rest[j].seq
    <3> SUFFICES ASSUME NEW i \in 1..Len(rest), NEW j \in 1..Len(rest), i < j
                 PROVE  rest[i].seq < rest[j].seq
      OBVIOUS
    <3>1. i + 1 < j + 1 /\ rest[i] = longer[i + 1] /\ rest[j] = longer[j + 1]
      BY <2>2
    <3> QED
      BY <1>5, <2>3, <3>1
  <2>8. Len(rest) <= RingSize
    BY <1>2, <1>3, <2>2, RingAssumption
  <2> QED
    BY <1>3, <1>6, <2>1, <2>2, <2>4, <2>6, <2>7, <2>8 DEF RingOK, Event
<1>8. CASE ~(Len(longer) > RingSize)
  <2>1. ring' = longer /\ evicted' = evicted
    BY <1>6, <1>8 DEF Evict
  <2>2. Len(longer) <= RingSize
    BY <1>3, <1>8, RingAssumption
  <2>3. \A i \in 1..Len(longer) : longer[i].seq \in (evicted' + 1)..seq'
    BY <1>3, <1>4, <1>6, <2>1
  <2>4. seq' \in Nat /\ evicted' \in 0..seq'
    BY <1>3, <1>6, <2>1
  <2> QED
    BY <1>1, <1>5, <2>1, <2>2, <2>3, <2>4 DEF RingOK, Event
<1> QED
  BY <1>7, <1>8

\* Every step keeps the channel's invariant.
LEMMA ChannelStep == ASSUME ChannelOK, [Next]_vars PROVE ChannelOK'
<1> USE DEF ChannelOK
<1>1. CASE RunStarts
  BY <1>1, BroadcastKeeps DEF RunStarts, Notice
<1>2. CASE RunEnds
  BY <1>2, BroadcastKeeps DEF RunEnds, Notice
<1>3. CASE Publish
  BY <1>3, BroadcastKeeps DEF Publish
<1>4. CASE Recycle
  BY <1>4, RingAssumption DEF Recycle, RingOK, run
<1>5. CASE Subscribe
  BY <1>5, SMTT(30) DEF Subscribe, RingOK, run
<1>6. CASE UNCHANGED <<said, epoch, seq, ring, evicted>>
  BY <1>6 DEF RingOK
<1>7. ASSUME TraceAppended \/ (\E n \in asked : Capture(n)) \/ (\E r \in reads : Read(r) \/ ReadFails(r))
             \/ Hear \/ Drop \/ Lag \/ Reconnect \/ Retry \/ UNCHANGED vars
      PROVE UNCHANGED <<said, epoch, seq, ring, evicted>>
  BY <1>7 DEF TraceAppended, Capture, Read, ReadFails, Hear, HearEvent, HearState, HearResync,
              HearPage, HearError, HearEnd, Drop, Lag, Reconnect, Retry, run, channel, vars
<1> QED
  BY <1>1, <1>2, <1>3, <1>4, <1>5, <1>6, <1>7 DEF Next

(* The channel's buffer, whatever its size and however events, evictions, unicasts and new lives
   of the channel alternate: bounded, in order, and free of what counts as evicted. *)
THEOREM RingHolds == Spec => []RingOK
<1>1. Init => ChannelOK
  BY RingAssumption DEF Init, ChannelOK, RingOK
<1>2. ChannelOK /\ [Next]_vars => ChannelOK'
  BY ChannelStep
<1>3. ChannelOK => RingOK
  BY DEF ChannelOK
<1> QED
  BY <1>1, <1>2, <1>3, PTL DEF Spec

------------------------------------------------------------------------------
(* What the buffer tells. *)

(* An event of the conversation that the buffer still has is followed there by all that was said
   after it, in order: a reader served from the buffer misses nothing between two events. *)
TellsTheRest ==
  /\ \A i \in 1..Len(ring) : ring[i].at \in 0..said
  /\ \A i, j \in 1..Len(ring) :
        i < j /\ ring[i].at # Notice /\ ring[j].at # Notice => ring[i].at < ring[j].at
  /\ \A i \in 1..Len(ring), k \in 1..said :
        ring[i].at # Notice /\ ring[i].at < k => \E j \in 1..Len(ring) : ring[j].at = k

(* An event leaves the buffer only with the channel's life, or by being counted as evicted; a
   reader who has heard all that is counted is served the rest. *)
LeavesCounted ==
  epoch' = epoch =>
    /\ evicted' >= evicted
    /\ \A i \in 1..Len(ring) :
         ring[i].seq > evicted' => \E j \in 1..Len(ring') : ring'[j] = ring[i]

(* A broadcast appends its event and takes away the oldest one, which it counts, or none. *)
LEMMA BroadcastShape ==
  ASSUME RingOK, NEW at \in Nat, Broadcast(at)
  PROVE  \E gone \in {0, 1} :
           /\ gone <= Len(ring) + 1
           /\ Len(ring') = Len(ring) + 1 - gone
           /\ \A i \in 1..Len(ring') :
                ring'[i] = IF i + gone <= Len(ring) THEN ring[i + gone]
                           ELSE [seq |-> seq + 1, at |-> at]
           /\ gone = 0 => evicted' = evicted
           /\ gone = 1 => evicted' = IF Len(ring) = 0 THEN seq + 1 ELSE ring[1].seq
<1> DEFINE new == [seq |-> seq + 1, at |-> at]
           longer == Append(ring, new)
<1>1. new \in Event /\ longer \in Seq(Event) /\ Len(ring) \in Nat
  BY DEF RingOK, Event
<1>2. /\ Len(longer) = Len(ring) + 1
      /\ \A i \in 1..Len(ring) : longer[i] = ring[i]
      /\ longer[Len(ring) + 1] = new
  BY DEF RingOK, Event
<1>3. ring' = Evict(longer).kept /\ evicted' = Evict(longer).evicted
  BY DEF Broadcast
<1> HIDE DEF longer, new
<1>4. CASE Len(longer) > RingSize
  <2>1. ring' = Tail(longer) /\ evicted' = longer[1].seq
    BY <1>1, <1>2, <1>3, <1>4 DEF Evict
  <2>2. Len(ring') = Len(longer) - 1 /\ \A i \in 1..Len(ring') : ring'[i] = longer[i + 1]
    BY <1>1, <1>2, <2>1
  <2>3. \A i \in 1..Len(ring') : ring'[i] = IF i + 1 <= Len(ring) THEN ring[i + 1] ELSE new
    BY <1>1, <1>2, <2>2
  <2>4. longer[1].seq = IF Len(ring) = 0 THEN seq + 1 ELSE ring[1].seq
    BY <1>1, <1>2 DEF new
  <2> QED
    BY <1>1, <1>2, <2>1, <2>2, <2>3, <2>4 DEF new
<1>5. CASE ~(Len(longer) > RingSize)
  <2>1. ring' = longer /\ evicted' = evicted
    BY <1>3, <1>5 DEF Evict
  <2>2. \A i \in 1..Len(ring') : ring'[i] = IF i + 0 <= Len(ring) THEN ring[i + 0] ELSE new
    BY <1>1, <1>2, <2>1
  <2> QED
    BY <1>1, <1>2, <2>1, <2>2 DEF new
<1> QED
  BY <1>4, <1>5

(* A broadcast of the next event of the conversation, or of a notice, keeps the story. *)
LEMMA BroadcastTells ==
  ASSUME ChannelOK, TellsTheRest, NEW at \in {Notice, said + 1}, Broadcast(at),
         said' = IF at = Notice THEN said ELSE said + 1
  PROVE  TellsTheRest'
<1>1. at \in Nat /\ said \in Nat /\ said' \in Nat /\ Len(ring) \in Nat /\ RingOK
  BY DEF ChannelOK, RingOK, Notice
<1>2. PICK gone \in {0, 1} :
           /\ Len(ring') = Len(ring) + 1 - gone
           /\ \A i \in 1..Len(ring') :
                ring'[i] = IF i + gone <= Len(ring) THEN ring[i + gone]
                           ELSE [seq |-> seq + 1, at |-> at]
  BY <1>1, BroadcastShape
<1>3. ASSUME NEW i \in 1..Len(ring')
      PROVE  \/ i + gone \in 1..Len(ring) /\ ring'[i].at = ring[i + gone].at
             \/ i = Len(ring') /\ i + gone = Len(ring) + 1 /\ ring'[i].at = at
  BY <1>1, <1>2
<1>4. \A i \in 1..Len(ring') : ring'[i].at \in 0..said'
  BY <1>1, <1>3 DEF TellsTheRest, Notice
<1>5. ASSUME NEW i \in 1..Len(ring'), NEW j \in 1..Len(ring'), i < j,
             ring'[i].at # Notice, ring'[j].at # Notice
      PROVE  ring'[i].at < ring'[j].at
  <2>1. i + gone \in 1..Len(ring) /\ ring'[i].at = ring[i + gone].at
    BY <1>1, <1>2, <1>3, <1>5
  <2>2. CASE j + gone \in 1..Len(ring) /\ ring'[j].at = ring[j + gone].at
    <3>1. i + gone < j + gone
      BY <1>1, <1>2, <1>5
    <3> QED
      BY <1>5, <2>1, <2>2, <3>1 DEF TellsTheRest
  <2>3. CASE ring'[j].at = at
    <3>1. ring[i + gone].at \in 0..said /\ at = said + 1
      BY <1>5, <2>1, <2>3 DEF TellsTheRest
    <3> QED
      BY <1>1, <2>1, <2>3, <3>1
  <2> QED
    BY <1>3, <2>2, <2>3
<1>6. ASSUME NEW i \in 1..Len(ring'), NEW k \in 1..said', ring'[i].at # Notice, ring'[i].at < k
      PROVE  \E j \in 1..Len(ring') : ring'[j].at = k
  <2>1. i + gone \in 1..Len(ring) /\ ring'[i].at = ring[i + gone].at
    BY <1>1, <1>3, <1>6
  <2>2. CASE k \in 1..said
    <3>1. PICK j \in 1..Len(ring) : ring[j].at = k
      BY <1>6, <2>1, <2>2 DEF TellsTheRest
    <3>2. k # Notice
      BY <2>2 DEF Notice
    <3>3. ~(j < i + gone)
      <4> SUFFICES ASSUME j < i + gone PROVE FALSE
        OBVIOUS
      <4>1. ring[j].at < ring[i + gone].at
        BY <1>6, <2>1, <3>1, <3>2 DEF TellsTheRest
      <4>2. ring[i + gone].at \in 0..said /\ ring[i + gone].at < k
        BY <1>6, <2>1 DEF TellsTheRest
      <4> QED
        BY <1>1, <2>2, <3>1, <4>1, <4>2
    <3>4. j - gone \in 1..Len(ring') /\ (j - gone) + gone = j
      BY <1>1, <1>2, <2>1, <3>1, <3>3
    <3>5. ring'[j - gone] = ring[j]
      BY <1>1, <1>2, <3>1, <3>4
    <3> QED
      BY <3>1, <3>4, <3>5
  <2>3. CASE k \notin 1..said
    <3>1. k = said + 1 /\ at = said + 1
      BY <1>1, <1>6, <2>3
    <3>2. Len(ring') \in 1..Len(ring') /\ Len(ring') + gone = Len(ring) + 1
      BY <1>1, <1>2, <2>1
    <3>3. ring'[Len(ring')].at = at
      BY <1>1, <1>2, <3>2
    <3> QED
      BY <3>1, <3>2, <3>3
  <2> QED
    BY <2>2, <2>3
<1> QED
  BY <1>4, <1>5, <1>6 DEF TellsTheRest

(* Which steps the channel's buffer is part of. *)
LEMMA ChannelSteps ==
  ASSUME ChannelOK, [Next]_vars
  PROVE  \/ Broadcast(Notice) /\ said' = said /\ epoch' = epoch
         \/ Broadcast(said + 1) /\ said' = said + 1 /\ epoch' = epoch
         \/ ring' = <<>> /\ said' = said /\ epoch' = epoch + 1
         \/ ring' = ring /\ said' = said /\ evicted' = evicted
<1>1. CASE RunStarts \/ RunEnds
  BY <1>1 DEF RunStarts, RunEnds
<1>2. CASE Publish
  BY <1>2 DEF Publish
<1>3. CASE Recycle
  BY <1>3 DEF Recycle, run
<1>4. CASE Subscribe
  BY <1>4 DEF Subscribe, run
<1>5. ASSUME TraceAppended \/ (\E n \in asked : Capture(n)) \/ (\E r \in reads : Read(r) \/ ReadFails(r))
             \/ Hear \/ Drop \/ Lag \/ Reconnect \/ Retry \/ UNCHANGED vars
      PROVE UNCHANGED <<said, ring, evicted>>
  BY <1>5 DEF TraceAppended, Capture, Read, ReadFails, Hear, HearEvent, HearState, HearResync,
              HearPage, HearError, HearEnd, Drop, Lag, Reconnect, Retry, run, channel, vars
<1> QED
  BY <1>1, <1>2, <1>3, <1>4, <1>5 DEF Next

(* Whatever was broadcast, evicted and replayed before, the events of the conversation in the
   buffer are its latest ones with no hole between them (EventChannel.broadcast and evict):
   the part of KeepsConversation that the channel answers for, in every life of it. *)
THEOREM BufferTellsTheRest == Spec => []TellsTheRest
<1>1. Init => ChannelOK /\ TellsTheRest
  <2>1. Init => ChannelOK
    BY RingAssumption DEF Init, ChannelOK, RingOK
  <2>2. Init => TellsTheRest
    BY DEF Init, TellsTheRest
  <2> QED
    BY <2>1, <2>2
<1>2. ChannelOK /\ TellsTheRest /\ [Next]_vars => (ChannelOK /\ TellsTheRest)'
  <2> SUFFICES ASSUME ChannelOK, TellsTheRest, [Next]_vars PROVE (ChannelOK /\ TellsTheRest)'
    OBVIOUS
  <2>1. ChannelOK'
    BY ChannelStep
  <2>2. CASE Broadcast(Notice) /\ said' = said
    BY <2>1, <2>2, BroadcastTells
  <2>3. CASE Broadcast(said + 1) /\ said' = said + 1
    <3>1. said + 1 # Notice
      BY DEF ChannelOK, Notice
    <3> QED
      BY <2>1, <2>3, <3>1, BroadcastTells
  <2>4. CASE ring' = <<>>
    BY <2>1, <2>4 DEF TellsTheRest
  <2>5. CASE ring' = ring /\ said' = said
    BY <2>1, <2>5 DEF TellsTheRest
  <2> QED
    BY <2>1, <2>2, <2>3, <2>4, <2>5, ChannelSteps
<1> QED
  BY <1>1, <1>2, PTL DEF Spec

(* ReplayHits compares a reader's place with `evicted` alone; that is enough because no event
   above it ever leaves the buffer of a living channel (evict). *)
THEOREM NothingLeavesUncounted == Spec => [][LeavesCounted]_vars
<1>1. Init => ChannelOK
  BY RingAssumption DEF Init, ChannelOK, RingOK
<1>2. ChannelOK /\ [Next]_vars => ChannelOK'
  BY ChannelStep
<1>3. ChannelOK /\ [Next]_vars => [LeavesCounted]_vars
  <2> SUFFICES ASSUME ChannelOK, [Next]_vars PROVE LeavesCounted
    OBVIOUS
  <2>1. /\ RingOK /\ said \in Nat /\ seq \in Nat /\ evicted \in Nat /\ evicted <= seq
        /\ Len(ring) \in Nat
    <3>1. RingOK /\ said \in Nat
      BY DEF ChannelOK
    <3>2. seq \in Nat /\ evicted \in 0..seq /\ ring \in Seq([seq : Nat, at : Nat])
      BY <3>1 DEF RingOK
    <3>3. Len(ring) \in Nat
      BY <3>2
    <3> QED
      BY <3>1, <3>2, <3>3
  <2>2. ASSUME NEW at \in Nat, Broadcast(at) PROVE LeavesCounted
    <3>1. PICK gone \in {0, 1} :
           /\ Len(ring') = Len(ring) + 1 - gone
           /\ \A i \in 1..Len(ring') :
                ring'[i] = IF i + gone <= Len(ring) THEN ring[i + gone]
                           ELSE [seq |-> seq + 1, at |-> at]
           /\ gone = 0 => evicted' = evicted
           /\ gone = 1 => evicted' = IF Len(ring) = 0 THEN seq + 1 ELSE ring[1].seq
      BY <2>1, <2>2, BroadcastShape
    <3>2. \A i \in 1..Len(ring) : ring[i].seq \in Nat /\ ring[i].seq > evicted
      BY <2>1 DEF RingOK
    <3>3. evicted' >= evicted
      <4>1. CASE gone = 0
        BY <2>1, <3>1, <4>1
      <4>2. CASE gone = 1 /\ Len(ring) = 0
        BY <2>1, <3>1, <4>2
      <4>3. CASE gone = 1 /\ Len(ring) # 0
        <5>1. 1 \in 1..Len(ring)
          BY <2>1, <4>3
        <5>2. ring[1].seq \in Nat /\ ring[1].seq > evicted
          BY <3>2, <5>1
        <5> QED
          BY <2>1, <3>1, <4>3, <5>2
      <4> QED
        BY <4>1, <4>2, <4>3
    <3>4. ASSUME NEW i \in 1..Len(ring), ring[i].seq > evicted'
          PROVE  \E j \in 1..Len(ring') : ring'[j] = ring[i]
      <4>1. ~(gone = 1 /\ i = 1)
        BY <2>1, <3>1, <3>2, <3>4
      <4>2. i - gone \in 1..Len(ring') /\ (i - gone) + gone = i
        BY <2>1, <3>1, <4>1
      <4>3. PICK k \in 1..Len(ring') : k + gone = i
        BY <4>2
      <4>4. ring'[k] = ring[k + gone]
        BY <2>1, <3>1, <4>3
      <4> QED
        BY <4>3, <4>4
    <3> QED
      BY <3>3, <3>4 DEF LeavesCounted
  <2>3. CASE ring' = <<>> /\ epoch' = epoch + 1
    <3>1. epoch' # epoch
      BY <2>3 DEF ChannelOK
    <3> QED
      BY <3>1 DEF LeavesCounted
  <2>4. CASE ring' = ring /\ evicted' = evicted
    BY <2>1, <2>4 DEF LeavesCounted
  <2>5. said + 1 \in Nat /\ Notice \in Nat
    BY <2>1 DEF Notice
  <2> QED
    BY <2>2, <2>3, <2>4, <2>5, ChannelSteps
<1> QED
  BY <1>1, <1>2, <1>3, PTL DEF Spec

------------------------------------------------------------------------------
(* What the page hears: the numbered frames of its stream. *)

Ids == [epoch : Nat, seq : Nat]
Numbered(f) == f.what \in {"event", "state", "resync"}
After(a, b) == a.epoch > b.epoch \/ (a.epoch = b.epoch /\ a.seq > b.seq)

(* The buffer can be cut at any number. *)
SplitOK ==
  \A s \in 0..seq : \E n \in 0..Len(ring) :
    \A i \in 1..Len(ring) : ring[i].seq <= s <=> i <= n

(* The reader's place is a number that was given; what is on its way is numbered after it, upwards,
   in this life of the channel; an ended stream ends with its last numbered frame. *)
PlaceOK ==
  /\ epoch \in Nat \ {0} /\ lastId \in Ids
  /\ lastId.epoch < epoch \/ (lastId.epoch = epoch /\ lastId.seq <= seq)
FramesOK ==
  \A i \in 1..Len(wire) : Numbered(wire[i]) =>
    /\ wire[i].id \in Ids /\ wire[i].id.epoch = epoch /\ wire[i].id.seq \in 1..seq
    /\ lastId.epoch = epoch => lastId.seq < wire[i].id.seq
    /\ \A j \in 1..Len(wire) : i < j /\ Numbered(wire[j]) => wire[i].id.seq < wire[j].id.seq
    /\ stream \in {"open", "ended"}
EndOK ==
  \A i \in 1..Len(wire) : wire[i].what = "end" =>
    /\ stream = "ended"
    /\ \A j \in 1..Len(wire) : i < j => ~Numbered(wire[j])
    /\ \A j \in 1..Len(wire) : wire[j].what = "end" => j = i
OrderOK ==
  /\ \E S : wire \in Seq(S)
  /\ SplitOK /\ PlaceOK /\ FramesOK /\ EndOK

(* Every event of a buffer that is numbered above s is among some frames. *)
OnItsWay(frames, life, e) ==
  \E j \in 1..Len(frames) :
    /\ frames[j].what = "event" /\ frames[j].at = e.at
    /\ frames[j].id = [epoch |-> life, seq |-> e.seq]
Covered(kept, frames, life, s) ==
  \A k \in 1..Len(kept) : kept[k].seq > s => OnItsWay(frames, life, kept[k])
CoverOK ==
  stream = "open" =>
    /\ \A j \in 1..Len(wire) : Numbered(wire[j]) => Covered(ring, wire, epoch, wire[j].id.seq)
    /\ lastId.epoch = epoch =>
         \/ Covered(ring, wire, epoch, lastId.seq)
         \/ \E j \in 1..Len(wire) : wire[j].what = "resync"

StreamOK == ChannelOK /\ OrderOK /\ CoverOK

(* A frame is put at the end of those on their way. *)
LEMMA AppendedFrame ==
  ASSUME OrderOK, NEW f, wire' = Append(wire, f)
  PROVE  /\ \E S : wire' \in Seq(S)
         /\ Len(wire) \in Nat /\ Len(wire') = Len(wire) + 1
         /\ \A i \in 1..Len(wire) : wire'[i] = wire[i]
         /\ wire'[Len(wire) + 1] = f
<1>1. PICK S : wire \in Seq(S)
  BY DEF OrderOK
<1> DEFINE T == S \cup {f}
<1>2. wire \in Seq(T) /\ f \in T
  <2>1. S \subseteq T
    OBVIOUS
  <2> QED
    BY <1>1, <2>1, SeqMonotonic
<1> HIDE DEF T
<1>3. Append(wire, f) \in Seq(T)
  BY <1>2
<1> QED
  BY <1>2, <1>3

(* The first frame is taken. *)
LEMMA TakenFrame ==
  ASSUME OrderOK, wire # <<>>, wire' = Tail(wire)
  PROVE  /\ \E S : wire' \in Seq(S)
         /\ Len(wire) \in Nat \ {0} /\ Len(wire') = Len(wire) - 1
         /\ \A i \in 1..Len(wire') : wire'[i] = wire[i + 1]
         /\ Head(wire) = wire[1]
<1>1. PICK S : wire \in Seq(S)
  BY DEF OrderOK
<1> QED
  BY <1>1

(* Frames are put at the end of those on their way. *)
LEMMA JoinedFrames ==
  ASSUME OrderOK, NEW T, NEW more \in Seq(T), wire' = wire \o more
  PROVE  /\ \E S : wire' \in Seq(S)
         /\ Len(wire) \in Nat /\ Len(more) \in Nat /\ Len(wire') = Len(wire) + Len(more)
         /\ \A i \in 1..Len(wire) : wire'[i] = wire[i]
         /\ \A i \in 1..Len(more) : wire'[Len(wire) + i] = more[i]
<1>1. PICK S : wire \in Seq(S)
  BY DEF OrderOK
<1> DEFINE U == S \cup T
<1>2. wire \in Seq(U) /\ more \in Seq(U)
  <2>1. S \subseteq U /\ T \subseteq U
    OBVIOUS
  <2> QED
    BY <1>1, <2>1, SeqMonotonic
<1> HIDE DEF U
<1>3. /\ wire \o more \in Seq(U)
      /\ Len(wire \o more) = Len(wire) + Len(more)
      /\ \A i \in 1..Len(wire) + Len(more) :
            (wire \o more)[i] = IF i <= Len(wire) THEN wire[i] ELSE more[i - Len(wire)]
  BY <1>2, ConcatProperties, Zenon
<1>4. Len(wire) \in Nat /\ Len(more) \in Nat
  BY <1>2
<1>5. \A i \in 1..Len(wire) : wire'[i] = wire[i]
  BY <1>3, <1>4
<1>6. ASSUME NEW i \in 1..Len(more) PROVE wire'[Len(wire) + i] = more[i]
  <2>1. Len(wire) + i \in 1..Len(wire) + Len(more) /\ ~(Len(wire) + i <= Len(wire))
        /\ (Len(wire) + i) - Len(wire) = i
    BY <1>4
  <2> QED
    BY <1>3, <2>1
<1> QED
  BY <1>3, <1>4, <1>5, <1>6

(* A broadcast numbers its event above every cut. *)
LEMMA BroadcastSplits ==
  ASSUME ChannelOK, SplitOK, NEW at \in Nat, Broadcast(at)
  PROVE  SplitOK'
<1>1. /\ seq \in Nat /\ Len(ring) \in Nat /\ RingOK
      /\ \A i \in 1..Len(ring) : ring[i].seq \in Nat /\ ring[i].seq <= seq
  <2>1. RingOK
    BY DEF ChannelOK
  <2>2. seq \in Nat /\ evicted \in 0..seq /\ Len(ring) \in Nat
    BY <2>1 DEF RingOK
  <2> QED
    BY <2>1, <2>2, SMTT(30) DEF RingOK
<1>2. PICK gone \in {0, 1} :
           /\ gone <= Len(ring) + 1
           /\ Len(ring') = Len(ring) + 1 - gone
           /\ \A i \in 1..Len(ring') :
                ring'[i] = IF i + gone <= Len(ring) THEN ring[i + gone]
                           ELSE [seq |-> seq + 1, at |-> at]
  BY <1>1, BroadcastShape
<1>3. seq' = seq + 1
  BY DEF Broadcast
<1>4. ASSUME NEW s \in 0..seq'
      PROVE  \E n \in 0..Len(ring') : \A i \in 1..Len(ring') : ring'[i].seq <= s <=> i <= n
  <2>1. CASE s = seq + 1
    <3>1. \A i \in 1..Len(ring') : ring'[i].seq <= s
      BY <1>1, <1>2, <2>1, SMTT(30)
    <3>2. Len(ring') \in 0..Len(ring')
      BY <1>1, <1>2
    <3> QED
      BY <3>1, <3>2
  <2>2. CASE s \in 0..seq
    <3>1. PICK n \in 0..Len(ring) : \A i \in 1..Len(ring) : ring[i].seq <= s <=> i <= n
      BY <2>2 DEF SplitOK
    <3> DEFINE m == IF n = 0 THEN 0 ELSE n - gone
    <3>2. m \in 0..Len(ring')
      BY <1>1, <1>2
    <3>3. ASSUME NEW i \in 1..Len(ring') PROVE ring'[i].seq <= s <=> i <= m
      <4>1. CASE i + gone <= Len(ring)
        <5>1. i + gone \in 1..Len(ring) /\ ring'[i] = ring[i + gone]
          BY <1>1, <1>2, <4>1
        <5>2. ring[i + gone].seq <= s <=> i + gone <= n
          BY <3>1, <5>1
        <5> QED
          BY <1>1, <1>2, <5>1, <5>2
      <4>2. CASE ~(i + gone <= Len(ring))
        <5>1. ring'[i].seq = seq + 1
          BY <1>2, <4>2
        <5>2. ~(i <= m)
          BY <1>1, <1>2, <4>2
        <5> QED
          BY <1>1, <2>2, <5>1, <5>2
      <4> QED
        BY <4>1, <4>2
    <3> QED
      BY <3>2, <3>3
  <2>3. s = seq + 1 \/ s \in 0..seq
    BY <1>1, <1>3
  <2> QED
    BY <2>1, <2>2, <2>3
<1> QED
  BY <1>4 DEF SplitOK

(* A broadcast is put on the wire of a page that is connected: last, and numbered last. *)
LEMMA BroadcastOrders ==
  ASSUME ChannelOK, OrderOK, NEW at \in Nat, Broadcast(at), UNCHANGED <<epoch, stream, lastId>>
  PROVE  OrderOK'
<1>1. seq \in Nat /\ seq' = seq + 1 /\ SplitOK' /\ epoch \in Nat
  <2>1. SplitOK'
    BY BroadcastSplits DEF OrderOK
  <2>2. seq \in Nat /\ epoch \in Nat
    BY DEF ChannelOK, RingOK
  <2> QED
    BY <2>1, <2>2 DEF Broadcast
<1>2. PlaceOK'
  BY <1>1 DEF OrderOK, PlaceOK, Ids
<1>3. CASE stream = "open"
  <2> DEFINE f == [what |-> "event", id |-> At(seq + 1), at |-> at]
  <2>1. /\ \E S : wire' \in Seq(S)
        /\ Len(wire) \in Nat /\ Len(wire') = Len(wire) + 1
        /\ \A i \in 1..Len(wire) : wire'[i] = wire[i]
        /\ wire'[Len(wire) + 1] = f
    BY <1>3, AppendedFrame DEF Broadcast
  <2>2. /\ f.what = "event" /\ f.id \in Ids /\ f.id.epoch = epoch /\ f.id.seq = seq + 1
    BY <1>1 DEF At, Ids
  <2> HIDE DEF f
  <2>3. ASSUME NEW i \in 1..Len(wire'), Numbered(wire'[i])
        PROVE  /\ wire'[i].id \in Ids /\ wire'[i].id.epoch = epoch' /\ wire'[i].id.seq \in 1..seq'
               /\ lastId.epoch = epoch => lastId.seq < wire'[i].id.seq
               /\ \A j \in 1..Len(wire') : i < j /\ Numbered(wire'[j]) => wire'[i].id.seq < wire'[j].id.seq
    <3>1. CASE i = Len(wire) + 1
      <4>1. \A j \in 1..Len(wire') : ~(i < j)
        BY <2>1, <3>1
      <4> QED
        BY <1>1, <2>1, <2>2, <3>1, <4>1 DEF OrderOK, PlaceOK, Ids
    <3>2. CASE i \in 1..Len(wire)
      <4>1. /\ wire[i].id \in Ids /\ wire[i].id.epoch = epoch /\ wire[i].id.seq \in 1..seq
            /\ lastId.epoch = epoch => lastId.seq < wire[i].id.seq
            /\ \A j \in 1..Len(wire) : i < j /\ Numbered(wire[j]) => wire[i].id.seq < wire[j].id.seq
        BY <2>1, <2>3, <3>2 DEF OrderOK, FramesOK
      <4>2. ASSUME NEW j \in 1..Len(wire'), i < j, Numbered(wire'[j])
            PROVE  wire'[i].id.seq < wire'[j].id.seq
        <5>1. CASE j \in 1..Len(wire)
          BY <2>1, <3>2, <4>1, <4>2, <5>1
        <5>2. CASE j = Len(wire) + 1
          BY <1>1, <2>1, <2>2, <3>2, <4>1, <5>2
        <5> QED
          BY <2>1, <5>1, <5>2
      <4> QED
        BY <1>1, <2>1, <3>2, <4>1, <4>2
    <3> QED
      BY <2>1, <3>1, <3>2
  <2>4. FramesOK'
    BY <1>3, <2>3 DEF FramesOK
  <2>5. \A i \in 1..Len(wire') : wire'[i].what # "end"
    BY <1>3, <2>1, <2>2 DEF OrderOK, EndOK
  <2>6. EndOK'
    BY <2>5 DEF EndOK
  <2> QED
    BY <1>1, <1>2, <2>1, <2>4, <2>6 DEF OrderOK
<1>4. CASE stream # "open"
  <2>1. wire' = wire
    BY <1>4 DEF Broadcast
  <2>2. FramesOK'
    BY <1>1, <2>1 DEF OrderOK, FramesOK
  <2>3. EndOK'
    BY <2>1 DEF OrderOK, EndOK
  <2> QED
    BY <1>1, <1>2, <2>1, <2>2, <2>3 DEF OrderOK
<1> QED
  BY <1>3, <1>4

(* A broadcast is on its way to a page that is connected, whatever the buffer drops. *)
LEMMA BroadcastCovers ==
  ASSUME ChannelOK, OrderOK, CoverOK, NEW at \in Nat, Broadcast(at),
         UNCHANGED <<epoch, stream, lastId>>
  PROVE  CoverOK'
<1> SUFFICES ASSUME stream = "open" PROVE CoverOK'
  BY DEF CoverOK
<1> DEFINE new == [seq |-> seq + 1, at |-> at]
           f == [what |-> "event", id |-> At(seq + 1), at |-> at]
<1>1. /\ seq \in Nat /\ seq' = seq + 1 /\ Len(ring) \in Nat /\ RingOK
      /\ \A i \in 1..Len(ring) : ring[i].seq \in Nat /\ ring[i].seq <= seq
  <2>1. RingOK
    BY DEF ChannelOK
  <2>2. seq \in Nat /\ evicted \in 0..seq /\ Len(ring) \in Nat
    BY <2>1 DEF RingOK
  <2> QED
    BY <2>1, <2>2 DEF RingOK, Broadcast
<1>2. /\ Len(wire) \in Nat /\ Len(wire') = Len(wire) + 1
      /\ \A i \in 1..Len(wire) : wire'[i] = wire[i]
      /\ wire'[Len(wire) + 1] = f
  BY AppendedFrame DEF Broadcast
<1>3. f.what = "event" /\ f.id = At(seq + 1) /\ f.id.seq = seq + 1 /\ f.at = at
      /\ new.seq = seq + 1 /\ new.at = at
  BY DEF At
<1>5. \A k \in 1..Len(ring') : ring'[k] = new \/ \E i \in 1..Len(ring) : ring'[k] = ring[i]
  <2>1. PICK gone \in {0, 1} :
           /\ Len(ring') = Len(ring) + 1 - gone
           /\ \A i \in 1..Len(ring') :
                ring'[i] = IF i + gone <= Len(ring) THEN ring[i + gone] ELSE new
    BY <1>1, BroadcastShape
  <2>2. ASSUME NEW k \in 1..Len(ring'), k + gone <= Len(ring)
        PROVE  \E i \in 1..Len(ring) : ring'[k] = ring[i]
    <3>1. k + gone \in 1..Len(ring) /\ ring'[k] = ring[k + gone]
      BY <1>1, <2>1, <2>2, SMTT(30)
    <3> QED
      BY <3>1
  <2> QED
    BY <2>1, <2>2
<1> HIDE DEF f, new
<1>6. \A e : OnItsWay(wire, epoch, e) => OnItsWay(wire', epoch, e)
  BY <1>2 DEF OnItsWay
<1>7. OnItsWay(wire', epoch, new)
  <2>1. Len(wire) + 1 \in 1..Len(wire')
    BY <1>2
  <2> QED
    BY <1>2, <1>3, <2>1 DEF OnItsWay, At
<1>8. \A s : Covered(ring, wire, epoch, s) => Covered(ring', wire', epoch, s)
  BY <1>5, <1>6, <1>7 DEF Covered
<1>9. Covered(ring', wire', epoch, seq + 1)
  <2>1. \A k \in 1..Len(ring') : ~(ring'[k].seq > seq + 1)
    BY <1>1, <1>3, <1>5
  <2> QED
    BY <2>1 DEF Covered
<1>10. ASSUME NEW j \in 1..Len(wire'), Numbered(wire'[j])
       PROVE  Covered(ring', wire', epoch, wire'[j].id.seq)
  <2>1. CASE j \in 1..Len(wire)
    BY <1>2, <1>8, <1>10, <2>1 DEF CoverOK
  <2>2. CASE j = Len(wire) + 1
    BY <1>2, <1>3, <1>9, <2>2
  <2> QED
    BY <1>2, <2>1, <2>2
<1>11. (\E j \in 1..Len(wire) : wire[j].what = "resync") => \E j \in 1..Len(wire') : wire'[j].what = "resync"
  BY <1>2
<1>12. lastId.epoch = epoch =>
         \/ Covered(ring', wire', epoch, lastId.seq)
         \/ \E j \in 1..Len(wire') : wire'[j].what = "resync"
  BY <1>8, <1>11 DEF CoverOK
<1> QED
  BY <1>10, <1>12 DEF CoverOK

(* The channel and the reader's place stay as they are. *)
Still == UNCHANGED <<epoch, seq, ring, lastId>>

(* A step that takes nothing from the wire, and puts nothing there. *)
LEMMA WireStays ==
  ASSUME StreamOK, Still, wire' = wire,
         stream' = stream \/ (stream = "parked" /\ stream' = "issued")
  PROVE  OrderOK' /\ CoverOK'
<1> USE DEF StreamOK
<1>1. SplitOK' /\ PlaceOK'
  BY DEF Still, OrderOK, SplitOK, PlaceOK
<1>2. FramesOK'
  <2>1. stream' = "issued" /\ stream = "parked" => \A i \in 1..Len(wire) : ~Numbered(wire[i])
    BY DEF OrderOK, FramesOK
  <2> QED
    BY <2>1 DEF Still, OrderOK, FramesOK
<1>3. EndOK'
  BY DEF OrderOK, EndOK
<1>4. CoverOK'
  BY DEF Still, CoverOK
<1> QED
  BY <1>1, <1>2, <1>3, <1>4 DEF OrderOK

(* An answer to a history request joins the frames. *)
LEMMA AnswerJoins ==
  ASSUME StreamOK, Still, stream' = stream,
         NEW f, ~Numbered(f), f.what # "end", wire' = Append(wire, f)
  PROVE  OrderOK' /\ CoverOK'
<1> USE DEF StreamOK
<1>1. /\ \E S : wire' \in Seq(S)
      /\ Len(wire) \in Nat /\ Len(wire') = Len(wire) + 1
      /\ \A i \in 1..Len(wire) : wire'[i] = wire[i]
      /\ wire'[Len(wire) + 1] = f
  BY AppendedFrame
<1>2. \A i \in 1..Len(wire') : (Numbered(wire'[i]) \/ wire'[i].what = "end") =>
                                  i \in 1..Len(wire) /\ wire'[i] = wire[i]
  BY <1>1
<1>3. SplitOK' /\ PlaceOK'
  BY DEF Still, OrderOK, SplitOK, PlaceOK
<1>4. FramesOK'
  BY <1>2 DEF Still, OrderOK, FramesOK
<1>5. EndOK'
  BY <1>2 DEF OrderOK, EndOK
<1>6. \A e : OnItsWay(wire, epoch, e) => OnItsWay(wire', epoch, e)
  BY <1>1 DEF OnItsWay
<1>7. CoverOK'
  <2>1. \A s : Covered(ring, wire, epoch, s) => Covered(ring, wire', epoch, s)
    BY <1>6 DEF Covered
  <2>2. (\E j \in 1..Len(wire) : wire[j].what = "resync") => \E j \in 1..Len(wire') : wire'[j].what = "resync"
    BY <1>1
  <2> QED
    BY <1>2, <2>1, <2>2 DEF Still, CoverOK
<1> QED
  BY <1>1, <1>3, <1>4, <1>5, <1>7 DEF OrderOK

(* The server ends a stream that is behind: the end comes after all that was sent. *)
LEMMA LagOrders ==
  ASSUME StreamOK, Lag
  PROVE  OrderOK' /\ CoverOK'
<1> USE DEF StreamOK
<1>1. /\ \E S : wire' \in Seq(S)
      /\ Len(wire) \in Nat /\ Len(wire') = Len(wire) + 1
      /\ \A i \in 1..Len(wire) : wire'[i] = wire[i]
      /\ wire'[Len(wire) + 1] = [what |-> "end"]
  BY AppendedFrame DEF Lag
<1>2. Still /\ stream = "open" /\ stream' = "ended"
  BY DEF Lag, Still, channel, chat
<1>3. SplitOK' /\ PlaceOK'
  BY <1>2 DEF Still, OrderOK, SplitOK, PlaceOK
<1>4. \A i \in 1..Len(wire) : wire[i].what # "end"
  BY <1>2 DEF OrderOK, EndOK
<1>5. /\ \A i \in 1..Len(wire') : Numbered(wire'[i]) => i \in 1..Len(wire) /\ wire'[i] = wire[i]
      /\ \A i \in 1..Len(wire') : wire'[i].what = "end" => i = Len(wire) + 1
  BY <1>1, <1>4 DEF Numbered
<1>6. FramesOK'
  BY <1>2, <1>5 DEF Still, OrderOK, FramesOK
<1>7. EndOK'
  BY <1>1, <1>2, <1>5 DEF EndOK
<1> QED
  BY <1>1, <1>2, <1>3, <1>6, <1>7 DEF OrderOK, CoverOK

(* The socket breaks: nothing is on its way any more. *)
LEMMA DropOrders ==
  ASSUME StreamOK, Drop
  PROVE  OrderOK' /\ CoverOK'
<1> USE DEF StreamOK
<1>1. Still /\ wire' = <<>> /\ stream' = "parked"
  BY DEF Drop, Still, channel
<1>2. wire' \in Seq({}) /\ Len(wire') = 0
  BY <1>1
<1>3. SplitOK' /\ PlaceOK'
  BY <1>1 DEF Still, OrderOK, SplitOK, PlaceOK
<1> QED
  BY <1>1, <1>2, <1>3 DEF OrderOK, FramesOK, EndOK, CoverOK

(* The channel starts over, with nothing on its way: every place is one of an earlier life. *)
LEMMA RecycleOrders ==
  ASSUME StreamOK, Recycle
  PROVE  OrderOK' /\ CoverOK'
<1> USE DEF StreamOK
<1>1. /\ wire = <<>> /\ wire' = <<>> /\ stream # "open" /\ stream' = stream /\ lastId' = lastId
      /\ epoch' = epoch + 1 /\ seq' = 0 /\ ring' = <<>>
  BY DEF Recycle, socket, chat
<1>2. wire' \in Seq({}) /\ Len(wire') = 0 /\ Len(ring') = 0
  BY <1>1
<1>3. SplitOK'
  <2>1. \A s \in 0..seq' : \E n \in 0..Len(ring') : \A i \in 1..Len(ring') : ring'[i].seq <= s <=> i <= n
    BY <1>2
  <2> QED
    BY <2>1 DEF SplitOK
<1>4. PlaceOK'
  BY <1>1 DEF OrderOK, PlaceOK, Ids
<1> QED
  BY <1>1, <1>2, <1>3, <1>4 DEF OrderOK, FramesOK, EndOK, CoverOK

(* The page takes an answer, or the end of its stream. *)
LEMMA AnswerTaken ==
  ASSUME StreamOK, Still, wire # <<>>, wire' = Tail(wire), ~Numbered(wire[1]),
         \/ wire[1].what # "end" /\ stream' = stream
         \/ wire[1].what = "end" /\ stream' = "parked"
  PROVE  OrderOK' /\ CoverOK'
<1> USE DEF StreamOK
<1>1. /\ \E S : wire' \in Seq(S)
      /\ Len(wire) \in Nat \ {0} /\ Len(wire') = Len(wire) - 1
      /\ \A i \in 1..Len(wire') : wire'[i] = wire[i + 1]
  BY TakenFrame
<1>2. 1 \in 1..Len(wire) /\ \A i \in 1..Len(wire') : i + 1 \in 1..Len(wire) /\ 1 < i + 1
  BY <1>1
<1>3. SplitOK' /\ PlaceOK'
  BY DEF Still, OrderOK, SplitOK, PlaceOK
<1>4. CASE wire[1].what = "end"
  <2>1. \A i \in 1..Len(wire') : ~Numbered(wire'[i]) /\ wire'[i].what # "end"
    <3> SUFFICES ASSUME NEW i \in 1..Len(wire')
                 PROVE  ~Numbered(wire'[i]) /\ wire'[i].what # "end"
      OBVIOUS
    <3>1. /\ wire'[i] = wire[i + 1] /\ i + 1 \in 1..Len(wire) /\ 1 < i + 1 /\ i + 1 # 1
      BY <1>1, <1>2
    <3> QED
      BY <1>2, <1>4, <3>1 DEF OrderOK, EndOK
  <2> QED
    BY <1>1, <1>3, <1>4, <2>1 DEF OrderOK, FramesOK, EndOK, CoverOK
<1>5. CASE wire[1].what # "end"
  <2>1. stream' = stream
    BY <1>5
  <2>2. FramesOK'
    <3> SUFFICES ASSUME NEW i \in 1..Len(wire'), Numbered(wire'[i])
                 PROVE  /\ wire'[i].id \in Ids /\ wire'[i].id.epoch = epoch' /\ wire'[i].id.seq \in 1..seq'
                        /\ lastId'.epoch = epoch' => lastId'.seq < wire'[i].id.seq
                        /\ \A j \in 1..Len(wire') : i < j /\ Numbered(wire'[j]) => wire'[i].id.seq < wire'[j].id.seq
                        /\ stream' \in {"open", "ended"}
      BY DEF FramesOK
    <3>1. wire'[i] = wire[i + 1] /\ i + 1 \in 1..Len(wire)
      BY <1>1, <1>2
    <3>2. \A j \in 1..Len(wire') : i < j => i + 1 < j + 1 /\ wire'[j] = wire[j + 1] /\ j + 1 \in 1..Len(wire)
      BY <1>1, <1>2
    <3> QED
      BY <2>1, <3>1, <3>2 DEF Still, OrderOK, FramesOK
  <2>3. EndOK'
    <3> SUFFICES ASSUME NEW i \in 1..Len(wire'), wire'[i].what = "end"
                 PROVE  /\ stream' = "ended"
                        /\ \A j \in 1..Len(wire') : i < j => ~Numbered(wire'[j])
                        /\ \A j \in 1..Len(wire') : wire'[j].what = "end" => j = i
      BY DEF EndOK
    <3>1. wire'[i] = wire[i + 1] /\ i + 1 \in 1..Len(wire)
      BY <1>1, <1>2
    <3>2. \A j \in 1..Len(wire') : /\ wire'[j] = wire[j + 1] /\ j + 1 \in 1..Len(wire)
                                   /\ i < j => i + 1 < j + 1
                                   /\ j + 1 = i + 1 => j = i
      BY <1>1, <1>2
    <3>3. /\ stream = "ended"
          /\ \A j \in 1..Len(wire) : i + 1 < j => ~Numbered(wire[j])
          /\ \A j \in 1..Len(wire) : wire[j].what = "end" => j = i + 1
      BY <3>1 DEF OrderOK, EndOK
    <3> QED
      BY <2>1, <3>2, <3>3
  <2>4. \A e : OnItsWay(wire, epoch, e) => OnItsWay(wire', epoch, e)
    <3> SUFFICES ASSUME NEW e, NEW j \in 1..Len(wire), wire[j].what = "event", wire[j].at = e.at,
                        wire[j].id = [epoch |-> epoch, seq |-> e.seq]
                 PROVE  OnItsWay(wire', epoch, e)
      BY DEF OnItsWay
    <3>1. j # 1
      BY DEF Numbered
    <3>2. j - 1 \in 1..Len(wire') /\ (j - 1) + 1 = j
      BY <1>1, <3>1
    <3>3. wire'[j - 1] = wire[j]
      BY <1>1, <3>2
    <3> QED
      BY <3>2, <3>3 DEF OnItsWay
  <2>5. CoverOK'
    <3>1. \A s : Covered(ring, wire, epoch, s) => Covered(ring, wire', epoch, s)
      BY <2>4 DEF Covered
    <3>2. (\E j \in 1..Len(wire) : wire[j].what = "resync") => \E j \in 1..Len(wire') : wire'[j].what = "resync"
      <4> SUFFICES ASSUME NEW j \in 1..Len(wire), wire[j].what = "resync"
                   PROVE  \E i \in 1..Len(wire') : wire'[i].what = "resync"
        OBVIOUS
      <4>1. j # 1
        BY DEF Numbered
      <4>2. j - 1 \in 1..Len(wire') /\ (j - 1) + 1 = j
        BY <1>1, <4>1
      <4>3. wire'[j - 1] = wire[j]
        BY <1>1, <4>2
      <4> QED
        BY <4>2, <4>3
    <3>3. \A j \in 1..Len(wire') : Numbered(wire'[j]) => Covered(ring, wire, epoch, wire'[j].id.seq) \/ stream # "open"
      BY <1>1, <1>2 DEF CoverOK
    <3> QED
      BY <2>1, <3>1, <3>2, <3>3 DEF Still, CoverOK
  <2> QED
    BY <1>1, <1>3, <2>2, <2>3, <2>5 DEF OrderOK
<1> QED
  BY <1>4, <1>5

(* The page takes a numbered frame: it is after the reader's place, and becomes it. *)
LEMMA FrameTaken ==
  ASSUME StreamOK, UNCHANGED <<epoch, seq, ring, stream>>, wire # <<>>, wire' = Tail(wire),
         Numbered(wire[1]), lastId' = wire[1].id
  PROVE  OrderOK' /\ CoverOK' /\ After(lastId', lastId)
<1> USE DEF StreamOK
<1>1. /\ \E S : wire' \in Seq(S)
      /\ Len(wire) \in Nat \ {0} /\ Len(wire') = Len(wire) - 1
      /\ \A i \in 1..Len(wire') : wire'[i] = wire[i + 1]
  BY TakenFrame
<1>2. 1 \in 1..Len(wire) /\ \A i \in 1..Len(wire') : i + 1 \in 1..Len(wire) /\ 1 < i + 1
  BY <1>1
<1>3. /\ wire[1].id \in Ids /\ wire[1].id.epoch = epoch /\ wire[1].id.seq \in 1..seq
      /\ lastId.epoch = epoch => lastId.seq < wire[1].id.seq
      /\ \A j \in 1..Len(wire) : 1 < j /\ Numbered(wire[j]) => wire[1].id.seq < wire[j].id.seq
  BY <1>2 DEF OrderOK, FramesOK
<1>4. seq \in Nat /\ PlaceOK
  BY DEF ChannelOK, RingOK, OrderOK
<1>5. After(lastId', lastId)
  BY <1>3, <1>4 DEF After, PlaceOK, Ids
<1>6. PlaceOK'
  BY <1>3, <1>4 DEF PlaceOK
<1>7. SplitOK'
  BY DEF OrderOK, SplitOK
<1>8. FramesOK'
  <2> SUFFICES ASSUME NEW i \in 1..Len(wire'), Numbered(wire'[i])
               PROVE  /\ wire'[i].id \in Ids /\ wire'[i].id.epoch = epoch' /\ wire'[i].id.seq \in 1..seq'
                      /\ lastId'.epoch = epoch' => lastId'.seq < wire'[i].id.seq
                      /\ \A j \in 1..Len(wire') : i < j /\ Numbered(wire'[j]) => wire'[i].id.seq < wire'[j].id.seq
                      /\ stream' \in {"open", "ended"}
    BY DEF FramesOK
  <2>1. wire'[i] = wire[i + 1] /\ i + 1 \in 1..Len(wire) /\ 1 < i + 1
    BY <1>1, <1>2
  <2>2. \A j \in 1..Len(wire') : i < j => i + 1 < j + 1 /\ wire'[j] = wire[j + 1] /\ j + 1 \in 1..Len(wire)
    BY <1>1, <1>2
  <2> QED
    BY <1>3, <2>1, <2>2 DEF OrderOK, FramesOK
<1>9. EndOK'
  <2> SUFFICES ASSUME NEW i \in 1..Len(wire'), wire'[i].what = "end"
               PROVE  /\ stream' = "ended"
                      /\ \A j \in 1..Len(wire') : i < j => ~Numbered(wire'[j])
                      /\ \A j \in 1..Len(wire') : wire'[j].what = "end" => j = i
    BY DEF EndOK
  <2>1. wire'[i] = wire[i + 1] /\ i + 1 \in 1..Len(wire)
    BY <1>1, <1>2
  <2>2. \A j \in 1..Len(wire') : /\ wire'[j] = wire[j + 1] /\ j + 1 \in 1..Len(wire)
                                 /\ i < j => i + 1 < j + 1
                                 /\ j + 1 = i + 1 => j = i
    BY <1>1, <1>2
  <2>3. /\ stream = "ended"
        /\ \A j \in 1..Len(wire) : i + 1 < j => ~Numbered(wire[j])
        /\ \A j \in 1..Len(wire) : wire[j].what = "end" => j = i + 1
    BY <2>1 DEF OrderOK, EndOK
  <2> QED
    BY <2>2, <2>3
<1>10. ASSUME NEW s, wire[1].id.seq <= s, s \in Nat, Covered(ring, wire, epoch, s)
       PROVE  Covered(ring, wire', epoch, s)
  <2> SUFFICES ASSUME NEW k \in 1..Len(ring), ring[k].seq > s
               PROVE  OnItsWay(wire', epoch, ring[k])
    BY DEF Covered
  <2>1. PICK j \in 1..Len(wire) : /\ wire[j].what = "event" /\ wire[j].at = ring[k].at
                                  /\ wire[j].id = [epoch |-> epoch, seq |-> ring[k].seq]
    BY <1>10 DEF Covered, OnItsWay
  <2>2. ring[k].seq \in Nat
    BY DEF ChannelOK, RingOK
  <2>3. wire[j].id.seq = ring[k].seq
    BY <2>1
  <2>4. j # 1
    BY <1>3, <1>10, <2>2, <2>3 DEF Ids
  <2>5. j - 1 \in 1..Len(wire') /\ (j - 1) + 1 = j
    BY <1>1, <2>4
  <2>6. wire'[j - 1] = wire[j]
    BY <1>1, <2>5
  <2> QED
    BY <2>1, <2>5, <2>6 DEF OnItsWay
<1>11. CoverOK'
  <2> SUFFICES ASSUME stream = "open" PROVE CoverOK'
    BY DEF CoverOK
  <2>1. Covered(ring, wire', epoch, lastId'.seq)
    BY <1>2, <1>3, <1>10 DEF CoverOK, Ids
  <2>2. ASSUME NEW i \in 1..Len(wire'), Numbered(wire'[i])
        PROVE  Covered(ring, wire', epoch, wire'[i].id.seq)
    <3>1. wire'[i] = wire[i + 1] /\ i + 1 \in 1..Len(wire) /\ 1 < i + 1
      BY <1>1, <1>2
    <3>2. Covered(ring, wire, epoch, wire[i + 1].id.seq)
      BY <2>2, <3>1 DEF CoverOK
    <3>3. wire[i + 1].id.seq \in Nat /\ wire[1].id.seq <= wire[i + 1].id.seq
      <4>1. wire[i + 1].id \in Ids /\ wire[1].id.seq < wire[i + 1].id.seq
        BY <1>3, <2>2, <3>1 DEF OrderOK, FramesOK
      <4> QED
        BY <1>3, <4>1 DEF Ids
    <3> QED
      BY <1>10, <3>1, <3>2, <3>3
  <2> QED
    BY <2>1, <2>2 DEF CoverOK
<1> QED
  BY <1>1, <1>5, <1>6, <1>7, <1>8, <1>9, <1>11 DEF OrderOK

(* A replay is the end of the buffer: all that is numbered after the place, in order. *)
LEMMA ReplayIsTheRest ==
  ASSUME ChannelOK, SplitOK, NEW id \in Ids, id.seq <= seq
  PROVE  \E heard \in 0..Len(ring) :
           /\ \A i \in 1..Len(ring) : ring[i].seq <= id.seq <=> i <= heard
           /\ ReplayAfter(id) \in Seq([what : {"event"}, id : Ids, at : Nat])
           /\ Len(ReplayAfter(id)) = Len(ring) - heard
           /\ \A i \in 1..(Len(ring) - heard) :
                ReplayAfter(id)[i] = [what |-> "event", id |-> At(ring[heard + i].seq),
                                      at |-> ring[heard + i].at]
<1>1. /\ seq \in Nat /\ epoch \in Nat /\ ring \in Seq([seq : Nat, at : Nat]) /\ Len(ring) \in Nat
      /\ DOMAIN ring = 1..Len(ring)
      /\ \A i \in 1..Len(ring) : ring[i].seq \in Nat /\ ring[i].at \in Nat
  <2>1. seq \in Nat /\ epoch \in Nat /\ ring \in Seq([seq : Nat, at : Nat])
    BY DEF ChannelOK, RingOK
  <2>2. Len(ring) \in Nat /\ DOMAIN ring = 1..Len(ring)
    BY <2>1
  <2>3. \A i \in 1..Len(ring) : ring[i] \in [seq : Nat, at : Nat]
    <3> DEFINE E == [seq : Nat, at : Nat]
    <3>1. ring \in Seq(E)
      BY <2>1
    <3> HIDE DEF E
    <3>2. \A i \in 1..Len(ring) : ring[i] \in E
      BY <3>1
    <3> QED
      BY <3>2 DEF E
  <2> QED
    BY <2>1, <2>2, <2>3
<1>2. id.seq \in 0..seq
  BY <1>1 DEF Ids
<1>3. PICK heard \in 0..Len(ring) : \A i \in 1..Len(ring) : ring[i].seq <= id.seq <=> i <= heard
  BY <1>2 DEF SplitOK
<1>4. Cardinality({i \in DOMAIN ring : ring[i].seq <= id.seq}) = heard
  <2>1. {i \in DOMAIN ring : ring[i].seq <= id.seq} = 1..heard
    BY <1>1, <1>3
  <2>2. heard \in Int /\ heard >= 0 /\ 1 \in Int
    BY <1>1
  <2>3. Cardinality(1..heard) = IF 1 > heard THEN 0 ELSE heard - 1 + 1
    BY <2>2, FS_Interval, Zenon
  <2>4. Cardinality(1..heard) = heard
    BY <2>2, <2>3
  <2> QED
    BY <2>1, <2>4
<1> DEFINE Frame(i) == [what |-> "event", id |-> At(ring[heard + i].seq), at |-> ring[heard + i].at]
           n == Len(ring) - heard
<1>5. ReplayAfter(id) = [i \in 1..n |-> Frame(i)]
  BY <1>4 DEF ReplayAfter
<1>6. n \in Nat
  BY <1>1, <1>3
<1>7. \A i \in 1..n : Frame(i) \in [what : {"event"}, id : Ids, at : Nat]
  <2> SUFFICES ASSUME NEW i \in 1..n PROVE Frame(i) \in [what : {"event"}, id : Ids, at : Nat]
    OBVIOUS
  <2>1. heard + i \in 1..Len(ring)
    BY <1>1, <1>3
  <2> QED
    BY <1>1, <2>1 DEF At, Ids
<1> HIDE DEF Frame, n
<1>8. ReplayAfter(id) \in Seq([what : {"event"}, id : Ids, at : Nat])
  BY <1>5, <1>6, <1>7, IsASeq
<1>9. Len(ReplayAfter(id)) = n /\ \A i \in 1..n : ReplayAfter(id)[i] = Frame(i)
  <2>1. DOMAIN ReplayAfter(id) = 1..n
    BY <1>5
  <2>2. DOMAIN ReplayAfter(id) = 1..Len(ReplayAfter(id)) /\ Len(ReplayAfter(id)) \in Nat
    BY <1>8
  <2>3. Len(ReplayAfter(id)) = n
    BY <1>6, <2>1, <2>2
  <2> QED
    BY <1>5, <2>3
<1> QED
  BY <1>3, <1>8, <1>9 DEF Frame, n

(* What a subscription puts on the wire: a resync or what is in the buffer after the reader's
   place, then the state, each numbered in this life of the channel. *)
LEMMA SubscribeShape ==
  ASSUME StreamOK, Subscribe
  PROVE  \E n \in Nat, heard \in 0..Len(ring) :
           /\ \E S : wire' \in Seq(S)
           /\ Len(wire) \in Nat /\ Len(wire') = Len(wire) + n + 1
           /\ \A i \in 1..Len(wire) : wire'[i] = wire[i]
           /\ wire'[Len(wire) + n + 1] = [what |-> "state", id |-> At(seq')]
           /\ \/ /\ n = 1 /\ seq' = seq + 2
                 /\ wire'[Len(wire) + 1] = [what |-> "resync", id |-> At(seq + 1)]
              \/ /\ n = 0 /\ seq' = seq + 1 /\ lastId = NoId
              \/ /\ n = Len(ring) - heard /\ seq' = seq + 1 /\ lastId.epoch = epoch
                 /\ \A i \in 1..Len(ring) : ring[i].seq <= lastId.seq <=> i <= heard
                 /\ \A i \in 1..n :
                      wire'[Len(wire) + i] = [what |-> "event", id |-> At(ring[heard + i].seq),
                                              at |-> ring[heard + i].at]
<1> USE DEF StreamOK
<1>1. lastId \in Ids /\ Len(ring) \in Nat /\ seq \in Nat
  BY DEF OrderOK, PlaceOK, ChannelOK, RingOK
<1>2. CASE lastId # NoId /\ ~ReplayHits(lastId)
  <2> DEFINE r == [what |-> "resync", id |-> At(seq + 1)]
             t == [what |-> "state", id |-> At(seq + 2)]
  <2>1. wire' = wire \o <<r, t>> /\ seq' = seq + 2
    BY <1>2 DEF Subscribe
  <2>2. t = [what |-> "state", id |-> At(seq')]
    BY <2>1
  <2> HIDE DEF r, t
  <2> DEFINE more == <<r, t>>
             T == {r, t}
  <2>3. more \in Seq(T) /\ Len(more) = 2 /\ more[1] = r /\ more[2] = t
    OBVIOUS
  <2>8. wire' = wire \o more
    BY <2>1
  <2> HIDE DEF more, T
  <2>9. /\ \E S : wire' \in Seq(S)
        /\ Len(wire) \in Nat /\ Len(wire') = Len(wire) + Len(more)
        /\ \A i \in 1..Len(wire) : wire'[i] = wire[i]
        /\ \A i \in 1..Len(more) : wire'[Len(wire) + i] = more[i]
    BY <2>3, <2>8, JoinedFrames
  <2>4. /\ \E S : wire' \in Seq(S)
        /\ Len(wire) \in Nat /\ Len(wire') = Len(wire) + 2
        /\ \A i \in 1..Len(wire) : wire'[i] = wire[i]
        /\ wire'[Len(wire) + 1] = r /\ wire'[Len(wire) + 2] = t
    <3>1. 1 \in 1..Len(more) /\ 2 \in 1..Len(more)
      BY <2>3
    <3> QED
      BY <2>3, <2>9, <3>1
  <2>5. Len(wire') = Len(wire) + 1 + 1 /\ Len(wire) + 1 + 1 = Len(wire) + 2
    BY <2>4
  <2> QED
    BY <1>1, <2>1, <2>2, <2>4, <2>5 DEF r
<1>3. CASE lastId = NoId
  <2> DEFINE t == [what |-> "state", id |-> At(seq + 1)]
  <2>1. wire' = wire \o <<>> \o <<t>> /\ seq' = seq + 1
    BY <1>3 DEF Subscribe
  <2>2. PICK S : wire \in Seq(S)
    BY DEF OrderOK
  <2>3. wire' = wire \o <<t>>
    BY <2>1, <2>2
  <2>4. t = [what |-> "state", id |-> At(seq')]
    BY <2>1
  <2> HIDE DEF t
  <2> DEFINE more == <<t>>
             T == {t}
  <2>5. more \in Seq(T) /\ Len(more) = 1 /\ more[1] = t
    OBVIOUS
  <2>8. wire' = wire \o more
    BY <2>3
  <2> HIDE DEF more, T
  <2>9. /\ \E U : wire' \in Seq(U)
        /\ Len(wire) \in Nat /\ Len(wire') = Len(wire) + Len(more)
        /\ \A i \in 1..Len(wire) : wire'[i] = wire[i]
        /\ \A i \in 1..Len(more) : wire'[Len(wire) + i] = more[i]
    BY <2>5, <2>8, JoinedFrames
  <2>6. /\ Len(wire') = Len(wire) + 0 + 1
        /\ wire'[Len(wire) + 0 + 1] = t
    <3>1. 1 \in 1..Len(more) /\ Len(wire) + 0 + 1 = Len(wire) + 1
      BY <2>5, <2>9
    <3> QED
      BY <2>5, <2>9, <3>1
  <2>7. 0 \in Nat /\ 0 \in 0..Len(ring)
    BY <1>1
  <2> QED
    BY <1>3, <2>1, <2>4, <2>6, <2>7, <2>9
<1>4. CASE lastId # NoId /\ ReplayHits(lastId)
  <2> DEFINE t == [what |-> "state", id |-> At(seq + 1)]
             T == [what : {"event"}, id : Ids, at : Nat]
             more == ReplayAfter(lastId) \o <<t>>
  <2>1. wire' = wire \o ReplayAfter(lastId) \o <<t>> /\ seq' = seq + 1 /\ lastId.epoch = epoch
    BY <1>4 DEF Subscribe, ReplayHits
  <2>2. PICK heard \in 0..Len(ring) :
           /\ \A i \in 1..Len(ring) : ring[i].seq <= lastId.seq <=> i <= heard
           /\ ReplayAfter(lastId) \in Seq(T)
           /\ Len(ReplayAfter(lastId)) = Len(ring) - heard
           /\ \A i \in 1..(Len(ring) - heard) :
                ReplayAfter(lastId)[i] = [what |-> "event", id |-> At(ring[heard + i].seq),
                                          at |-> ring[heard + i].at]
    BY <1>1, <1>4, ReplayIsTheRest DEF ReplayHits, OrderOK
  <2>3. t = [what |-> "state", id |-> At(seq')]
    BY <2>1
  <2> DEFINE n == Len(ring) - heard
             replay == ReplayAfter(lastId)
             U == T \cup {t}
  <2>4. n \in Nat
    BY <1>1
  <2> HIDE DEF t, T
  <2>5. replay \in Seq(U) /\ <<t>> \in Seq(U) /\ Len(<<t>>) = 1 /\ <<t>>[1] = t
    <3>1. T \subseteq U /\ t \in U
      OBVIOUS
    <3>2. replay \in Seq(U)
      BY <2>2, <3>1, SeqMonotonic
    <3> QED
      BY <3>1, <3>2
  <2> HIDE DEF U, replay
  <2>6. /\ more \in Seq(U)
        /\ Len(more) = n + 1
        /\ \A i \in 1..(n + 1) : more[i] = IF i <= n THEN replay[i] ELSE <<t>>[i - n]
    <3>1. /\ replay \o <<t>> \in Seq(U)
          /\ Len(replay \o <<t>>) = Len(replay) + Len(<<t>>)
          /\ \A i \in 1..Len(replay) + Len(<<t>>) :
                (replay \o <<t>>)[i] = IF i <= Len(replay) THEN replay[i] ELSE <<t>>[i - Len(replay)]
      BY <2>5, ConcatProperties, Zenon
    <3>2. Len(replay) = n
      BY <2>2 DEF replay
    <3>3. more = replay \o <<t>>
      BY DEF replay
    <3> HIDE DEF more, n
    <3> QED
      BY <2>5, <3>1, <3>2, <3>3
  <2>7. wire' = wire \o more
    <3>1. PICK S : wire \in Seq(S)
      BY DEF OrderOK
    <3> DEFINE V == S \cup U
    <3>2. wire \in Seq(V) /\ replay \in Seq(V) /\ <<t>> \in Seq(V)
      <4>1. S \subseteq V /\ U \subseteq V
        OBVIOUS
      <4> QED
        BY <2>5, <3>1, <4>1, SeqMonotonic
    <3> HIDE DEF V
    <3> QED
      BY <2>1, <3>2, ConcatAssociative, SMTT(30) DEF replay
  <2> HIDE DEF more
  <2>8. /\ \E S : wire' \in Seq(S)
        /\ Len(wire) \in Nat /\ Len(wire') = Len(wire) + (n + 1)
        /\ \A i \in 1..Len(wire) : wire'[i] = wire[i]
        /\ \A i \in 1..(n + 1) : wire'[Len(wire) + i] = more[i]
    BY <2>6, <2>7, JoinedFrames
  <2>9. wire'[Len(wire) + n + 1] = t
    <3>1. n + 1 \in 1..(n + 1) /\ ~(n + 1 <= n) /\ (n + 1) - n = 1
      BY <2>4
    <3>2. more[n + 1] = t
      BY <2>5, <2>6, <3>1
    <3>3. Len(wire) + (n + 1) = Len(wire) + n + 1
      BY <2>4, <2>8
    <3>4. wire'[Len(wire) + (n + 1)] = more[n + 1]
      BY <2>8, <3>1, Zenon
    <3> QED
      BY <3>2, <3>3, <3>4
  <2>10. \A i \in 1..n :
            wire'[Len(wire) + i] = [what |-> "event", id |-> At(ring[heard + i].seq),
                                    at |-> ring[heard + i].at]
    <3> SUFFICES ASSUME NEW i \in 1..n
                 PROVE  wire'[Len(wire) + i] = [what |-> "event", id |-> At(ring[heard + i].seq),
                                                at |-> ring[heard + i].at]
      OBVIOUS
    <3>1. i \in 1..(n + 1) /\ i <= n
      BY <2>4
    <3>2. more[i] = replay[i]
      BY <2>6, <3>1
    <3> QED
      BY <2>2, <2>8, <3>1, <3>2 DEF replay
  <2>11. Len(wire') = Len(wire) + n + 1
    BY <2>4, <2>8
  <2> QED
    BY <2>1, <2>2, <2>3, <2>4, <2>8, <2>9, <2>10, <2>11
<1> QED
  BY <1>2, <1>3, <1>4

(* The frames a subscription sends are numbered above the reader's place and upwards, and leave
   nothing of the buffer out that is not covered by a resync. *)
LEMMA SubscribeOrders ==
  ASSUME StreamOK, Subscribe
  PROVE  OrderOK' /\ CoverOK'
<1> USE DEF StreamOK
<1>1. /\ seq \in Nat /\ epoch \in Nat \ {0} /\ Len(ring) \in Nat
      /\ \A i \in 1..Len(ring) : ring[i].seq \in 1..seq /\ ring[i].seq \in Nat
      /\ \A i, j \in 1..Len(ring) : i < j => ring[i].seq < ring[j].seq
  <2>1. RingOK /\ epoch \in Nat \ {0}
    BY DEF ChannelOK, OrderOK, PlaceOK
  <2>2. seq \in Nat /\ evicted \in 0..seq /\ Len(ring) \in Nat
    BY <2>1 DEF RingOK
  <2>3. \A i \in 1..Len(ring) : ring[i].seq \in (evicted + 1)..seq
    BY <2>1 DEF RingOK
  <2> QED
    BY <2>1, <2>2, <2>3 DEF RingOK
<1>2. /\ lastId \in Ids /\ lastId.epoch \in Nat /\ lastId.seq \in Nat
      /\ lastId.epoch < epoch \/ (lastId.epoch = epoch /\ lastId.seq <= seq)
  BY DEF OrderOK, PlaceOK, Ids
<1>3. /\ stream = "issued" /\ stream' = "open" /\ lastId' = lastId
      /\ epoch' = epoch /\ ring' = ring
  BY DEF Subscribe, chat
<1>4. \A i \in 1..Len(wire) : ~Numbered(wire[i]) /\ wire[i].what # "end"
  BY <1>3 DEF OrderOK, FramesOK, EndOK
<1>5. PICK n \in Nat, heard \in 0..Len(ring) :
           /\ \E S : wire' \in Seq(S)
           /\ Len(wire) \in Nat /\ Len(wire') = Len(wire) + n + 1
           /\ \A i \in 1..Len(wire) : wire'[i] = wire[i]
           /\ wire'[Len(wire) + n + 1] = [what |-> "state", id |-> At(seq')]
           /\ \/ /\ n = 1 /\ seq' = seq + 2
                 /\ wire'[Len(wire) + 1] = [what |-> "resync", id |-> At(seq + 1)]
              \/ /\ n = 0 /\ seq' = seq + 1 /\ lastId = NoId
              \/ /\ n = Len(ring) - heard /\ seq' = seq + 1 /\ lastId.epoch = epoch
                 /\ \A i \in 1..Len(ring) : ring[i].seq <= lastId.seq <=> i <= heard
                 /\ \A i \in 1..n :
                      wire'[Len(wire) + i] = [what |-> "event", id |-> At(ring[heard + i].seq),
                                              at |-> ring[heard + i].at]
  BY SubscribeShape
<1>6. seq' \in Nat /\ seq < seq'
  BY <1>1, <1>5
<1> DEFINE L == Len(wire)
           missed == n = 1 /\ seq' = seq + 2
                       /\ wire'[L + 1] = [what |-> "resync", id |-> At(seq + 1)]
           fresh  == n = 0 /\ seq' = seq + 1 /\ lastId = NoId
           hit    == /\ n = Len(ring) - heard /\ seq' = seq + 1 /\ lastId.epoch = epoch
                     /\ \A i \in 1..Len(ring) : ring[i].seq <= lastId.seq <=> i <= heard
                     /\ \A i \in 1..n :
                          wire'[L + i] = [what |-> "event", id |-> At(ring[heard + i].seq),
                                          at |-> ring[heard + i].at]
<1>7. L \in Nat /\ Len(wire') = L + n + 1 /\ (missed \/ fresh \/ hit)
  BY <1>5
<1> HIDE DEF missed, fresh, hit
(* The state. *)
<1>8. /\ Numbered(wire'[L + n + 1]) /\ wire'[L + n + 1].what # "end"
      /\ wire'[L + n + 1].id \in Ids
      /\ wire'[L + n + 1].id.epoch = epoch /\ wire'[L + n + 1].id.seq = seq'
  BY <1>1, <1>5, <1>6 DEF Numbered, At, Ids
(* What comes before it. *)
<1>9. ASSUME NEW p \in 1..n
      PROVE  /\ Numbered(wire'[L + p]) /\ wire'[L + p].what # "end"
             /\ wire'[L + p].id \in Ids
             /\ wire'[L + p].id.epoch = epoch
             /\ wire'[L + p].id.seq \in Nat /\ 1 <= wire'[L + p].id.seq
             /\ wire'[L + p].id.seq < seq'
             /\ lastId.epoch = epoch => lastId.seq < wire'[L + p].id.seq
             /\ hit => heard + p \in 1..Len(ring) /\ wire'[L + p].id.seq = ring[heard + p].seq
             /\ missed => wire'[L + p].what = "resync" /\ wire'[L + p].id.seq = seq + 1
  <2>1. CASE missed
    <3>1. p = 1 /\ seq' = seq + 2 /\ wire'[L + p] = [what |-> "resync", id |-> At(seq + 1)]
      BY <2>1 DEF missed
    <3>2. ~hit
      <4>1. seq' # seq + 1
        BY <1>1, <3>1
      <4> QED
        BY <4>1 DEF hit
    <3> QED
      BY <1>1, <1>2, <3>1, <3>2 DEF Numbered, At, Ids
  <2>2. CASE fresh
    BY <2>2 DEF fresh
  <2>3. CASE hit
    <3>1. n = Len(ring) - heard /\ lastId.epoch = epoch /\ seq' = seq + 1
      BY <2>3 DEF hit
    <3>2. heard + p \in 1..Len(ring) /\ ~(heard + p <= heard)
      BY <1>1, <3>1
    <3>3. wire'[L + p] = [what |-> "event", id |-> At(ring[heard + p].seq), at |-> ring[heard + p].at]
      BY <2>3 DEF hit
    <3>4. ring[heard + p].seq \in 1..seq /\ ~(ring[heard + p].seq <= lastId.seq)
      BY <1>1, <2>3, <3>2 DEF hit
    <3>5. ~missed
      <4>1. seq' # seq + 2
        BY <1>1, <3>1
      <4> QED
        BY <4>1 DEF missed
    <3>6. wire'[L + p].what = "event" /\ wire'[L + p].id = [epoch |-> epoch, seq |-> ring[heard + p].seq]
      BY <3>3 DEF At
    <3> QED
      BY <1>1, <1>2, <3>1, <3>2, <3>4, <3>5, <3>6 DEF Numbered, Ids
  <2> QED
    BY <1>7, <2>1, <2>2, <2>3
<1>10. ASSUME NEW p \in 1..n, NEW q \in 1..n, p < q
       PROVE  wire'[L + p].id.seq < wire'[L + q].id.seq
  <2>1. CASE missed
    BY <1>10, <2>1 DEF missed
  <2>2. CASE fresh
    BY <2>2 DEF fresh
  <2>3. CASE hit
    <3>1. heard + p < heard + q
      BY <1>10
    <3> QED
      BY <1>1, <1>9, <2>3, <3>1
  <2> QED
    BY <1>7, <2>1, <2>2, <2>3
<1>11. \A i \in 1..Len(wire') :
          \/ i \in 1..L /\ wire'[i] = wire[i]
          \/ i = L + n + 1
          \/ \E p \in 1..n : i = L + p
  <2> SUFFICES ASSUME NEW i \in 1..Len(wire'), i \notin 1..L, i # L + n + 1
               PROVE  \E p \in 1..n : i = L + p
    BY <1>5
  <2>1. i - L \in 1..n /\ i = L + (i - L)
    BY <1>7
  <2> QED
    BY <2>1
<1> HIDE DEF L
<1>12. SplitOK'
  <2> SUFFICES ASSUME NEW s \in 0..seq'
               PROVE  \E m \in 0..Len(ring) : \A i \in 1..Len(ring) : ring[i].seq <= s <=> i <= m
    BY <1>3 DEF SplitOK
  <2>1. CASE s \in 0..seq
    BY <2>1 DEF OrderOK, SplitOK
  <2>2. CASE s \notin 0..seq
    <3>1. \A i \in 1..Len(ring) : ring[i].seq <= s /\ i <= Len(ring)
      BY <1>1, <1>6, <2>2
    <3>2. Len(ring) \in 0..Len(ring)
      BY <1>1
    <3> QED
      BY <3>1, <3>2
  <2> QED
    BY <2>1, <2>2
<1>13. PlaceOK'
  BY <1>1, <1>2, <1>3, <1>6 DEF PlaceOK
<1>14. FramesOK'
  <2> SUFFICES ASSUME NEW i \in 1..Len(wire'), Numbered(wire'[i])
               PROVE  /\ wire'[i].id \in Ids /\ wire'[i].id.epoch = epoch
                      /\ wire'[i].id.seq \in 1..seq'
                      /\ lastId.epoch = epoch => lastId.seq < wire'[i].id.seq
                      /\ \A j \in 1..Len(wire') : i < j /\ Numbered(wire'[j])
                            => wire'[i].id.seq < wire'[j].id.seq
    BY <1>3 DEF FramesOK, Numbered, Ids
  <2>1. i \notin 1..L \/ wire'[i] # wire[i]
    BY <1>4 DEF L
  <2>2. CASE i = L + n + 1
    <3>1. \A j \in 1..Len(wire') : ~(i < j)
      BY <1>7, <2>2
    <3>2. 1 <= seq' /\ (lastId.epoch = epoch => lastId.seq < seq')
      BY <1>1, <1>2, <1>6
    <3> QED
      BY <1>6, <1>8, <2>2, <3>1, <3>2
  <2>3. ASSUME NEW p \in 1..n, i = L + p
        PROVE  /\ wire'[i].id \in Ids /\ wire'[i].id.epoch = epoch
               /\ wire'[i].id.seq \in 1..seq'
               /\ lastId.epoch = epoch => lastId.seq < wire'[i].id.seq
               /\ \A j \in 1..Len(wire') : i < j /\ Numbered(wire'[j])
                     => wire'[i].id.seq < wire'[j].id.seq
    <3>1. ASSUME NEW j \in 1..Len(wire'), i < j
          PROVE  wire'[i].id.seq < wire'[j].id.seq
      <4>1. CASE j = L + n + 1
        BY <1>8, <1>9, <2>3, <4>1
      <4>2. ASSUME NEW q \in 1..n, j = L + q PROVE wire'[i].id.seq < wire'[j].id.seq
        <5>1. p < q
          BY <1>7, <2>3, <3>1, <4>2
        <5> QED
          BY <1>10, <2>3, <4>2, <5>1
      <4>3. j \notin 1..L
        BY <1>7, <2>3, <3>1
      <4> QED
        BY <1>11, <4>1, <4>2, <4>3
    <3>2. /\ wire'[i].id \in Ids /\ wire'[i].id.epoch = epoch
          /\ wire'[i].id.seq \in Nat /\ 1 <= wire'[i].id.seq /\ wire'[i].id.seq < seq'
          /\ lastId.epoch = epoch => lastId.seq < wire'[i].id.seq
      BY <1>9, <2>3
    <3>3. wire'[i].id.seq \in 1..seq'
      BY <1>6, <3>2
    <3> QED
      BY <3>1, <3>2, <3>3
  <2> QED
    BY <1>11, <2>1, <2>2, <2>3
<1>15. EndOK'
  <2>1. ASSUME NEW i \in 1..Len(wire') PROVE wire'[i].what # "end"
    <3>1. CASE i \in 1..L /\ wire'[i] = wire[i]
      BY <1>4, <3>1 DEF L
    <3>2. CASE i = L + n + 1
      BY <1>8, <3>2
    <3>3. ASSUME NEW p \in 1..n, i = L + p PROVE wire'[i].what # "end"
      BY <1>9, <3>3
    <3> QED
      BY <1>11, <3>1, <3>2, <3>3
  <2> QED
    BY <2>1 DEF EndOK
(* Nothing in the buffer is numbered as high as the frames sent after it. *)
<1>16. ASSUME NEW s \in Nat, s > seq PROVE Covered(ring, wire', epoch, s)
  <2>1. \A k \in 1..Len(ring) : ~(ring[k].seq > s)
    BY <1>1, <1>16
  <2> QED
    BY <2>1 DEF Covered
(* A hit puts on the wire all that is numbered after the reader's place. *)
<1>17. ASSUME hit, NEW s \in Nat, lastId.seq <= s PROVE Covered(ring, wire', epoch, s)
  <2> SUFFICES ASSUME NEW k \in 1..Len(ring), ring[k].seq > s
               PROVE  OnItsWay(wire', epoch, ring[k])
    BY DEF Covered
  <2>1. ~(ring[k].seq <= lastId.seq)
    BY <1>1, <1>2, <1>17
  <2>2. ~(k <= heard) /\ n = Len(ring) - heard
    BY <1>17, <2>1 DEF hit
  <2>3. k - heard \in 1..n /\ heard + (k - heard) = k
    BY <1>1, <2>2
  <2>4. wire'[L + (k - heard)] = [what |-> "event", id |-> At(ring[k].seq), at |-> ring[k].at]
    BY <1>17, <2>3 DEF hit, L
  <2>5. L + (k - heard) \in 1..Len(wire')
    BY <1>7, <2>3
  <2> QED
    BY <2>4, <2>5 DEF OnItsWay, At
<1>18. CoverOK'
  <2>1. ASSUME NEW i \in 1..Len(wire'), Numbered(wire'[i])
        PROVE  Covered(ring, wire', epoch, wire'[i].id.seq)
    <3>1. CASE i = L + n + 1
      BY <1>6, <1>8, <1>16, <3>1
    <3>2. ASSUME NEW p \in 1..n, i = L + p PROVE Covered(ring, wire', epoch, wire'[i].id.seq)
      <4>1. wire'[i].id.seq \in Nat /\ (lastId.epoch = epoch => lastId.seq < wire'[i].id.seq)
        BY <1>9, <3>2
      <4>2. CASE missed
        <5>1. wire'[i].id.seq > seq
          BY <1>1, <1>9, <3>2, <4>2
        <5> QED
          BY <1>16, <4>1, <5>1
      <4>3. CASE fresh
        BY <4>3 DEF fresh
      <4>4. CASE hit
        <5>1. lastId.seq <= wire'[i].id.seq
          BY <1>2, <4>1, <4>4 DEF hit
        <5> QED
          BY <1>17, <4>1, <4>4, <5>1
      <4> QED
        BY <1>7, <4>2, <4>3, <4>4
    <3>3. i \notin 1..L \/ wire'[i] # wire[i]
      BY <1>4, <2>1 DEF L
    <3> QED
      BY <1>11, <3>1, <3>2, <3>3
  <2>2. ASSUME lastId.epoch = epoch
        PROVE  \/ Covered(ring, wire', epoch, lastId.seq)
               \/ \E i \in 1..Len(wire') : wire'[i].what = "resync"
    <3>1. CASE missed
      <4>1. 1 \in 1..n /\ L + 1 \in 1..Len(wire')
        BY <1>7, <3>1 DEF missed
      <4>2. wire'[L + 1].what = "resync"
        BY <1>9, <3>1, <4>1
      <4> QED
        BY <4>1, <4>2
    <3>2. CASE fresh
      BY <1>1, <2>2, <3>2 DEF fresh, NoId
    <3>3. CASE hit
      BY <1>2, <1>17, <3>3
    <3> QED
      BY <1>7, <3>1, <3>2, <3>3
  <2> QED
    <3>1. Covered(ring', wire', epoch', lastId'.seq) <=> Covered(ring, wire', epoch, lastId.seq)
      BY <1>3
    <3>2. \A i \in 1..Len(wire') : Numbered(wire'[i]) => Covered(ring', wire', epoch', wire'[i].id.seq)
      BY <1>3, <2>1
    <3>3. lastId'.epoch = epoch' =>
             \/ Covered(ring', wire', epoch', lastId'.seq)
             \/ \E i \in 1..Len(wire') : wire'[i].what = "resync"
      BY <1>3, <2>2, <3>1
    <3> QED
      BY <3>2, <3>3 DEF CoverOK
<1> QED
  BY <1>5, <1>12, <1>13, <1>14, <1>15, <1>18 DEF OrderOK

(* Every step keeps what is on the wire in order and complete, and moves the reader's place only
   to a later one. *)
LEMMA StreamStep ==
  ASSUME StreamOK, [Next]_vars
  PROVE  StreamOK' /\ (lastId' # lastId => After(lastId', lastId))
<1> USE DEF StreamOK
<1>1. ChannelOK'
  BY ChannelStep
<1>2. OrderOK' /\ CoverOK' /\ (lastId' # lastId => After(lastId', lastId))
  <2>1. ASSUME NEW at \in Nat, Broadcast(at), UNCHANGED <<epoch, stream, lastId>>
        PROVE  OrderOK' /\ CoverOK'
    BY <2>1, BroadcastOrders, BroadcastCovers
  <2>2. CASE RunStarts
    BY <2>1, <2>2 DEF RunStarts, Notice, socket, chat
  <2>3. CASE RunEnds
    BY <2>1, <2>3 DEF RunEnds, Notice, socket, chat
  <2>4. CASE Publish
    <3>1. said + 1 \in Nat
      BY DEF ChannelOK
    <3> QED
      BY <2>1, <2>4, <3>1 DEF Publish, socket, chat
  <2>5. CASE Recycle
    BY <2>5, RecycleOrders DEF Recycle, chat
  <2>6. CASE Subscribe
    BY <2>6, SubscribeOrders DEF Subscribe, chat
  <2>7. CASE TraceAppended \/ (\E n \in asked : Capture(n)) \/ Reconnect \/ Retry \/ UNCHANGED vars
    <3>1. /\ Still /\ wire' = wire /\ lastId' = lastId
          /\ stream' = stream \/ (stream = "parked" /\ stream' = "issued")
      BY <2>7 DEF TraceAppended, Capture, Reconnect, Retry, Still, run, channel, socket, chat, vars
    <3> QED
      BY <3>1, WireStays
  <2>8. ASSUME NEW r \in reads, Read(r) \/ ReadFails(r)
        PROVE  OrderOK' /\ CoverOK' /\ lastId' = lastId
    <3> DEFINE page == [what |-> "page", load |-> r.load, upto |-> traced, live |-> r.live]
               error == [what |-> "error", load |-> r.load]
    <3>1. Still /\ stream' = stream /\ lastId' = lastId
      BY <2>8 DEF Read, ReadFails, Still, channel, chat
    <3>2. /\ ~Numbered(page) /\ page.what # "end"
          /\ ~Numbered(error) /\ error.what # "end"
      BY DEF Numbered
    <3>3. wire' = Append(wire, page) \/ wire' = Append(wire, error)
      BY <2>8 DEF Read, ReadFails
    <3> HIDE DEF page, error
    <3> QED
      BY <3>1, <3>2, <3>3, AnswerJoins
  <2>9. CASE Lag
    BY <2>9, LagOrders DEF Lag, chat
  <2>10. CASE Drop
    BY <2>10, DropOrders DEF Drop
  <2>11. ASSUME wire # <<>> PROVE Head(wire) = wire[1]
    BY <2>11 DEF OrderOK
  <2>12. CASE HearEvent \/ HearState \/ HearResync
    <3>1. /\ UNCHANGED <<epoch, seq, ring, stream>> /\ wire # <<>> /\ wire' = Tail(wire)
          /\ Head(wire).what \in {"event", "state", "resync"} /\ lastId' = Head(wire).id
      BY <2>12 DEF HearEvent, HearState, HearResync, NextIs, channel, socket
    <3>2. Numbered(wire[1]) /\ lastId' = wire[1].id
      BY <2>11, <3>1 DEF Numbered
    <3> QED
      BY <3>1, <3>2, FrameTaken
  <2>13. CASE HearPage \/ HearError \/ HearEnd
    <3>1. /\ Still /\ wire # <<>> /\ wire' = Tail(wire) /\ lastId' = lastId
          /\ \/ Head(wire).what \in {"page", "error"} /\ stream' = stream
             \/ Head(wire).what = "end" /\ stream' = "parked"
      BY <2>13 DEF HearPage, HearError, HearEnd, NextIs, Still, channel, socket, chat
    <3>2. /\ ~Numbered(wire[1])
          /\ \/ wire[1].what # "end" /\ stream' = stream
             \/ wire[1].what = "end" /\ stream' = "parked"
      BY <2>11, <3>1 DEF Numbered
    <3> QED
      BY <3>1, <3>2, AnswerTaken
  <2> QED
    BY <2>2, <2>3, <2>4, <2>5, <2>6, <2>7, <2>8, <2>9, <2>10, <2>12, <2>13
       DEF Next, Hear, RunStarts, RunEnds, Publish, chat
<1> QED
  BY <1>1, <1>2

(* In the opening state nothing is numbered. *)
LEMMA StreamStarts == Init => StreamOK
<1> SUFFICES ASSUME Init PROVE StreamOK
  OBVIOUS
<1>1. ChannelOK
  BY RingAssumption DEF Init, ChannelOK, RingOK
<1>2. Len(ring) = 0 /\ Len(wire) = 0 /\ wire \in Seq({})
  BY DEF Init
<1>3. OrderOK
  BY <1>2 DEF Init, OrderOK, SplitOK, PlaceOK, FramesOK, EndOK, NoId, Ids
<1> QED
  BY <1>1, <1>3 DEF Init, StreamOK, CoverOK

(* What moves the page's place in the stream moves it forward: through dropped sockets, ended
   streams, replays, resyncs and the new lives of a recycled channel, no numbered frame is heard
   twice or after one that follows it. *)
THEOREM HeardInOrder == Spec => [][lastId' # lastId => After(lastId', lastId)]_vars
<1>1. Init => StreamOK
  BY StreamStarts
<1>2. StreamOK /\ [Next]_vars => StreamOK'
  BY StreamStep
<1>3. StreamOK /\ [Next]_vars => [lastId' # lastId => After(lastId', lastId)]_vars
  BY StreamStep
<1> QED
  BY <1>1, <1>2, <1>3, PTL DEF Spec

(* While the page is connected, all that the channel's buffer holds beyond the page's place is on
   its way to it, unless a resync is: whatever the subscription replayed or skipped, no event that
   could still be had is missed in silence. *)
THEOREM NoneMissed == Spec => []CoverOK
<1>1. Init => StreamOK
  BY StreamStarts
<1>2. StreamOK /\ [Next]_vars => StreamOK'
  BY StreamStep
<1>3. StreamOK => CoverOK
  BY DEF StreamOK
<1> QED
  BY <1>1, <1>2, <1>3, PTL DEF Spec

------------------------------------------------------------------------------
(* The types of all variables. *)

(* What the types need beside StreamOK: each new life of the channel is counted. *)
KindsOK ==
  /\ TypeOK
  /\ recycles = epoch - 1 /\ load \in Nat \ {0}

(* One more event completes at most one more message. *)
LEMMA WrittenGrows ==
  ASSUME NEW k \in Nat
  PROVE  Written(k) \in Nat /\ Written(k) <= Written(k + 1)
<1> DEFINE Done(n) == {i \in 1..n : Script[i].part = "done"}
<1>1. \A n \in Nat : IsFiniteSet(Done(n)) /\ Cardinality(Done(n)) \in Nat
  <2> SUFFICES ASSUME NEW n \in Nat PROVE IsFiniteSet(Done(n)) /\ Cardinality(Done(n)) \in Nat
    OBVIOUS
  <2>1. IsFiniteSet(1..n)
    BY FS_Interval
  <2>2. Done(n) \subseteq 1..n
    OBVIOUS
  <2> QED
    BY <2>1, <2>2, FS_Subset, FS_CardinalityType
<1>2. k + 1 \in Nat /\ Done(k) \subseteq Done(k + 1)
  OBVIOUS
<1>3. Cardinality(Done(k)) <= Cardinality(Done(k + 1))
  <2> HIDE DEF Done
  <2> QED
    BY <1>1, <1>2, FS_Subset
<1> QED
  BY <1>1, <1>3 DEF Written

(* Every step keeps the types. *)
LEMMA KindsStep ==
  ASSUME KindsOK, StreamOK, StreamOK', [Next]_vars
  PROVE  KindsOK'
<1> USE BoundsAssumption
<1>1. Len(Script) \in Nat
  BY ScriptAssumption
<1>2. RingOK' /\ epoch \in Nat /\ seq \in Nat
  BY DEF StreamOK, ChannelOK, RingOK
<1>3. /\ lastId' \in [epoch : 0..epoch', seq : Nat]
  <2>1. PlaceOK'
    BY DEF StreamOK, OrderOK
  <2> QED
    BY <2>1 DEF PlaceOK, Ids
<1>4. /\ said \in 0..Len(Script) /\ began \in 0..Len(Script) /\ traced \in 0..Written(said)
      /\ epoch \in 1..(MaxRecycles + 1) /\ Len(tail) <= 1
      /\ stream \in {"issued", "open", "ended", "parked"} /\ joined \in 0..said
      /\ asked \subseteq 1..load /\ \A r \in reads : r.load \in 1..load
      /\ phase \in {"buffering", "live"} /\ failed \in BOOLEAN
      /\ drops \in 0..MaxDrops /\ recycles \in 0..MaxRecycles /\ retries \in 0..MaxRetries
      /\ recycles = epoch - 1 /\ load \in Nat \ {0}
  BY DEF KindsOK, TypeOK
<1> DEFINE Run     == said' \in 0..Len(Script) /\ began' \in 0..Len(Script) /\ traced' \in 0..Written(said')
           Channel == epoch' \in 1..(MaxRecycles + 1) /\ Len(tail') <= 1
           Socket  == /\ stream' \in {"issued", "open", "ended", "parked"} /\ joined' \in 0..said'
                      /\ asked' \subseteq 1..load' /\ \A r \in reads' : r.load \in 1..load'
           Chat    == phase' \in {"buffering", "live"} /\ failed' \in BOOLEAN /\ load' \in Nat \ {0}
           Bounds  == /\ drops' \in 0..MaxDrops /\ recycles' \in 0..MaxRecycles
                      /\ retries' \in 0..MaxRetries /\ recycles' = epoch' - 1
<1>5. Run /\ Channel /\ Socket /\ Chat /\ Bounds => KindsOK'
  BY <1>2, <1>3 DEF KindsOK, TypeOK
<1>6. UNCHANGED run => Run
  BY <1>4 DEF run
<1>7. UNCHANGED <<epoch, tail>> => Channel
  BY <1>4
<1>8. UNCHANGED <<socket, said, load>> => Socket
  BY <1>4 DEF socket
<1>9. UNCHANGED chat => Chat
  BY <1>4 DEF chat
<1>10. UNCHANGED <<bounds, epoch>> => Bounds
  BY <1>4 DEF bounds
<1>11. CASE RunStarts
  <2>1. Run
    BY <1>1, <1>4, <1>11 DEF RunStarts
  <2> QED
    BY <1>5, <1>7, <1>8, <1>9, <1>10, <1>11, <2>1 DEF RunStarts, chat
<1>12. CASE RunEnds
  <2>1. Run
    BY <1>1, <1>4, <1>12 DEF RunEnds, Idle
  <2>2. Channel
    BY <1>4, <1>12 DEF RunEnds
  <2> QED
    BY <1>5, <1>8, <1>9, <1>10, <1>12, <2>1, <2>2 DEF RunEnds, chat
<1>13. CASE Publish
  <2>1. said \in Nat /\ said' = said + 1 /\ said < Len(Script)
    BY <1>1, <1>4, <1>13 DEF Publish
  <2>2. Run
    <3>1. Written(said) \in Nat /\ Written(said) <= Written(said + 1)
      BY <2>1, WrittenGrows
    <3>2. began' = began /\ traced' = traced /\ traced = Written(said)
      BY <1>13 DEF Publish
    <3>3. traced' \in 0..Written(said')
      <4>1. Written(said + 1) \in Nat
        BY <2>1, WrittenGrows
      <4> HIDE DEF Run, Channel, Socket, Chat, Bounds
      <4> QED
        BY <2>1, <3>1, <3>2, <4>1
    <3> QED
      BY <1>1, <1>4, <2>1, <3>2, <3>3
  <2>3. Channel
    <3>1. epoch' = epoch /\ tail' = Observe(said + 1)
      BY <1>13 DEF Publish
    <3>2. Len(Observe(said + 1)) <= 1
      <4> DEFINE e == Script[said + 1]
                 opened == [of |-> e.of, text |-> <<said + 1>>]
                 longer == [tail[1] EXCEPT !.text = Append(@, said + 1)]
      <4>1. \/ Observe(said + 1) = <<opened>>
            \/ Observe(said + 1) = <<longer>>
            \/ Observe(said + 1) = <<>>
        BY DEF Observe
      <4> HIDE DEF opened, longer
      <4>2. CASE Observe(said + 1) = <<>>
        BY <4>2
      <4>3. ASSUME NEW x, Observe(said + 1) = <<x>> PROVE Len(Observe(said + 1)) <= 1
        <5>1. Len(<<x>>) = 1
          OBVIOUS
        <5>2. Len(Observe(said + 1)) = 1
          BY <4>3, <5>1, Zenon
        <5> QED
          BY <5>2
      <4>4. CASE Observe(said + 1) = <<opened>>
        BY <4>3, <4>4, Zenon
      <4>5. CASE Observe(said + 1) = <<longer>>
        BY <4>3, <4>5, Zenon
      <4> QED
        BY <4>1, <4>2, <4>4, <4>5
    <3> QED
      BY <1>4, <3>1, <3>2
  <2>4. Socket
    BY <1>4, <1>13, <2>1 DEF Publish, socket, chat
  <2> QED
    BY <1>5, <1>9, <1>10, <1>13, <2>2, <2>3, <2>4 DEF Publish
<1>14. CASE TraceAppended
  <2>1. Run
    <3>1. Written(said) \in Nat
      BY <1>4, WrittenGrows
    <3> QED
      BY <1>4, <1>14, <3>1 DEF TraceAppended
  <2> QED
    BY <1>5, <1>7, <1>8, <1>9, <1>10, <1>14, <2>1 DEF TraceAppended, channel, chat
<1>15. CASE Recycle
  <2>1. Channel /\ Bounds
    BY <1>4, <1>15 DEF Recycle
  <2> QED
    BY <1>5, <1>6, <1>8, <1>9, <1>15, <2>1 DEF Recycle, run, chat
<1>16. CASE Subscribe
  <2>1. Socket
    BY <1>4, <1>16 DEF Subscribe, run, chat
  <2> QED
    BY <1>5, <1>6, <1>7, <1>9, <1>10, <1>16, <2>1 DEF Subscribe
<1>17. ASSUME NEW n \in asked, Capture(n) PROVE KindsOK'
  <2>1. Socket
    BY <1>4, <1>17 DEF Capture, run, chat
  <2> QED
    BY <1>5, <1>6, <1>7, <1>9, <1>10, <1>17, <2>1 DEF Capture, channel
<1>18. ASSUME NEW r \in reads, Read(r) \/ ReadFails(r) PROVE KindsOK'
  <2>1. Socket
    BY <1>4, <1>18 DEF Read, ReadFails, run, chat
  <2> QED
    BY <1>5, <1>6, <1>7, <1>9, <1>10, <1>18, <2>1 DEF Read, ReadFails, channel
<1>19. CASE Lag
  <2>1. Socket /\ Bounds
    BY <1>4, <1>19 DEF Lag, run, chat, channel
  <2> QED
    BY <1>5, <1>6, <1>7, <1>9, <1>19, <2>1 DEF Lag, channel
<1>20. CASE HearEvent \/ HearState
  <2>1. Chat
    BY <1>4, <1>20 DEF HearEvent, HearState
  <2> QED
    BY <1>5, <1>6, <1>7, <1>8, <1>10, <1>20, <2>1 DEF HearEvent, HearState, channel, run
<1>21. CASE HearResync \/ HearPage
  <2>1. /\ UNCHANGED <<run, channel, stream, joined, reads, bounds>>
        /\ phase' \in {phase, "buffering", "live"} /\ failed' \in {failed, FALSE}
        /\ (load' = load /\ asked' = asked) \/ Ask(load + 1)
    BY <1>21 DEF HearResync, HearPage
  <2>2. Chat
    <3>1. load' = load \/ load' = load + 1
      BY <2>1 DEF Ask
    <3>2. phase' \in {"buffering", "live"} /\ load' \in Nat \ {0}
      BY <1>4, <2>1, <3>1
    <3>3. failed' \in BOOLEAN
      BY <1>4, <2>1, Zenon
    <3> QED
      BY <3>2, <3>3
  <2>3. Socket
    <3>1. /\ stream' = stream /\ joined' = joined /\ reads' = reads /\ said' = said
          /\ load' >= load /\ load' \in Nat
      BY <1>4, <2>1 DEF Ask, run
    <3>2. CASE load' = load /\ asked' = asked
      BY <1>4, <3>1, <3>2
    <3>3. CASE Ask(load + 1)
      BY <1>4, <3>1, <3>3 DEF Ask
    <3> QED
      BY <2>1, <3>2, <3>3
  <2> QED
    BY <1>5, <1>6, <1>7, <1>10, <2>1, <2>2, <2>3 DEF channel
<1>22. CASE HearError
  <2>1. Chat
    BY <1>4, <1>22 DEF HearError
  <2> QED
    BY <1>5, <1>6, <1>7, <1>8, <1>10, <1>22, <2>1 DEF HearError, channel, run
<1>23. CASE HearEnd
  <2>1. Socket
    BY <1>4, <1>23 DEF HearEnd, run, chat
  <2> QED
    BY <1>5, <1>6, <1>7, <1>9, <1>10, <1>23, <2>1 DEF HearEnd, channel
<1>24. CASE Drop
  <2>1. failed' \in BOOLEAN
    BY <1>24, Zenon DEF Drop
  <2>2. Socket /\ Chat /\ Bounds
    BY <1>4, <1>24, <2>1 DEF Drop, run, channel
  <2> QED
    BY <1>5, <1>6, <1>7, <1>24, <2>2 DEF Drop, channel
<1>25. CASE Reconnect
  <2>1. Socket
    BY <1>4, <1>25 DEF Reconnect, run, chat
  <2> QED
    BY <1>5, <1>6, <1>7, <1>9, <1>10, <1>25, <2>1 DEF Reconnect, channel
<1>26. CASE Retry
  <2>1. Socket /\ Chat /\ Bounds
    BY <1>4, <1>26 DEF Retry, Ask, run, channel
  <2> QED
    BY <1>5, <1>6, <1>7, <1>26, <2>1 DEF Retry, channel
<1>27. CASE UNCHANGED vars
  <2>1. UNCHANGED <<run, epoch, tail, socket, said, load, chat, bounds>>
    BY <1>27 DEF vars, run, socket, chat, bounds
  <2> QED
    BY <1>5, <1>6, <1>7, <1>8, <1>9, <1>10, <2>1
<1> QED
  BY <1>11, <1>12, <1>13, <1>14, <1>15, <1>16, <1>17, <1>18, <1>19, <1>20, <1>21, <1>22, <1>23,
     <1>24, <1>25, <1>26, <1>27 DEF Next, Hear

(* At the start every variable has its type. *)
LEMMA KindsStart == Init => StreamOK /\ KindsOK
<1> SUFFICES ASSUME Init PROVE KindsOK
  BY StreamStarts
<1>1. Len(Script) \in Nat
  BY ScriptAssumption
<1>2. Written(0) \in Nat
  BY WrittenGrows
<1>3. RingOK
  BY StreamStarts DEF StreamOK, ChannelOK
<1>4. /\ said \in 0..Len(Script) /\ began \in 0..Len(Script) /\ traced \in 0..Written(said)
  BY <1>1, <1>2 DEF Init, Idle
<1>5. /\ epoch \in 1..(MaxRecycles + 1) /\ Len(tail) <= 1
      /\ drops \in 0..MaxDrops /\ recycles \in 0..MaxRecycles /\ retries \in 0..MaxRetries
      /\ recycles = epoch - 1 /\ load \in Nat \ {0}
  BY BoundsAssumption DEF Init
<1>6. /\ stream \in {"issued", "open", "ended", "parked"} /\ joined \in 0..said
      /\ asked \subseteq 1..load /\ \A r \in reads : r.load \in 1..load
      /\ phase \in {"buffering", "live"} /\ failed \in BOOLEAN
  <2>1. /\ stream = "issued" /\ said = 0 /\ joined = 0 /\ asked = {1} /\ load = 1
        /\ reads = {} /\ phase = "buffering" /\ failed = FALSE
    BY DEF Init
  <2>2. asked \subseteq 1..load /\ joined \in 0..said
    BY <2>1
  <2>3. failed \in BOOLEAN
    BY <2>1, Zenon
  <2> QED
    BY <2>1, <2>2, <2>3
<1>7. lastId \in [epoch : 0..epoch, seq : Nat]
  BY DEF Init, NoId
<1> QED
  BY <1>3, <1>4, <1>5, <1>6, <1>7 DEF KindsOK, TypeOK

(* Every variable of the stream keeps its type: what the Trace holds is never more than was said,
   a request is never one nobody made, and the page's place is one the channel gave. *)
THEOREM StreamTypeCorrect == Spec => []TypeOK
<1>1. Init => StreamOK /\ KindsOK
  BY KindsStart
<1>2. StreamOK /\ KindsOK /\ [Next]_vars => StreamOK' /\ KindsOK'
  BY StreamStep, KindsStep
<1>3. KindsOK => TypeOK
  BY DEF KindsOK
<1> QED
  BY <1>1, <1>2, <1>3, PTL DEF Spec

------------------------------------------------------------------------------
(* The loads of the history: each is answered once, and the window is never left waiting. *)

Places == Nat \ {0}

(* A frame at a place of the wire that answers the n-th load. *)
Answers(w, n, i) == i \in 1..Len(w) /\ w[i].what \in {"page", "error"} /\ w[i].load = n

(* The current load is asked for, or being read, or answered, in one place only. *)
LoadsOK ==
  /\ \A i \in Places : \A n : Answers(wire, n, i) => n \in 1..load
  /\ \A r, q \in reads : r.load = load /\ q.load = load => r = q
  /\ load \in asked => \A r \in reads : r.load # load
  /\ \A i \in Places : Answers(wire, load, i) =>
        /\ load \notin asked
        /\ \A r \in reads : r.load # load
        /\ \A j \in Places : Answers(wire, load, j) => j = i

Awaited ==
  \/ load \in asked
  \/ \E r \in reads : r.load = load
  \/ \E i \in Places : Answers(wire, load, i)

(* A window that loads has its answer under way or was told of a failure; one that is live holds
   no event back, and no answer can reach it any more. *)
WindowOK ==
  /\ phase = "buffering" => failed \/ Awaited
  /\ phase = "live" => buffer = <<>> /\ ~failed /\ ~Awaited

LoadOK == LoadsOK /\ WindowOK

(* Awaited is what the model calls outstanding. *)
LEMMA AwaitedOutstanding == ASSUME OrderOK PROVE Awaited <=> Outstanding
<1>1. PICK S : wire \in Seq(S)
  BY DEF OrderOK
<1>2. DOMAIN wire = 1..Len(wire) /\ Len(wire) \in Nat
  BY <1>1
<1> QED
  BY <1>2 DEF Awaited, Outstanding, Answers, Places

(* The answers on the wire stay where they are, or each moves up one place, and none of the
   current load's is taken. *)
LEMMA AnswersStay ==
  ASSUME LoadOK, UNCHANGED <<asked, reads, load, failed, phase>>,
         phase = "live" => buffer' = buffer,
         NEW k \in {0, 1},
         \A i \in Places : \A n : Answers(wire', n, i) <=> Answers(wire, n, i + k),
         k = 1 => ~Answers(wire, load, 1)
  PROVE  LoadOK'
<1>1. \A i \in Places : i + k \in Places
  BY DEF Places
<1>2. \A i \in Places : \A n : Answers(wire', n, i) => n \in 1..load'
  BY <1>1 DEF LoadOK, LoadsOK
<1>3. \A i \in Places : Answers(wire', load', i) =>
        /\ load' \notin asked'
        /\ \A r \in reads' : r.load # load'
        /\ \A j \in Places : Answers(wire', load', j) => j = i
  <2>1. \A i, j \in Places : i + k = j + k => i = j
    BY DEF Places
  <2> QED
    BY <1>1, <2>1 DEF LoadOK, LoadsOK
<1>4. LoadsOK'
  BY <1>2, <1>3 DEF LoadOK, LoadsOK
<1>5. (\E i \in Places : Answers(wire', load', i)) <=> \E i \in Places : Answers(wire, load, i)
  <2>1. ASSUME NEW i \in Places, Answers(wire, load, i)
        PROVE  \E j \in Places : Answers(wire', load', j)
    <3>1. i - k \in Places /\ (i - k) + k = i
      BY <2>1 DEF Places
    <3> QED
      BY <2>1, <3>1
  <2> QED
    BY <1>1, <2>1
<1>6. Awaited' <=> Awaited
  BY <1>5 DEF Awaited
<1> QED
  BY <1>4, <1>6 DEF LoadOK, WindowOK

(* Frames that answer nothing join the wire. *)
LEMMA OthersJoin ==
  ASSUME LoadOK, UNCHANGED <<asked, reads, load, failed, phase, buffer>>,
         NEW m \in Nat, Len(wire) \in Nat, Len(wire') = Len(wire) + m,
         \A i \in 1..Len(wire) : wire'[i] = wire[i],
         \A i \in 1..m : wire'[Len(wire) + i].what \notin {"page", "error"}
  PROVE  LoadOK'
<1>1. ASSUME NEW i \in Places
      PROVE  \A n : Answers(wire', n, i) <=> Answers(wire, n, i)
  <2>1. CASE i \in 1..Len(wire)
    <3>1. i \in 1..Len(wire') /\ wire'[i] = wire[i]
      BY <2>1
    <3> QED
      BY <2>1, <3>1 DEF Answers
  <2>2. CASE i \notin 1..Len(wire)
    <3>1. ASSUME i \in 1..Len(wire') PROVE wire'[i].what \notin {"page", "error"}
      <4>1. i - Len(wire) \in 1..m /\ Len(wire) + (i - Len(wire)) = i
        BY <2>2, <3>1 DEF Places
      <4> QED
        BY <4>1
    <3> QED
      BY <2>2, <3>1 DEF Answers
  <2> QED
    BY <2>1, <2>2
<1>2. \A i \in Places : i + 0 = i
  BY DEF Places
<1> QED
  BY <1>1, <1>2, AnswersStay

(* Nothing joins the wire. *)
LEMMA WireSame ==
  ASSUME LoadOK, OrderOK, UNCHANGED <<asked, reads, load, failed, phase, buffer, wire>>
  PROVE  LoadOK'
BY DEF LoadOK, LoadsOK, WindowOK, Awaited, Answers

(* The first frame is taken, and it answers another load or none. *)
LEMMA OtherTaken ==
  ASSUME LoadOK, OrderOK, UNCHANGED <<asked, reads, load, failed, phase>>,
         phase = "live" => buffer' = buffer,
         wire # <<>>, wire' = Tail(wire),
         ~(Head(wire).what \in {"page", "error"} /\ Head(wire).load = load)
  PROVE  LoadOK'
<1>1. /\ Len(wire) \in Nat \ {0} /\ Len(wire') = Len(wire) - 1
      /\ \A i \in 1..Len(wire') : wire'[i] = wire[i + 1]
      /\ Head(wire) = wire[1]
  BY TakenFrame
<1>2. \A i \in Places : \A n : Answers(wire', n, i) <=> Answers(wire, n, i + 1)
  <2>1. \A i \in Places : i \in 1..Len(wire') <=> i + 1 \in 1..Len(wire)
    BY <1>1 DEF Places
  <2> QED
    BY <1>1, <2>1 DEF Answers
<1>3. ~Answers(wire, load, 1)
  BY <1>1 DEF Answers
<1> QED
  BY <1>2, <1>3, AnswersStay

(* The next load is asked for: nothing on its way is for it yet, nor for a later one. *)
LEMMA NextLoad ==
  ASSUME LoadsOK, load \in Nat, asked \subseteq 1..load, \A r \in reads : r.load \in 1..load,
         Ask(load + 1), reads' = reads, phase' = "buffering",
         \A i \in Places : \A n : Answers(wire', n, i) => \E j \in Places : Answers(wire, n, j)
  PROVE  LoadOK'
<1>1. load' = load + 1 /\ asked' = asked \cup {load + 1}
  BY DEF Ask
<1>2. load + 1 \notin 1..load /\ 1..load \subseteq 1..load'
  BY <1>1
<1>3. \A i \in Places : \A n : Answers(wire', n, i) => n \in 1..load
  BY DEF LoadsOK
<1>4. \A r \in reads' : r.load # load'
  BY <1>1, <1>2
<1>5. \A i \in Places : ~Answers(wire', load', i)
  BY <1>1, <1>2, <1>3
<1>6. LoadsOK'
  <2>1. \A i \in Places : \A n : Answers(wire', n, i) => n \in 1..load'
    BY <1>2, <1>3
  <2> QED
    BY <1>4, <1>5, <2>1 DEF LoadsOK
<1>7. Awaited' /\ phase' # "live"
  BY <1>1 DEF Awaited
<1> QED
  BY <1>6, <1>7 DEF LoadOK, WindowOK

(* The answer of the current load is taken: it was the only one. *)
LEMMA AnswerIsOnly ==
  ASSUME LoadOK, OrderOK, wire # <<>>, wire' = Tail(wire),
         Head(wire).what \in {"page", "error"}, Head(wire).load = load
  PROVE  /\ phase # "live" /\ load \notin asked /\ \A r \in reads : r.load # load
         /\ \A i \in Places : ~Answers(wire', load, i)
         /\ \A i \in Places : \A n : Answers(wire', n, i) =>
               \E j \in Places : Answers(wire, n, j)
<1>1. /\ Len(wire) \in Nat \ {0} /\ Len(wire') = Len(wire) - 1
      /\ \A i \in 1..Len(wire') : wire'[i] = wire[i + 1]
      /\ Head(wire) = wire[1]
  BY TakenFrame
<1>2. 1 \in Places /\ Answers(wire, load, 1)
  BY <1>1 DEF Answers, Places
<1>3. ASSUME NEW i \in Places, NEW n, Answers(wire', n, i)
      PROVE  i + 1 \in Places /\ i + 1 # 1 /\ Answers(wire, n, i + 1)
  <2>1. i + 1 \in 1..Len(wire) /\ i + 1 # 1 /\ i + 1 \in Places
    BY <1>1, <1>3 DEF Answers, Places
  <2> QED
    BY <1>1, <1>3, <2>1 DEF Answers
<1>4. \A j \in Places : Answers(wire, load, j) => j = 1
  BY <1>2 DEF LoadOK, LoadsOK
<1>5. \A i \in Places : ~Answers(wire', load, i)
  BY <1>3, <1>4
<1>6. phase # "live"
  BY <1>2 DEF LoadOK, WindowOK, Awaited
<1>7. load \notin asked /\ \A r \in reads : r.load # load
  BY <1>2 DEF LoadOK, LoadsOK
<1> QED
  BY <1>3, <1>5, <1>6, <1>7

(* A request goes its way to the answer. *)
LEMMA RequestMoves ==
  ASSUME LoadOK, OrderOK, \A r \in reads : r.load \in 1..load,
         \/ \E n \in asked : Capture(n)
         \/ \E r \in reads : Read(r) \/ ReadFails(r)
  PROVE  LoadOK'
<1> USE DEF LoadOK
<1>1. ASSUME NEW n \in asked, Capture(n) PROVE LoadOK'
  <2>1. UNCHANGED <<wire, load, phase, buffer, failed>>
    BY <1>1 DEF Capture, chat
  <2>2. PICK x : x.load = n /\ reads' = reads \cup {x}
    <3> DEFINE live == IF running
                  THEN <<[cursor |-> At(seq),
                          seeds  |-> [i \in DOMAIN tail |->
                                       [what |-> "seed", part |-> "start",
                                        of |-> tail[i].of, text |-> tail[i].text]]]>>
                  ELSE <<>>
    <3>1. reads' = reads \cup {[load |-> n, live |-> live]}
      BY <1>1 DEF Capture
    <3> HIDE DEF live
    <3>2. [load |-> n, live |-> live].load = n
      OBVIOUS
    <3> QED
      BY <3>1, <3>2
  <2>3. asked' = asked \ {n}
    BY <1>1 DEF Capture
  <2>4. \A i \in Places : \A k : Answers(wire', k, i) <=> Answers(wire, k, i)
    BY <2>1
  <2>5. LoadsOK'
    <3>1. \A i \in Places : \A k : Answers(wire', k, i) => k \in 1..load'
      BY <2>1, <2>4 DEF LoadsOK
    <3>2. \A r, q \in reads' : r.load = load' /\ q.load = load' => r = q
      BY <1>1, <2>1, <2>2 DEF LoadsOK
    <3>3. load' \in asked' => \A r \in reads' : r.load # load'
      BY <2>1, <2>2, <2>3 DEF LoadsOK
    <3>4. \A i \in Places : Answers(wire', load', i) =>
            /\ load' \notin asked'
            /\ \A r \in reads' : r.load # load'
            /\ \A j \in Places : Answers(wire', load', j) => j = i
      BY <1>1, <2>1, <2>2, <2>3, <2>4 DEF LoadsOK
    <3> QED
      BY <3>1, <3>2, <3>3, <3>4 DEF LoadsOK
  <2>6. Awaited' <=> Awaited
    BY <1>1, <2>1, <2>2, <2>3, <2>4 DEF Awaited
  <2> QED
    BY <2>1, <2>5, <2>6 DEF WindowOK
<1>2. ASSUME NEW r \in reads, Read(r) \/ ReadFails(r) PROVE LoadOK'
  <2>1. UNCHANGED <<asked, load, phase, buffer, failed>> /\ reads' = reads \ {r}
    BY <1>2 DEF Read, ReadFails, chat
  <2>2. PICK f : f.what \in {"page", "error"} /\ f.load = r.load /\ wire' = Append(wire, f)
    <3>1. CASE Read(r)
      <4> DEFINE f == [what |-> "page", load |-> r.load, upto |-> traced, live |-> r.live]
      <4>1. wire' = Append(wire, f)
        BY <3>1 DEF Read
      <4>2. f.what = "page" /\ f.load = r.load
        OBVIOUS
      <4> HIDE DEF f
      <4> QED
        BY <4>1, <4>2
    <3>2. CASE ReadFails(r)
      <4> DEFINE f == [what |-> "error", load |-> r.load]
      <4>1. wire' = Append(wire, f)
        BY <3>2 DEF ReadFails
      <4>2. f.what = "error" /\ f.load = r.load
        OBVIOUS
      <4> HIDE DEF f
      <4> QED
        BY <4>1, <4>2
    <3> QED
      BY <1>2, <3>1, <3>2
  <2>3. /\ Len(wire) \in Nat /\ Len(wire') = Len(wire) + 1
        /\ \A i \in 1..Len(wire) : wire'[i] = wire[i]
        /\ wire'[Len(wire) + 1] = f
    BY <2>2, AppendedFrame
  <2> DEFINE last == Len(wire) + 1
  <2>4. ASSUME NEW i \in Places, NEW n
        PROVE  Answers(wire', n, i) <=> Answers(wire, n, i) \/ (i = last /\ n = r.load)
    <3>1. CASE i \in 1..Len(wire)
      <4>1. i \in 1..Len(wire') /\ i # last /\ wire'[i] = wire[i]
        BY <2>3, <3>1
      <4> QED
        BY <3>1, <4>1 DEF Answers
    <3>2. CASE i = last
      <4>1. i \in 1..Len(wire') /\ i \notin 1..Len(wire) /\ wire'[i] = f
        BY <2>3, <3>2
      <4> QED
        BY <2>2, <3>2, <4>1 DEF Answers
    <3>3. CASE i \notin 1..Len(wire) /\ i # last
      <4>1. i \notin 1..Len(wire')
        BY <2>3, <3>3
      <4> QED
        BY <3>3, <4>1 DEF Answers
    <3> QED
      BY <3>1, <3>2, <3>3
  <2>5. last \in Places
    BY <2>3 DEF Places
  <2> HIDE DEF last
  <2>6. Awaited' <=> Awaited
    BY <1>2, <2>1, <2>4, <2>5 DEF Awaited
  <2>7. LoadsOK'
    <3>1. \A i \in Places : \A n : Answers(wire', n, i) => n \in 1..load'
      BY <1>2, <2>1, <2>4 DEF LoadsOK
    <3>2. /\ \A q, x \in reads' : q.load = load' /\ x.load = load' => q = x
          /\ load' \in asked' => \A q \in reads' : q.load # load'
      BY <2>1 DEF LoadsOK
    <3>3. ASSUME NEW i \in Places, Answers(wire', load', i)
          PROVE  /\ load' \notin asked'
                 /\ \A q \in reads' : q.load # load'
                 /\ \A j \in Places : Answers(wire', load', j) => j = i
      <4>1. CASE r.load = load
        <5>1. load \notin asked /\ \A q \in reads' : q.load # load
          BY <1>2, <2>1, <4>1 DEF LoadsOK
        <5>2. \A j \in Places : ~Answers(wire, load, j)
          BY <1>2, <4>1 DEF LoadsOK
        <5>3. \A j \in Places : Answers(wire', load', j) => j = last
          BY <2>1, <2>4, <5>2
        <5> QED
          BY <2>1, <3>3, <5>1, <5>3
      <4>2. CASE r.load # load
        <5>1. \A j \in Places : Answers(wire', load', j) <=> Answers(wire, load, j)
          BY <2>1, <2>4, <4>2
        <5> QED
          BY <2>1, <3>3, <5>1 DEF LoadsOK
      <4> QED
        BY <4>1, <4>2
    <3> QED
      BY <3>1, <3>2, <3>3 DEF LoadsOK
  <2> QED
    BY <2>1, <2>6, <2>7 DEF WindowOK
<1> QED
  BY <1>1, <1>2

(* An event of the channel joins the wire, or nothing does. *)
LEMMA BroadcastLoads ==
  ASSUME LoadOK, OrderOK, NEW at, Broadcast(at),
         UNCHANGED <<asked, reads, load, failed, phase, buffer>>
  PROVE  LoadOK'
<1> DEFINE f == [what |-> "event", id |-> At(seq + 1), at |-> at]
<1>1. wire' = Append(wire, f) \/ wire' = wire
  BY DEF Broadcast
<1>2. f.what \notin {"page", "error"}
  OBVIOUS
<1> HIDE DEF f
<1>3. CASE wire' = Append(wire, f)
  <2>1. /\ Len(wire) \in Nat /\ Len(wire') = Len(wire) + 1
        /\ \A i \in 1..Len(wire) : wire'[i] = wire[i]
        /\ wire'[Len(wire) + 1] = f
    BY <1>3, AppendedFrame
  <2>2. \A i \in 1..1 : wire'[Len(wire) + i].what \notin {"page", "error"}
    BY <1>2, <2>1
  <2> QED
    BY <2>1, <2>2, OthersJoin
<1>4. CASE wire' = wire
  BY <1>4, WireSame
<1> QED
  BY <1>1, <1>3, <1>4

(* A replay that nothing breaks leaves nothing behind (load). *)
LEMMA ReplayedAll ==
  ASSUME NEW m, NEW held, NEW page, ~Replay(m, held, page).broken
  PROVE  Replay(m, held, page).rest = <<>>
<1> DEFINE breaks == {i \in DOMAIN held : held[i].what = "resync"}
<1>1. Replay(m, held, page).broken = (breaks # {})
  BY Zenon DEF Replay
<1>2. breaks = {}
  BY <1>1, Zenon
<1> QED
  BY <1>2, Zenon DEF Replay

(* The page hears an answer: the current load's ends it, or the next load follows. *)
LEMMA AnswerHeard ==
  ASSUME StreamOK, KindsOK, LoadOK, HearPage \/ HearError
  PROVE  LoadOK'
<1>1. /\ load \in Nat /\ asked \subseteq 1..load /\ \A r \in reads : r.load \in 1..load
      /\ phase \in {"buffering", "live"}
  BY DEF KindsOK, TypeOK
<1>2. OrderOK /\ LoadsOK
  BY DEF StreamOK, LoadOK
<1>3. wire # <<>> /\ wire' = Tail(wire) /\ Head(wire).what \in {"page", "error"}
  BY DEF HearPage, HearError, NextIs
<1>4. reads' = reads
  BY DEF HearPage, HearError, socket
<1>5. CASE Head(wire).load # load
  <2>1. UNCHANGED <<asked, load, failed, phase, buffer>>
    <3>1. CASE HearPage
      BY <1>5, <3>1 DEF HearPage
    <3>2. CASE HearError
      <4>1. UNCHANGED <<asked, load, phase, buffer>> /\ failed' = (failed \/ Head(wire).load = load)
        BY <3>2 DEF HearError, socket
      <4>2. failed \in BOOLEAN
        BY DEF KindsOK, TypeOK
      <4>3. failed' = failed
        BY <1>5, <4>1, <4>2, Zenon
      <4> QED
        BY <4>1, <4>3
    <3> QED
      BY <3>1, <3>2
  <2> QED
    BY <1>2, <1>3, <1>4, <1>5, <2>1, OtherTaken
<1>6. CASE Head(wire).load = load
  <2>1. /\ phase = "buffering" /\ load \notin asked /\ \A r \in reads : r.load # load
        /\ \A i \in Places : ~Answers(wire', load, i)
        /\ \A i \in Places : \A n : Answers(wire', n, i) => \E j \in Places : Answers(wire, n, j)
    BY <1>1, <1>2, <1>3, <1>6, AnswerIsOnly
  <2>2. ASSUME load' = load, asked' = asked
        PROVE  LoadsOK' /\ ~Awaited'
    <3>1. \A i \in Places : \A n : Answers(wire', n, i) => n \in 1..load'
      BY <1>2, <2>1, <2>2 DEF LoadsOK
    <3> QED
      BY <1>4, <2>1, <2>2, <3>1 DEF LoadsOK, Awaited
  <2>3. CASE HearError
    <3>1. load' = load /\ asked' = asked /\ phase' = phase
          /\ failed' = (failed \/ Head(wire).load = load)
      BY <2>3 DEF HearError, socket
    <3>2. failed'
      BY <1>6, <3>1, Zenon
    <3> QED
      BY <2>1, <2>2, <3>1, <3>2 DEF LoadOK, WindowOK
  <2>4. CASE HearPage
    <3> DEFINE page == Head(wire)
               joinedUp == Replay(History(page.upto), Weave(buffer, page.live), DedupIndex(page.upto))
    <3>1. /\ buffer' = joinedUp.rest
          /\ IF joinedUp.broken THEN Ask(load + 1) /\ UNCHANGED <<phase, failed>>
             ELSE phase' = "live" /\ failed' = FALSE /\ UNCHANGED <<load, asked>>
      BY <1>6, <2>4, Zenon DEF HearPage
    <3>2. ~joinedUp.broken => joinedUp.rest = <<>>
      BY ReplayedAll
    <3> HIDE DEF joinedUp
    <3>3. CASE joinedUp.broken
      BY <1>1, <1>2, <1>4, <2>1, <3>1, <3>3, NextLoad
    <3>4. CASE ~joinedUp.broken
      <4>1. phase' = "live" /\ load' = load /\ asked' = asked /\ buffer' = <<>>
        BY <3>1, <3>2, <3>4
      <4>2. ~failed'
        BY <3>1, <3>4, Zenon
      <4> QED
        BY <2>2, <4>1, <4>2 DEF LoadOK, WindowOK
    <3> QED
      BY <3>3, <3>4
  <2> QED
    BY <2>3, <2>4
<1> QED
  BY <1>5, <1>6

(* The page hears what is no answer: it shows it, holds it back, or starts over. *)
LEMMA OtherHeard ==
  ASSUME StreamOK, KindsOK, LoadOK, HearEvent \/ HearState \/ HearResync \/ HearEnd
  PROVE  LoadOK'
<1>1. /\ load \in Nat /\ asked \subseteq 1..load /\ \A r \in reads : r.load \in 1..load
      /\ phase \in {"buffering", "live"}
  BY DEF KindsOK, TypeOK
<1>2. OrderOK /\ LoadsOK
  BY DEF StreamOK, LoadOK
<1>3. wire # <<>> /\ wire' = Tail(wire) /\ Head(wire).what \notin {"page", "error"}
  BY DEF HearEvent, HearState, HearResync, HearEnd, NextIs
<1>4. reads' = reads
  BY DEF HearEvent, HearState, HearResync, HearEnd, socket
<1>5. CASE HearResync /\ phase # "buffering"
  <2>1. phase' = "buffering" /\ Ask(load + 1)
    BY <1>5 DEF HearResync
  <2>2. ASSUME NEW i \in Places, NEW n, Answers(wire', n, i)
        PROVE  \E j \in Places : Answers(wire, n, j)
    <3>1. /\ Len(wire) \in Nat \ {0} /\ Len(wire') = Len(wire) - 1
          /\ \A x \in 1..Len(wire') : wire'[x] = wire[x + 1]
      BY <1>2, <1>3, TakenFrame
    <3>2. i + 1 \in Places /\ i + 1 \in 1..Len(wire)
      BY <2>2, <3>1 DEF Answers, Places
    <3> QED
      BY <2>2, <3>1, <3>2 DEF Answers
  <2> QED
    BY <1>1, <1>2, <1>4, <2>1, <2>2, NextLoad
<1>6. CASE ~(HearResync /\ phase # "buffering")
  <2>1. UNCHANGED <<asked, load, failed, phase>> /\ (phase = "live" => buffer' = buffer)
    <3>1. CASE HearEvent
      BY <3>1 DEF HearEvent, socket
    <3>2. CASE HearState \/ HearEnd
      BY <3>2 DEF HearState, HearEnd, socket, chat
    <3>3. CASE HearResync
      BY <1>6, <3>3 DEF HearResync
    <3> QED
      BY <3>1, <3>2, <3>3
  <2> QED
    BY <1>2, <1>3, <1>4, <2>1, OtherTaken
<1> QED
  BY <1>5, <1>6

(* The page subscribes: what it is sent first answers no request for history. *)
LEMMA SubscribeLoads ==
  ASSUME StreamOK, LoadOK, Subscribe
  PROVE  LoadOK'
<1>1. UNCHANGED <<asked, reads, load, failed, phase, buffer>>
  BY DEF Subscribe, chat
<1>2. PICK n \in Nat, heard \in 0..Len(ring) :
        /\ Len(wire) \in Nat /\ Len(wire') = Len(wire) + n + 1
        /\ \A i \in 1..Len(wire) : wire'[i] = wire[i]
        /\ wire'[Len(wire) + n + 1] = [what |-> "state", id |-> At(seq')]
        /\ \/ n = 1 /\ wire'[Len(wire) + 1] = [what |-> "resync", id |-> At(seq + 1)]
           \/ n = 0
           \/ \A i \in 1..n :
                wire'[Len(wire) + i] = [what |-> "event", id |-> At(ring[heard + i].seq),
                                        at |-> ring[heard + i].at]
  BY SubscribeShape
<1>3. ASSUME NEW i \in 1..(n + 1)
      PROVE  wire'[Len(wire) + i].what \notin {"page", "error"}
  <2>1. CASE i = n + 1
    <3>1. Len(wire) + i = Len(wire) + n + 1
      BY <1>2, <2>1
    <3>2. wire'[Len(wire) + i].what = "state"
      BY <1>2, <3>1
    <3> QED
      BY <3>2
  <2>2. CASE i # n + 1
    <3>1. i \in 1..n /\ n # 0 /\ (n = 1 => i = 1)
      BY <2>2
    <3>2. CASE n = 1 /\ wire'[Len(wire) + 1] = [what |-> "resync", id |-> At(seq + 1)]
      <4>1. wire'[Len(wire) + 1].what = "resync" /\ i = 1
        BY <3>1, <3>2
      <4> QED
        BY <4>1
    <3>3. CASE \A j \in 1..n :
                 wire'[Len(wire) + j] = [what |-> "event", id |-> At(ring[heard + j].seq),
                                         at |-> ring[heard + j].at]
      <4>1. wire'[Len(wire) + i] = [what |-> "event", id |-> At(ring[heard + i].seq),
                                    at |-> ring[heard + i].at]
        BY <3>1, <3>3
      <4>2. wire'[Len(wire) + i].what = "event"
        BY <4>1
      <4> QED
        BY <4>2
    <3> QED
      BY <1>2, <3>1, <3>2, <3>3
  <2> QED
    BY <2>1, <2>2
<1>4. n + 1 \in Nat /\ Len(wire') = Len(wire) + (n + 1)
  BY <1>2
<1> QED
  BY <1>1, <1>2, <1>3, <1>4, OthersJoin

(* Every step keeps the loads in order. *)
LEMMA LoadStep ==
  ASSUME StreamOK, KindsOK, LoadOK, [Next]_vars
  PROVE  LoadOK'
<1>1. OrderOK /\ \A r \in reads : r.load \in 1..load
  BY DEF StreamOK, KindsOK, TypeOK
<1>2. CASE RunStarts \/ RunEnds \/ Publish
  <2>1. UNCHANGED <<asked, reads, load, failed, phase, buffer>>
    BY <1>2 DEF RunStarts, RunEnds, Publish, socket, chat
  <2>2. \E at : Broadcast(at)
    BY <1>2 DEF RunStarts, RunEnds, Publish
  <2> QED
    BY <1>1, <2>1, <2>2, BroadcastLoads
<1>3. CASE TraceAppended \/ Recycle \/ Reconnect \/ UNCHANGED vars
  <2>1. UNCHANGED <<asked, reads, load, failed, phase, buffer, wire>>
    BY <1>3 DEF TraceAppended, Recycle, Reconnect, vars, socket, chat
  <2> QED
    BY <1>1, <2>1, WireSame
<1>4. CASE Lag
  <2> DEFINE f == [what |-> "end"]
  <2>1. wire' = Append(wire, f) /\ UNCHANGED <<asked, reads, load, failed, phase, buffer>>
    BY <1>4 DEF Lag, chat
  <2>2. f.what \notin {"page", "error"}
    OBVIOUS
  <2> HIDE DEF f
  <2>3. /\ Len(wire) \in Nat /\ Len(wire') = Len(wire) + 1
        /\ \A i \in 1..Len(wire) : wire'[i] = wire[i]
        /\ wire'[Len(wire) + 1] = f
    BY <1>1, <2>1, AppendedFrame
  <2>4. \A i \in 1..1 : wire'[Len(wire) + i].what \notin {"page", "error"}
    BY <2>2, <2>3
  <2> QED
    BY <2>1, <2>3, <2>4, OthersJoin
<1>5. CASE Drop
  <2>1. /\ asked' = {} /\ reads' = {} /\ wire' = <<>> /\ failed' = (failed \/ Outstanding)
        /\ UNCHANGED <<phase, buffer, load>>
    BY <1>5 DEF Drop
  <2>2. Awaited <=> Outstanding
    BY <1>1, AwaitedOutstanding
  <2>3. failed' <=> failed \/ Awaited
    BY <2>1, <2>2, Zenon
  <2>4. Len(wire') = 0
    BY <2>1
  <2>5. \A i \in Places : \A n : ~Answers(wire', n, i)
    BY <2>4 DEF Answers, Places
  <2>6. LoadsOK' /\ ~Awaited'
    BY <2>1, <2>5 DEF LoadsOK, Awaited
  <2> QED
    BY <2>1, <2>3, <2>6 DEF LoadOK, WindowOK
<1>6. CASE Retry
  <2>1. /\ Ask(load + 1) /\ failed
        /\ UNCHANGED <<reads, wire, phase>>
    BY <1>6 DEF Retry
  <2>2. phase = "buffering" /\ load \in Nat /\ asked \subseteq 1..load
    BY <2>1 DEF KindsOK, TypeOK, LoadOK, WindowOK
  <2>3. \A i \in Places : \A n : Answers(wire', n, i) => \E j \in Places : Answers(wire, n, j)
    BY <2>1
  <2> QED
    BY <1>1, <2>1, <2>2, <2>3, NextLoad DEF LoadOK
<1> QED
  BY <1>1, <1>2, <1>3, <1>4, <1>5, <1>6, RequestMoves, SubscribeLoads, AnswerHeard, OtherHeard
     DEF Next, Hear

(* The loads are always in order. *)
LEMMA LoadAlways == Spec => [](StreamOK /\ KindsOK /\ LoadOK)
<1>1. Init => LoadOK
  <2> SUFFICES ASSUME Init PROVE LoadOK
    OBVIOUS
  <2>1. /\ asked = {1} /\ reads = {} /\ wire = <<>> /\ load = 1 /\ phase = "buffering"
    BY DEF Init
  <2>2. \A i \in Places : \A n : ~Answers(wire, n, i)
    BY <2>1 DEF Answers, Places
  <2> QED
    BY <2>1, <2>2 DEF LoadOK, LoadsOK, WindowOK, Awaited
<1>2. Init => StreamOK /\ KindsOK
  BY KindsStart
<1>3. StreamOK /\ KindsOK /\ LoadOK /\ [Next]_vars => StreamOK' /\ KindsOK' /\ LoadOK'
  BY StreamStep, KindsStep, LoadStep
<1> QED
  BY <1>1, <1>2, <1>3, PTL DEF Spec

(* Once nothing is under way any more, the window is live with no event held back, or the reader
   was told that the history did not load and may ask again: a break, an eviction, a resync
   during a load or an answer to an older load never leaves it waiting for nothing (load, rebuild
   and retry of stream-controller.ts). *)
THEOREM NeverLeftLoading ==
  Spec => [](AtRest => failed \/ (phase = "live" /\ buffer = <<>>))
<1>1. StreamOK /\ KindsOK /\ LoadOK => (AtRest => failed \/ (phase = "live" /\ buffer = <<>>))
  <2> SUFFICES ASSUME StreamOK, KindsOK, LoadOK, AtRest, ~failed
               PROVE  phase = "live" /\ buffer = <<>>
    OBVIOUS
  <2>1. asked = {} /\ reads = {} /\ wire = <<>>
    BY DEF AtRest
  <2>2. ~Awaited
    BY <2>1 DEF Awaited, Answers, Places
  <2> QED
    BY <2>2 DEF LoadOK, WindowOK, KindsOK, TypeOK
<1> QED
  BY <1>1, LoadAlways, PTL

(* No answer touches a window that is live, and none tells it of a failure. *)
LeftAlone ==
  phase = "live" => /\ HearPage \/ HearError => UNCHANGED <<model, buffer, failed>>
                    /\ ~failed'

(* A history page is applied only to a window that waits for it: no second answer to a load, no
   answer from before a retry or a rebuild, ever replaces the transcript of a window that is
   live, and such a window is not told of a failure either (the epoch guards of load). *)
THEOREM LiveIsLeftAlone == Spec => [][LeftAlone]_vars
<1>1. StreamOK /\ KindsOK /\ LoadOK /\ [Next]_vars => [LeftAlone]_vars
  <2> SUFFICES ASSUME StreamOK, KindsOK, LoadOK, [Next]_vars, phase = "live"
               PROVE  /\ HearPage \/ HearError => UNCHANGED <<model, buffer, failed>>
                      /\ ~failed'
    BY DEF LeftAlone
  <2>1. ~failed /\ OrderOK /\ LoadOK'
    BY LoadStep DEF StreamOK, LoadOK, WindowOK
  <2>2. ASSUME HearPage \/ HearError
        PROVE  UNCHANGED <<model, buffer, failed>>
    <3>1. wire # <<>> /\ wire' = Tail(wire) /\ Head(wire).what \in {"page", "error"}
      BY <2>2 DEF HearPage, HearError, NextIs
    <3>2. Head(wire).load # load
      BY <2>1, <3>1, AnswerIsOnly
    <3>3. CASE HearPage
      BY <3>2, <3>3 DEF HearPage
    <3>4. CASE HearError
      <4>1. UNCHANGED <<model, buffer>> /\ failed' = (failed \/ Head(wire).load = load)
        BY <3>4 DEF HearError
      <4>2. failed \in BOOLEAN
        BY DEF KindsOK, TypeOK
      <4>3. failed' = failed
        BY <3>2, <4>1, <4>2, Zenon
      <4> QED
        BY <4>1, <4>3
    <3> QED
      BY <2>2, <3>3, <3>4
  <2>3. phase' = "live" \/ failed' = failed
    BY DEF Next, RunStarts, RunEnds, Publish, TraceAppended, Recycle, Subscribe, Capture, Read,
           ReadFails, Lag, Hear, HearEvent, HearState, HearResync, HearPage, HearError, HearEnd,
           Drop, Reconnect, Retry, chat, vars
  <2>4. ~failed'
    BY <2>1, <2>3 DEF LoadOK, WindowOK
  <2> QED
    BY <2>2, <2>4
<1> QED
  BY <1>1, LoadAlways, PTL DEF Spec

=============================================================================
