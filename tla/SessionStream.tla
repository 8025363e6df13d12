---------------------------- MODULE SessionStream ----------------------------
(***************************************************************************)
(* A session's conversation on its way to a chat window: the channel that  *)
(* numbers and buffers what a run publishes (runtime/channel.ts), the      *)
(* fragments open right now (runtime/live-tail.ts), the stream and history *)
(* requests (http/sse.ts, http/routes/sessions.ts), the socket that        *)
(* carries them and breaks (web/src/api/socket.ts), and the controller     *)
(* that joins history and stream in the window                             *)
(* (web/src/lib/omni/stream-controller.ts).                                *)
(***************************************************************************)
EXTENDS Naturals, FiniteSets, Sequences, SequencesExt

CONSTANTS
  Script,        \* all the session will say (see Conversation)
  RingSize,      \* events a channel keeps for replay
  DedupWindow,   \* messages of a history page that buffered copies are compared with
  MaxDrops,      \* bound on how often the socket breaks or the stream is ended
  MaxRecycles,   \* bound on how often the idle channel is reclaimed
  MaxRetries,    \* bound on how often the reader asks for the history again
  Assumed        \* what the page is spared, among the following two

(* StreamFirst: no history is on its way while this connection's stream is not.  NothingHeld: no
   channel starts over while a failed load still holds events of its old life. *)
StreamFirst == "stream first"
NothingHeld == "nothing held"
ASSUME ScriptAssumption ==
  Script \in Seq([of : {Script[i].of : i \in DOMAIN Script}, part : {"start", "delta", "stop", "done"}])
ASSUME BoundsAssumption == MaxDrops \in Nat /\ MaxRecycles \in Nat /\ MaxRetries \in Nat
ASSUME RingAssumption == RingSize \in Nat \ {0}
ASSUME AssumedChoices == Assumed \subseteq {StreamFirst, NothingHeld}

VARIABLES
  said, began, traced,             \* the run: events published, where it began (see Idle), messages in the Trace
  epoch, seq, ring, evicted,       \* the channel: its life, last number given, buffer, last number evicted
  tail,                            \* the fragment open right now, if any
  stream, joined,                  \* the page's subscription (see TypeOK); what had been said when it opened
  asked, reads, wire,              \* history requests sent, being read, and the frames on their way back
  lastId, phase, buffer, model,    \* the controller: last event id, phase, events held, what is on screen
  load, failed,                    \* its current load, and whether the last one failed
  drops, recycles, retries

run     == <<said, began, traced>>
channel == <<epoch, seq, ring, evicted, tail>>
socket  == <<stream, joined, asked, reads>>
chat    == <<lastId, phase, buffer, model, load, failed>>
bounds  == <<drops, recycles, retries>>
vars == <<said, began, traced, epoch, seq, ring, evicted, tail, stream, joined, asked, reads,
          wire, lastId, phase, buffer, model, load, failed, drops, recycles, retries>>

(* The part of the window that is promised: all of it while the controller is live, and only the
   complete messages while it is loading and keeps the old transcript up. *)
Promised ==
  IF phase = "live" THEN model.items ELSE SelectSeq(model.items, LAMBDA item : item.whole)

Reader == INSTANCE Conversation WITH shown <- Promised

NoId == [epoch |-> 0, seq |-> 0]
Idle == 0                                 \* began: 1 + what had been said when the task began
running == began # Idle
Notice == 0                               \* in place of a Script event: a task_state broadcast
At(s) == [epoch |-> epoch, seq |-> s]
Written(k) == Cardinality({i \in 1..k : Script[i].part = "done"})   \* messages complete after k events

------------------------------------------------------------------------------
(* The channel. *)

(* Mutant: the buffer is trimmed one event too late. *)
KeepOneMore(r) ==
  IF Len(r) > RingSize + 1 THEN [kept |-> Tail(r), evicted |-> Head(r).seq]
  ELSE [kept |-> r, evicted |-> evicted]

Evict(r) ==
  IF Len(r) > RingSize THEN [kept |-> Tail(r), evicted |-> Head(r).seq]
  ELSE [kept |-> r, evicted |-> evicted]

Broadcast(at) ==
  LET after == Evict(Append(ring, [seq |-> seq + 1, at |-> at]))
  IN  /\ seq' = seq + 1
      /\ ring' = after.kept
      /\ evicted' = after.evicted
      /\ wire' = IF stream = "open"
                 THEN Append(wire, [what |-> "event", id |-> At(seq + 1), at |-> at])
                 ELSE wire

(* Mutant: a reader who missed evicted events is served from the buffer all the same. *)
HitWhateverWasEvicted(id) == id.epoch = epoch /\ id.seq <= seq
ReplayHits(id) == id.epoch = epoch /\ id.seq >= evicted /\ id.seq <= seq

(* The events after a place: the buffer is in order (RingOK), so they are the end of it. *)
ReplayAfter(id) ==
  LET heard == Cardinality({i \in DOMAIN ring : ring[i].seq <= id.seq})
  IN  [i \in 1..(Len(ring) - heard) |->
         [what |-> "event", id |-> At(ring[heard + i].seq), at |-> ring[heard + i].at]]

(* live-tail.ts observe: the fragment a published piece opens, extends or closes. *)
Observe(i) ==
  LET e == Script[i] IN
  CASE e.part = "start" -> <<[of |-> e.of, text |-> <<i>>]>>
    [] e.part = "delta" -> IF tail = <<>> THEN <<[of |-> e.of, text |-> <<i>>]>>
                           ELSE <<[tail[1] EXCEPT !.text = Append(@, i)]>>
    [] OTHER            -> <<>>

------------------------------------------------------------------------------
(* What the reducer does with one message: text fragments of the main conversation. *)

EmptyModel == [items |-> <<>>, open |-> 0, pending |-> 0]
Piece(i) == [of |-> Script[i].of, part |-> Script[i].part, text |-> <<i>>, at |-> i]

Target(m) == IF m.pending # 0 THEN m.pending ELSE m.open
Closed(m) == [m EXCEPT !.pending = 0, !.open = IF m.pending # 0 THEN @ ELSE 0]

Feed(m, p) ==
  CASE p.part = "start" ->
         [items |-> Append(m.items, [of |-> p.of, text |-> p.text, whole |-> FALSE]),
          open |-> Len(m.items) + 1, pending |-> 0]
    [] p.part \in {"delta", "stop"} /\ m.open = 0 -> m
    [] p.part = "delta" -> [m EXCEPT !.items[m.open].text = @ \o p.text]
    [] p.part = "stop"  -> [items |-> [m.items EXCEPT ![m.open].text = @ \o p.text],
                            open |-> 0, pending |-> m.open]
    [] p.part = "done" /\ Target(m) = 0 -> [m EXCEPT !.items = Append(@, Reader!Whole(p.of))]
    [] OTHER -> [Closed(m) EXCEPT !.items[Target(m)] = Reader!Whole(p.of)]

(* discardFragmentFor: the streamed copy of a message that the history already shows. *)
Discard(m) == IF Target(m) = 0 THEN m ELSE [Closed(m) EXCEPT !.items = RemoveAt(@, Target(m))]

(* A held copy of a message the page has is not fed again. *)
FeedOnce(m, p, page) == IF p.part = "done" /\ p.of \in page THEN Discard(m) ELSE Feed(m, p)

------------------------------------------------------------------------------
(* Joining a history page with the events held while it was fetched. *)

IsPiece(f) == f.what = "event" /\ f.at # Notice /\ Script[f.at].part # "done"

(* Mutant: the pieces the page's fragment already holds are kept. *)
WeaveKeepingPieces(held, live) ==
  IF live = <<>> \/ (lastId # NoId /\ lastId.epoch # live[1].cursor.epoch) THEN held
  ELSE live[1].seeds \o held

(* weaveLiveTail: the complete messages up to the cursor, the fragment as it stood at the
   cursor, then what came after; nothing is woven for another life of the channel. *)
Weave(held, live) ==
  IF live = <<>> \/ (lastId # NoId /\ lastId.epoch # live[1].cursor.epoch) THEN held
  ELSE LET Covered(f) == f.id.epoch = live[1].cursor.epoch /\ f.id.seq <= live[1].cursor.seq
       IN  SelectSeq(held, LAMBDA f : Covered(f) /\ ~IsPiece(f))
             \o live[1].seeds
             \o SelectSeq(held, LAMBDA f : ~Covered(f))

(* The held events into the model, until one of them says the buffer no longer joins up: what
   is behind that one waits for the next page. *)
Replay(m, held, page) ==
  LET breaks == {i \in DOMAIN held : held[i].what = "resync"}
      joining == IF breaks = {} THEN held ELSE SubSeq(held, 1, Min(breaks) - 1)
  IN  [model |-> FoldLeft(
         LAMBDA shown, f :
           CASE f.what = "seed" -> FeedOnce(shown, f, page)
             [] f.what = "event" /\ f.at # Notice -> FeedOnce(shown, Piece(f.at), page)
             [] OTHER -> shown,
         m, joining),
       rest |-> IF breaks = {} THEN <<>>
                ELSE SelectSeq(SubSeq(held, Min(breaks) + 1, Len(held)), LAMBDA f : f.what # "seed"),
       broken |-> breaks # {}]

History(n) == [EmptyModel EXCEPT !.items = SubSeq(Reader!Completed(Len(Script)), 1, n)]
DedupIndex(n) == {Reader!Completed(Len(Script))[i].of :
                    i \in {j \in 1..n : j > n - DedupWindow}}

Outstanding ==
  \/ load \in asked
  \/ \E r \in reads : r.load = load
  \/ \E i \in DOMAIN wire : wire[i].what \in {"page", "error"} /\ wire[i].load = load

Ask(n) == load' = n /\ asked' = asked \cup {n}

------------------------------------------------------------------------------
(* The window opens: the controller subscribes, then asks for the history. *)
Init ==
  /\ said = 0 /\ began = Idle /\ traced = 0
  /\ epoch = 1 /\ seq = 0 /\ ring = <<>> /\ evicted = 0 /\ tail = <<>>
  /\ stream = "issued" /\ joined = 0
  /\ asked = {1} /\ reads = {} /\ wire = <<>>
  /\ lastId = NoId /\ phase = "buffering" /\ buffer = <<>> /\ model = EmptyModel
  /\ load = 1 /\ failed = FALSE
  /\ drops = 0 /\ recycles = 0 /\ retries = 0

(* A task begins, says at least one message, and ends when its last one is complete and in the
   Trace. *)
RunStarts ==
  /\ ~running /\ said < Len(Script)
  /\ began' = said + 1
  /\ Broadcast(Notice)
  /\ UNCHANGED <<said, traced, epoch, tail, socket, chat, bounds>>

RunEnds ==
  /\ running /\ said >= began /\ Script[said].part = "done" /\ traced = Written(said)
  /\ began' = Idle
  /\ tail' = <<>>
  /\ Broadcast(Notice)
  /\ UNCHANGED <<said, traced, epoch, socket, chat, bounds>>

(* The engine goes on once its last message is in the Trace; the drive loop notes the fragment
   and publishes in one tick. *)
Publish ==
  /\ running /\ said < Len(Script) /\ traced = Written(said)
  /\ said' = said + 1
  /\ tail' = Observe(said + 1)
  /\ Broadcast(said + 1)
  /\ UNCHANGED <<began, traced, epoch, socket, chat, bounds>>

TraceAppended ==
  /\ traced < Written(said)
  /\ traced' = traced + 1
  /\ UNCHANGED <<said, began, channel, socket, wire, chat, bounds>>

(* The hub's sweep: an idle session's channel, half an hour without a subscriber, starts over at
   its next use; whatever was sent has long been heard or lost. *)
Recycle ==
  /\ ~running /\ stream # "open" /\ wire = <<>> /\ recycles < MaxRecycles
  /\ NothingHeld \in Assumed => buffer = <<>>
  /\ recycles' = recycles + 1
  /\ epoch' = epoch + 1
  /\ seq' = 0 /\ ring' = <<>> /\ evicted' = 0
  /\ UNCHANGED <<run, tail, socket, wire, chat, drops, retries>>

------------------------------------------------------------------------------
(* The server answers the page's two kinds of request. *)

(* GET .../stream: subscribe, then in the same tick the replay or a resync, then the state. *)
Subscribe ==
  /\ stream = "issued"
  /\ stream' = "open" /\ joined' = said
  /\ IF lastId # NoId /\ ~ReplayHits(lastId)
     THEN /\ seq' = seq + 2
          /\ wire' = wire \o <<[what |-> "resync", id |-> At(seq + 1)], [what |-> "state", id |-> At(seq + 2)]>>
     ELSE /\ seq' = seq + 1
          /\ wire' = wire \o (IF lastId = NoId THEN <<>> ELSE ReplayAfter(lastId))
                          \o <<[what |-> "state", id |-> At(seq + 1)]>>
  /\ UNCHANGED <<run, epoch, ring, evicted, tail, asked, reads, chat, bounds>>

(* GET .../messages, its first half: the cursor and the open fragment, before the Trace is read. *)
Capture(n) ==
  /\ n \in asked /\ (StreamFirst \in Assumed => stream = "open")
  /\ asked' = asked \ {n}
  /\ reads' = reads \cup
       {[load |-> n,
         live |-> IF running
                  THEN <<[cursor |-> At(seq),
                          seeds  |-> [i \in DOMAIN tail |->
                                       [what |-> "seed", part |-> "start",
                                        of |-> tail[i].of, text |-> tail[i].text]]]>>
                  ELSE <<>>]}
  /\ UNCHANGED <<run, channel, stream, joined, wire, chat, bounds>>

(* Its second half: the page as the Trace then stands.  A message the reader's subscription was
   too late for is in the Trace by now: one append takes less than the way to the page and back. *)
Read(r) ==
  /\ r \in reads /\ traced >= Written(joined)
  /\ reads' = reads \ {r}
  /\ wire' = Append(wire, [what |-> "page", load |-> r.load, upto |-> traced, live |-> r.live])
  /\ UNCHANGED <<run, channel, stream, joined, asked, chat, bounds>>

ReadFails(r) ==
  /\ r \in reads
  /\ reads' = reads \ {r}
  /\ wire' = Append(wire, [what |-> "error", load |-> r.load])
  /\ UNCHANGED <<run, channel, stream, joined, asked, chat, bounds>>

(* The page reads too slowly: the server ends the stream rather than buffer without bound.  A lag
   in the middle of a replay, of which the page then hears a part, is folded into one behind it. *)
Lag ==
  /\ stream = "open" /\ drops < MaxDrops
  /\ StreamFirst \in Assumed => ~Outstanding
  /\ drops' = drops + 1
  /\ stream' = "ended"
  /\ wire' = Append(wire, [what |-> "end"])
  /\ UNCHANGED <<run, channel, joined, asked, reads, chat, recycles, retries>>

------------------------------------------------------------------------------
(* The page hears the next frame. *)

NextIs(what) == wire # <<>> /\ Head(wire).what = what /\ wire' = Tail(wire)

HearEvent ==
  /\ NextIs("event")
  /\ lastId' = Head(wire).id
  /\ IF phase = "buffering" THEN buffer' = Append(buffer, Head(wire)) /\ UNCHANGED model
     ELSE /\ UNCHANGED buffer
          /\ model' = IF Head(wire).at = Notice THEN model ELSE Feed(model, Piece(Head(wire).at))
  /\ UNCHANGED <<run, channel, socket, phase, load, failed, bounds>>

(* The snapshot of the running state: it moves the reader's place and is shown elsewhere. *)
HearState ==
  /\ NextIs("state")
  /\ lastId' = Head(wire).id
  /\ UNCHANGED <<run, channel, socket, phase, buffer, model, load, failed, bounds>>

(* The buffer the page needed is gone: start over from the history, the old transcript staying up. *)
HearResync ==
  /\ NextIs("resync")
  /\ lastId' = Head(wire).id
  /\ IF phase = "buffering"
     THEN buffer' = Append(buffer, Head(wire)) /\ UNCHANGED <<phase, load, asked>>
     ELSE /\ phase' = "buffering" /\ buffer' = <<>>
          /\ Ask(load + 1)
  /\ UNCHANGED <<run, channel, stream, joined, reads, model, failed, bounds>>

(* A history page.  One asked for by an earlier load is dropped.  Otherwise the page, then what
   was held; when that does not join up, the load counts for nothing and the next one begins. *)
HearPage ==
  /\ NextIs("page")
  /\ LET page   == Head(wire)
         joinedUp == Replay(History(page.upto), Weave(buffer, page.live), DedupIndex(page.upto))
     IN  IF page.load # load THEN UNCHANGED <<phase, buffer, model, load, asked, failed>>
         ELSE /\ model' = joinedUp.model
              /\ buffer' = joinedUp.rest
              /\ IF joinedUp.broken THEN Ask(load + 1) /\ UNCHANGED <<phase, failed>>
                 ELSE phase' = "live" /\ failed' = FALSE /\ UNCHANGED <<load, asked>>
  /\ UNCHANGED <<run, channel, stream, joined, reads, lastId, bounds>>

HearError ==
  /\ NextIs("error")
  /\ failed' = (failed \/ Head(wire).load = load)
  /\ UNCHANGED <<run, channel, socket, lastId, phase, buffer, model, load, bounds>>

(* The stream ended and the socket did not: it is issued again after a pause. *)
HearEnd ==
  /\ NextIs("end")
  /\ stream' = "parked"
  /\ UNCHANGED <<run, channel, joined, asked, reads, chat, bounds>>

------------------------------------------------------------------------------
(* The socket breaks: calls fail, frames under way are lost, the stream waits for the next one. *)
Drop ==
  /\ stream # "parked" /\ drops < MaxDrops
  /\ drops' = drops + 1
  /\ stream' = "parked"
  /\ asked' = {} /\ reads' = {} /\ wire' = <<>>
  /\ failed' = (failed \/ Outstanding)
  /\ UNCHANGED <<run, channel, joined, lastId, phase, buffer, model, load, recycles, retries>>

(* It is back, and the stream is issued again from the last event heard. *)
Reconnect ==
  /\ stream = "parked"
  /\ stream' = "issued"
  /\ UNCHANGED <<run, channel, joined, asked, reads, wire, chat, bounds>>

(* The reader asks for the history again after a failure; what was held is kept. *)
Retry ==
  /\ failed /\ retries < MaxRetries /\ (StreamFirst \in Assumed => stream \in {"issued", "open"})
  /\ retries' = retries + 1
  /\ Ask(load + 1)
  /\ UNCHANGED <<run, channel, stream, joined, reads, wire, lastId, phase, buffer, model, failed,
                 drops, recycles>>

Hear == HearEvent \/ HearState \/ HearResync \/ HearPage \/ HearError \/ HearEnd

Next ==
  \/ RunStarts \/ RunEnds \/ Publish \/ TraceAppended \/ Recycle
  \/ Subscribe \/ (\E n \in asked : Capture(n)) \/ (\E r \in reads : Read(r) \/ ReadFails(r))
  \/ Hear
  \/ Drop \/ Lag \/ Reconnect \/ Retry

Spec == Init /\ [][Next]_vars

------------------------------------------------------------------------------
(* The channel keeps no more events than it may, numbered upwards, and none that it counts as
   evicted: what a replay hit hands out has no hole the channel knows of. *)
RingOK ==
  /\ seq \in Nat /\ evicted \in 0..seq
  /\ ring \in Seq([seq : Nat, at : Nat]) /\ Len(ring) <= RingSize
  /\ \A i \in 1..Len(ring) : ring[i].seq \in (evicted + 1)..seq
  /\ \A i, j \in 1..Len(ring) : i < j => ring[i].seq < ring[j].seq

(* Every variable has its type. *)
TypeOK ==
  /\ RingOK
  /\ said \in 0..Len(Script) /\ began \in 0..Len(Script) /\ traced \in 0..Written(said)
  /\ epoch \in 1..(MaxRecycles + 1)
  /\ Len(tail) <= 1
  /\ stream \in {"issued", "open", "ended", "parked"} /\ joined \in 0..said
  /\ asked \subseteq 1..load /\ \A r \in reads : r.load \in 1..load
  /\ lastId \in [epoch : 0..epoch, seq : Nat] /\ phase \in {"buffering", "live"}
  /\ failed \in BOOLEAN /\ drops \in 0..MaxDrops
  /\ recycles \in 0..MaxRecycles /\ retries \in 0..MaxRetries

(* The window shows the conversation as it was at some moment: every complete message once and in
   order, then at most the one being written with nothing of its text lost or repeated; and no
   message that was on screen ever leaves it.  Whatever the socket loses, the buffer evicts, the
   channel's new life renumbers and the history page already holds: the stream's replay and
   resync, the page's cursor and the controller's dedup together must make up for all of it. *)
KeepsConversation == Reader!Spec

(* Nothing under way can still change the window: the stream is open, every frame was heard and
   every history request answered. *)
AtRest == stream = "open" /\ asked = {} /\ reads = {} /\ wire = <<>> /\ traced = Written(said)

(* Whenever the exchange is at rest, the window is up to date to the last piece, or the reader was
   told that the history did not load and can ask again: no event is lost for good, and none is
   left in the controller's buffer.  (A fragment that was closed just before the page's snapshot
   and is not yet a message is in neither half, and comes with its message.) *)
CaughtUp ==
  AtRest => \/ failed
            \/ phase = "live" /\ model.items = Reader!Completed(said) \o Reader!Fragment(said)
            \/ phase = "live" /\ said > 0 /\ Script[said].part = "stop"
                               /\ model.items = Reader!Completed(said)
=============================================================================
