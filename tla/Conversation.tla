---------------------------- MODULE Conversation ----------------------------
(***************************************************************************)
(* What a reader of a running session is promised: the chat window shows   *)
(* the conversation up to some moment, never a message missing between two *)
(* others, never one twice, never a piece of the message being written     *)
(* lost or repeated.                                                       *)
(*                                                                         *)
(* Script is everything the session will say, in order: each event is a    *)
(* piece of a message ("start", "delta", "stop") or the message as a whole *)
(* ("done").  A piece's text is its place in Script, so a text is a        *)
(* sequence of places.                                                     *)
(***************************************************************************)
EXTENDS Naturals, Sequences, SequencesExt

CONSTANT Script

VARIABLES
  said,    \* how many events of Script have been said
  shown    \* the messages on screen: whole, or with the text written so far

Whole(m) == [of |-> m, text |-> <<>>, whole |-> TRUE]

(* The messages that are complete after k events, and the text of the one being written. *)
Completed(k) ==
  LET finished == SelectSeq(SubSeq(Script, 1, k), LAMBDA e : e.part = "done")
  IN  [i \in DOMAIN finished |-> Whole(finished[i].of)]

Fragment(k) ==
  IF k = 0 \/ Script[k].part = "done" THEN <<>>
  ELSE LET pieces == {j \in 1..k : Script[j].of = Script[k].of}
       IN  <<[of |-> Script[k].of, text |-> SetToSortSeq(pieces, <), whole |-> FALSE]>>

(* What a reader may see after k events: the complete messages, then at most the one being
   written as it stood at some moment since. *)
Views(k) == {Completed(j) : j \in 0..k} \cup {Completed(j) \o Fragment(j) : j \in 0..k}

Messages(view) == SelectSeq(view, LAMBDA item : item.whole)

Init == said = 0 /\ shown = <<>>

Say == said < Len(Script) /\ said' = said + 1 /\ UNCHANGED shown

(* The window is brought up to a later moment: it may lose the unfinished text, never a message. *)
Show ==
  /\ shown' \in Views(said)
  /\ Len(Messages(shown')) >= Len(Messages(shown))
  /\ UNCHANGED said

Next == Say \/ Show

Spec == Init /\ [][Next]_<<said, shown>>
=============================================================================
