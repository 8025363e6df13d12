------------------------------ MODULE MCStream ------------------------------
(* Instances of SessionStream for TLC. *)
EXTENDS SessionStream

Streamed(m) == [i \in 1..4 |-> [of |-> m, part |-> <<"start", "delta", "stop", "done">>[i]]]
AtOnce(m) == <<[of |-> m, part |-> "done"]>>

(* A message that comes whole, then one written piece by piece; a third written without a stop. *)
TwoMessages == AtOnce("m1") \o Streamed("m2")
ThreeMessages == TwoMessages \o SubSeq(Streamed("m3"), 1, 2) \o AtOnce("m3")

Spared == {StreamFirst, NothingHeld}
HistoryMayRace == {NothingHeld}
=============================================================================
