------------------------------ MODULE Handover ------------------------------
(***************************************************************************)
(* What a user who steers a running Task is promised: an input waits, in   *)
(* order, until it is given to the model from the front, taken back from   *)
(* wherever it waits, or, once no longer wanted there, put back for the    *)
(* user with all the others.  It never goes two ways.                      *)
(***************************************************************************)
EXTENDS Naturals, Sequences, SequencesExt

CONSTANT Inputs

VARIABLES waiting, back, delivered, taken, evicted

vars == <<waiting, back, delivered, taken, evicted>>

Known == ToSet(waiting) \cup ToSet(back) \cup ToSet(delivered) \cup taken \cup evicted

Init == waiting = <<>> /\ back = <<>> /\ delivered = <<>> /\ taken = {} /\ evicted = {}

Accept(i) ==
    /\ i \notin Known
    /\ waiting' = Append(waiting, i)
    /\ UNCHANGED <<back, delivered, taken, evicted>>

Deliver ==
    /\ waiting # <<>>
    /\ delivered' = Append(delivered, Head(waiting))
    /\ waiting' = Tail(waiting)
    /\ UNCHANGED <<back, taken, evicted>>

TakeBack(i) ==
    /\ \/ \E k \in 1..Len(waiting) :
            /\ waiting[k] = i
            /\ waiting' = RemoveAt(waiting, k) /\ back' = back
       \/ \E k \in 1..Len(back) :
            /\ back[k] = i
            /\ back' = RemoveAt(back, k) /\ waiting' = waiting
    /\ taken' = taken \cup {i}
    /\ UNCHANGED <<delivered, evicted>>

PutBack ==
    /\ waiting # <<>>
    /\ back' = back \o waiting
    /\ waiting' = <<>>
    /\ UNCHANGED <<delivered, taken, evicted>>

Drop ==
    /\ back # <<>>
    /\ evicted' = evicted \cup ToSet(back)
    /\ back' = <<>>
    /\ UNCHANGED <<waiting, delivered, taken>>

Next ==
    \/ \E i \in Inputs : Accept(i) \/ TakeBack(i)
    \/ Deliver \/ PutBack \/ Drop

Spec == Init /\ [][Next]_vars
=============================================================================
