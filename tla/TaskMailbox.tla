----------------------------- MODULE TaskMailbox -----------------------------
(***************************************************************************)
(* What a Session promises to whoever submits Task inputs to it, with no   *)
(* runtime entries, no lock and no engine: every input is taken once and   *)
(* comes to one end, at most one run is in progress, and inputs accepted   *)
(* while the Session is busy wait in a bounded queue and start in the      *)
(* order in which they were accepted.                                      *)
(***************************************************************************)
EXTENDS Naturals, Sequences

CONSTANTS Tasks, FollowUpLimit

VARIABLES
    fate,   \* what became of each input
    queue,  \* the inputs waiting behind the run
    busy    \* a Task, a compaction or a model switch is in progress

mailbox == <<fate, queue, busy>>

Becomes(t, from, to) == fate[t] = from /\ fate' = [fate EXCEPT ![t] = to]

Init ==
    /\ fate = [t \in Tasks |-> "new"]
    /\ queue = <<>>
    /\ busy = FALSE

Submit(t) == Becomes(t, "new", "waiting") /\ UNCHANGED <<queue, busy>>

Refuse(t) == Becomes(t, "waiting", "refused") /\ UNCHANGED <<queue, busy>>

Start(t) ==
    /\ ~busy /\ busy'
    /\ Becomes(t, "waiting", "started")
    /\ UNCHANGED queue

Queue(t) ==
    /\ busy
    /\ Len(queue) < FollowUpLimit
    /\ Becomes(t, "waiting", "queued")
    /\ queue' = Append(queue, t)
    /\ UNCHANGED busy

StartNext ==
    /\ ~busy /\ busy'
    /\ queue # <<>>
    /\ Becomes(Head(queue), "queued", "started")
    /\ queue' = Tail(queue)

Recall(i) ==
    /\ Becomes(queue[i], "queued", "recalled")
    /\ queue' = SubSeq(queue, 1, i - 1) \o SubSeq(queue, i + 1, Len(queue))
    /\ UNCHANGED busy

\* A run that carries no input of the callers: a retry, a compaction, a switch, or
\* the notices of background tasks.
Occupy == ~busy /\ busy' /\ UNCHANGED <<fate, queue>>

Finish == busy /\ ~busy' /\ UNCHANGED <<fate, queue>>

\* The Session goes: what waited goes with it.
Release ==
    /\ queue' = <<>>
    /\ fate' = [t \in Tasks |-> IF \E i \in 1..Len(queue) : queue[i] = t
                                THEN "released" ELSE fate[t]]
    /\ UNCHANGED busy

Next ==
    \/ \E t \in Tasks : Submit(t) \/ Refuse(t) \/ Start(t) \/ Queue(t)
    \/ StartNext
    \/ \E i \in 1..Len(queue) : Recall(i)
    \/ Occupy \/ Finish \/ Release

Spec == Init /\ [][Next]_mailbox

=============================================================================
