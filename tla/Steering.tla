------------------------------ MODULE Steering ------------------------------
(***************************************************************************)
(* Steering: what a user types while a Task runs.  The input goes into the *)
(* queue of core's ContextEngine and, as a mirror, into the RuntimeEntry   *)
(* of the server (packages/server/src/runtime/session-manager.ts).  The    *)
(* engine takes the whole queue out at its next boundary and shows the     *)
(* inputs one by one on the stream, where the server shifts its mirror;    *)
(* what the run never showed is handed back to the user.  One Session, its *)
(* runs one after the other.                                               *)
(*                                                                         *)
(* An action is the code between two awaits: every message a generator     *)
(* yields is one, since drive records it before it asks for the next.      *)
(***************************************************************************)
EXTENDS Naturals, Sequences, SequencesExt

CONSTANTS
    Inputs,    \* what the users submit, each once
    Images,    \* those with an image, which a model without vision has folded
    Setups     \* how the Agent may be set up (see AllSetups)

AllSetups == [mode : {"discard", "summarize"}, hooks : BOOLEAN]

ASSUME SteeringAssumption ==
    /\ Images \subseteq Inputs
    /\ Setups \subseteq AllSetups

VARIABLES
    setup,     \* the compaction mode, and whether stop hooks are installed
    phase,     \* where the run is (see Phases)
    cut,       \* its last engine run ended early: the RunCutoff is not null
    aborted,   \* its abort signal has fired
    queue,     \* ContextEngine.steeringQueue
    drained,   \* what deliverSteering has taken out and not shown yet
    mirror,    \* RuntimeEntry.pendingSteering
    returned,  \* RuntimeEntry.returnedSteering
    accepted,  \* history: the inputs accepted, in order
    delivered, \* history: those shown on the stream, in order
    taken,     \* history: those a recall gave back
    evicted    \* history: those dropped with an idle entry

lists == <<queue, drained, mirror, returned>>
history == <<accepted, delivered, taken, evicted>>
run == <<setup, phase, cut, aborted>>
vars == <<run, lists, history>>

-----------------------------------------------------------------------------

\* off: no run.  boot, hooks: a run whose engine is not running, before its first
\* message and while the stop hooks decide.  tail: the stream is over, drive's finally
\* not reached.  Between them the engine runs (taskRunning): turn, a model request with
\* its tools; summarize and discard, a compaction; fold and deliver, in deliverSteering;
\* leaving, its last message.
EnginePhases == {"turn", "summarize", "discard", "fold", "deliver", "leaving"}
Phases == {"off", "boot", "hooks", "tail"} \cup EnginePhases

TaskRunning == phase \in EnginePhases
Running == phase # "off"

Pos(s, i) == CHOOSE k \in 1..Len(s) : s[k] = i
Without(s, i) == RemoveAt(s, Pos(s, i))

Init ==
    /\ setup \in Setups
    /\ phase = "off"
    /\ cut = FALSE
    /\ aborted = FALSE
    /\ queue = <<>> /\ drained = <<>> /\ mirror = <<>> /\ returned = <<>>
    /\ accepted = <<>> /\ delivered = <<>> /\ taken = {} /\ evicted = {}

-----------------------------------------------------------------------------
(* The requests. *)

\* steer: the engine decides, then the mirror follows in the same tick.
Steer(i) ==
    /\ Running /\ TaskRunning
    /\ i \notin ToSet(accepted)
    /\ queue' = Append(queue, i)
    /\ mirror' = Append(mirror, i)
    /\ accepted' = Append(accepted, i)
    /\ UNCHANGED <<run, drained, returned, delivered, taken, evicted>>

\* Mutants: the recall leaves the mirror alone; it does not ask core.
RecallUnmirrored(i) ==
    /\ i \in ToSet(mirror) /\ i \in ToSet(queue)
    /\ queue' = Without(queue, i)
    /\ taken' = taken \cup {i}
    /\ UNCHANGED <<run, mirror, drained, returned, accepted, delivered, evicted>>
RecallUnasked(i) ==
    /\ i \in ToSet(mirror)
    /\ queue' = IF i \in ToSet(queue) THEN Without(queue, i) ELSE queue
    /\ mirror' = Without(mirror, i)
    /\ taken' = taken \cup {i}
    /\ UNCHANGED <<run, drained, returned, accepted, delivered, evicted>>

\* recallSteering of an input the mirror shows: only core's queue says whether it
\* can still be withdrawn.
RecallQueued(i) ==
    /\ i \in ToSet(mirror) /\ i \in ToSet(queue)
    /\ queue' = Without(queue, i)
    /\ mirror' = Without(mirror, i)
    /\ taken' = taken \cup {i}
    /\ UNCHANGED <<run, drained, returned, accepted, delivered, evicted>>

\* recallSteering of one that was handed back.
RecallReturned(i) ==
    /\ ~(i \in ToSet(mirror) /\ i \in ToSet(queue))
    /\ i \in ToSet(returned)
    /\ returned' = Without(returned, i)
    /\ taken' = taken \cup {i}
    /\ UNCHANGED <<run, queue, drained, mirror, accepted, delivered, evicted>>

\* The user interrupts the run.
Abort ==
    /\ Running /\ ~aborted /\ phase # "tail"
    /\ aborted' = TRUE
    /\ UNCHANGED <<setup, phase, cut, lists, history>>

\* sweepIdle drops an idle entry, and with it what it still held for the user.
Evict ==
    /\ ~Running
    /\ returned # <<>>
    /\ evicted' = evicted \cup ToSet(returned)
    /\ returned' = <<>>
    /\ UNCHANGED <<run, queue, drained, mirror, accepted, delivered, taken>>

-----------------------------------------------------------------------------
(* The run. *)

Keep == UNCHANGED <<lists, history>>

Goto(point) ==
    /\ phase' = point
    /\ UNCHANGED <<setup, cut, aborted>>

\* drive starts a Task.
Launch ==
    /\ ~Running
    /\ phase' = "boot"
    /\ cut' = FALSE /\ aborted' = FALSE
    /\ Keep /\ UNCHANGED setup

\* engine.run: from here steer is accepted.  A signal that has fired already is
\* noticed before the first request.
EngineStarts ==
    /\ phase = "boot"
    /\ Goto(IF aborted THEN "leaving" ELSE "turn")
    /\ Keep

\* Session.run after the engine: its stop hooks, or the end of the stream.
AfterEngine(cutoff) ==
    /\ phase' = IF setup.hooks THEN "hooks" ELSE "tail"
    /\ cut' = cutoff
    /\ UNCHANGED <<setup, aborted>>

\* An aborted bootstrap: the engine never runs.
BootAborted ==
    /\ phase = "boot" /\ aborted
    /\ AfterEngine(TRUE)
    /\ Keep

\* Mutant: the finally forgets the queue.
EngineEndsUncleared(cutoff) ==
    /\ AfterEngine(cutoff)
    /\ UNCHANGED <<lists, history>>

\* The finally of run: taskRunning is reset and the queue discarded.
EngineEnds(cutoff) ==
    /\ queue' = <<>>
    /\ AfterEngine(cutoff)
    /\ UNCHANGED <<drained, mirror, returned, history>>

\* The assembly of the next input.  deliverSteering takes the whole queue; with nothing
\* to inject and no tool outputs (nor notices), more = FALSE, the Task is over.
Assemble(more) ==
    IF queue = <<>>
    THEN IF more THEN Goto("turn") /\ Keep ELSE EngineEnds(FALSE)
    ELSE /\ drained' = queue
         /\ queue' = <<>>
         /\ Goto(IF ToSet(queue) \cap Images = {} THEN "deliver" ELSE "fold")
         /\ UNCHANGED <<mirror, returned, history>>

\* A turn is complete and nothing is to be compacted.
TurnEnds == phase = "turn" /\ ~aborted /\ \E more \in BOOLEAN : Assemble(more)

\* The user's interruption, a failed model request, or the turn limit.
TurnFails == phase = "turn" /\ Goto("leaving") /\ Keep

\* The compaction checkpoint in mode discard: put off while there is more to do.
DiscardContext ==
    /\ phase = "turn" /\ ~aborted
    /\ setup.mode = "discard"
    /\ queue = <<>>
    /\ Goto("discard")
    /\ Keep

\* discardContext is over; the run returns without another look at the queue.
DiscardEnds == phase = "discard" /\ EngineEnds(FALSE)

\* The checkpoint in mode summarize: a model request of its own.
SummarizeContext ==
    /\ phase = "turn" /\ ~aborted
    /\ setup.mode = "summarize"
    /\ Goto("summarize")
    /\ Keep

\* It is completed, or has failed at the end of the Task: the queues as they are now
\* decide whether the Task goes on.
SummarizeEnds == phase = "summarize" /\ \E more \in BOOLEAN : Assemble(more)

\* It was aborted or has failed in mid-Task (leaving), or aborted at its end.
SummarizeFails == phase = "summarize" /\ Goto("leaving") /\ Keep
SummarizeAborted == phase = "summarize" /\ aborted /\ EngineEnds(FALSE)

\* steeringMessages folds the images, which reads and writes files.
FoldEnds == phase = "fold" /\ Goto("deliver") /\ Keep

\* The fold throws: out of run (its finally) and of Session.run, past the stop hooks.
FoldFails ==
    /\ phase = "fold"
    /\ queue' = <<>> /\ drained' = <<>>
    /\ Goto("tail")
    /\ UNCHANGED <<mirror, returned, history>>

\* One steering message on the stream: drive shifts its mirror by one.
DeliverOne ==
    /\ phase = "deliver"
    /\ drained' = Tail(drained)
    /\ delivered' = Append(delivered, Head(drained))
    /\ mirror' = IF mirror = <<>> THEN <<>> ELSE Tail(mirror)
    /\ Goto(IF Len(drained) = 1 THEN "turn" ELSE "deliver")
    /\ UNCHANGED <<queue, returned, accepted, taken, evicted>>

\* The abort event or the failure's last record has been shown.
Leaves == phase = "leaving" /\ EngineEnds(TRUE)

\* A stop hook continues the Task with an input of its own, never past a cutoff or an
\* interruption.
HookContinues ==
    /\ phase = "hooks"
    /\ ~cut /\ ~aborted
    /\ Goto("boot")
    /\ Keep

HooksEnd == phase = "hooks" /\ Goto("tail") /\ Keep

\* Mutants: the mirror is dropped; it is handed back as one entry; it is handed back
\* after an interruption only.
DriveEndsDropping ==
    /\ phase = "tail"
    /\ Goto("off")
    /\ mirror' = <<>>
    /\ UNCHANGED <<returned, queue, drained, history>>
DriveEndsNesting ==
    /\ phase = "tail"
    /\ Goto("off")
    /\ returned' = Append(returned, mirror)
    /\ mirror' = <<>>
    /\ UNCHANGED <<queue, drained, history>>
DriveEndsIfAborted ==
    /\ phase = "tail"
    /\ Goto("off")
    /\ returned' = IF aborted THEN returned \o mirror ELSE returned
    /\ mirror' = IF aborted THEN <<>> ELSE mirror
    /\ UNCHANGED <<queue, drained, history>>

\* The finally of drive: what the mirror still shows is handed back.
DriveEnds ==
    /\ phase = "tail"
    /\ Goto("off")
    /\ returned' = returned \o mirror
    /\ mirror' = <<>>
    /\ UNCHANGED <<queue, drained, history>>

-----------------------------------------------------------------------------

Engine ==
    \/ EngineStarts \/ BootAborted
    \/ TurnEnds \/ TurnFails
    \/ DiscardContext \/ DiscardEnds
    \/ SummarizeContext \/ SummarizeEnds \/ SummarizeFails \/ SummarizeAborted
    \/ FoldEnds \/ FoldFails
    \/ DeliverOne
    \/ Leaves

SessionRun == HookContinues \/ HooksEnd \/ DriveEnds

Requests ==
    \/ \E i \in Inputs : Steer(i) \/ RecallQueued(i) \/ RecallReturned(i)
    \/ Abort
    \/ Evict
    \/ Launch

Next == Requests \/ Engine \/ SessionRun

Spec == Init /\ [][Next]_vars

\* What the engine and the drive wait for settles: file and database writes, image
\* folds, context loads, hooks with their time limit.  Model requests are not among
\* them (see TurnsEnd).
FairSpec ==
    /\ Spec
    /\ WF_vars(EngineStarts \/ BootAborted)
    /\ WF_vars(DiscardEnds)
    /\ WF_vars(FoldEnds \/ FoldFails)
    /\ WF_vars(DeliverOne)
    /\ WF_vars(Leaves)
    /\ WF_vars(SessionRun)

-----------------------------------------------------------------------------

TypeOK ==
    /\ setup \in Setups
    /\ phase \in Phases
    /\ cut \in BOOLEAN /\ aborted \in BOOLEAN
    /\ queue \in Seq(Inputs) /\ drained \in Seq(Inputs)
    /\ mirror \in Seq(Inputs) /\ returned \in Seq(Inputs)
    /\ accepted \in Seq(Inputs) /\ delivered \in Seq(Inputs)
    /\ taken \subseteq Inputs /\ evicted \subseteq Inputs

\* While the engine runs, the mirror shows exactly what it has not put on the stream,
\* in its order ("a display mirror of core's steering queue (same FIFO order)",
\* session-manager.ts): what is being delivered, then what waits.
MirrorsQueue == TaskRunning => mirror = drained \o queue

\* An input has one end: nothing that the model was given is handed back to the user,
\* waits to be, or was dropped.
HandedOverOnce ==
    ToSet(delivered) \cap (taken \cup ToSet(returned) \cup evicted) = {}

\* No accepted input vanishes: it is on show, with the model, back with the user, or
\* went with an entry nobody used any more.
NoneVanishes ==
    ToSet(accepted) \subseteq
        ToSet(delivered) \cup ToSet(mirror) \cup ToSet(returned) \cup taken \cup evicted

\* Every accepted input comes to an end, or back where the user can recall it, if every
\* model request, with its tools, ends sometime.
TurnsEnd == []<>(phase \notin {"turn", "summarize"})
Answered(i) == i \in ToSet(delivered) \cup ToSet(returned) \cup taken \cup evicted
SteeringAnswered ==
    TurnsEnd => \A i \in Inputs : [](i \in ToSet(accepted) => <>Answered(i))

-----------------------------------------------------------------------------
(* What a user is promised. *)

Promise == INSTANCE Handover WITH waiting <- mirror, back <- returned

\* A run is a sequence of hand-overs (Handover): the model is given the inputs in the order
\* in which they were accepted, each from the front of what waits, and none goes two ways.
KeepsPromise == Promise!Spec
=============================================================================
