--------------------------- MODULE SessionManager ---------------------------
(***************************************************************************)
(* The Session runtime of packages/server/src/runtime/session-manager.ts,  *)
(* seen from ONE Session: the table slot its RuntimeEntry sits in, the     *)
(* promise chain that serializes its operations (withLock), the runs it    *)
(* drives, the follow-ups waiting behind a run, the completion notices of  *)
(* its background tasks, and what reaches in from outside: credential      *)
(* changes, idle eviction, deletion and shutdown.  Sessions share nothing  *)
(* but those outside events, so one Session is enough.                     *)
(*                                                                         *)
(* Atomicity is the event loop's: an action is the code between two        *)
(* awaits.  A promise that is ready runs before the next timer, request or *)
(* I/O callback, so nothing else happens while an operation can advance on *)
(* its own (Yielded); it is interrupted only where it waits for the disk,  *)
(* the network, a child process or the model.                              *)
(***************************************************************************)
EXTENDS Naturals, Sequences, FiniteSets

CONSTANTS
    Tasks,             \* Task inputs the callers submit, each once
    NoTask,            \* an operation or a run that carries no Task input
    Notices,           \* background tasks, each ending in one completion notice
    Kinds,             \* the locked operations the callers use
    Events,            \* the outside events that may happen (see AllEvents)
    CredentialRefresh, \* whether a provider credential is refreshed over the network
    FollowUpLimit,     \* FOLLOW_UP_QUEUE_LIMIT
    MaxEntries,        \* bound: runtimes the loader builds
    MaxChain           \* bound: callers waiting at the lock at once

CallerKinds == {"task", "queue", "retry", "goal", "compact", "switch", "fork", "preload"}
TaskKinds == {"task", "queue", "goal"}
AllEvents == {"sweep", "credentials", "delete", "deleteFails", "settleTimeout", "shutdown"}

ASSUME ConstantsAssumption ==
    /\ NoTask \notin Tasks
    /\ Kinds \subseteq CallerKinds
    /\ Events \subseteq AllEvents
    /\ CredentialRefresh \in BOOLEAN
    /\ FollowUpLimit \in Nat
    /\ MaxEntries \in Nat \ {0}
    /\ MaxChain \in Nat

VARIABLES
    entry,     \* every RuntimeEntry made so far, in the table or not
    made,      \* how many that is
    table,     \* entries.get(sessionId), or None
    chain,     \* the lock's promise chain: the head holds the lock
    at,        \* where the head operation waits
    held,      \* the entry the head operation has in hand
    load,      \* what has become of the configuration an in-flight load started from
    row,       \* whether the index row exists
    marked,    \* deletingSessions (or deletingAgents) holds it
    deletion,  \* the deletion in progress
    awaited,   \* the runs that deletion waits for
    closed,    \* shutdown has begun
    fate,      \* what became of each Task input
    launched   \* the background tasks started so far

vars == <<entry, made, table, chain, at, held, load, row, marked, deletion,
          awaited, closed, fate, launched>>
lockVars == <<chain, at, held, load>>
lifeVars == <<row, marked, deletion, awaited, closed>>

-----------------------------------------------------------------------------

None == 0
Entries == 1..MaxEntries

\* A runtime's configuration: that of today; one that has changed since; or one of
\* an older generation than the Agent's, which ensureEntry sees and rebuilds.
Configs == {"current", "outdated", "stale"}

\* An entry: the fields of RuntimeEntry, the position of its run and the state
\* of the core Session it owns.
EntryType ==
    [status    : {"idle", "running", "compacting"},
     drives    : Nat,                            \* drives in flight on it
     phase     : {"none", "head", "boot", "loop", "tail"},
     abort     : {"null", "armed", "fired"},
     config    : Configs,                        \* what it was built from, and its generation
     aged      : BOOLEAN,                        \* inactive past ENTRY_IDLE_MS
     followUps : Seq(Tasks),
     asking    : BOOLEAN,                        \* a background subagent's approval waits
     work      : SUBSET Notices,                 \* background tasks still running
     notices   : SUBSET Notices,                 \* completion notices not delivered
     released  : BOOLEAN]                        \* disposed, or to be when its run ends

NewEntry(config) ==
    [status |-> "idle", drives |-> 0, phase |-> "none", abort |-> "null",
     config |-> config, aged |-> FALSE, followUps |-> <<>>, asking |-> FALSE,
     work |-> {}, notices |-> {}, released |-> FALSE]

Operations ==
    [kind : TaskKinds, task : Tasks]
        \cup [kind : (CallerKinds \ TaskKinds) \cup {"followUp", "notice"}, task : {NoTask}]
Op(k, t) == [kind |-> k, task |-> t]
StartFollowUp == Op("followUp", NoTask)
StartNotice == Op("notice", NoTask)

Fates == {"new", "waiting", "queued", "started", "refused", "recalled", "released"}

Points == {"idle", "check", "refresh", "load", "ready", "hook", "head", "snapshot"}

Driven(e) == entry[e].drives > 0
Idle(e) == entry[e].status = "idle"
\* The conditions under which ensureEntry keeps a runtime of an old generation.
InUse(e) == ~Idle(e) \/ Driven(e) \/ entry[e].asking
Stale(e) == entry[e].config = "stale"

\* The points at which the head operation goes on in the same turn.
Turn == {"ready"} \cup IF CredentialRefresh THEN {} ELSE {"refresh"}
Yielded == at \notin Turn /\ (at = "idle" => chain = <<>>)

Waits == chain # <<>> /\ at = "idle"
HeadOp == Head(chain)

-----------------------------------------------------------------------------

Edit(e, r) == entry' = [entry EXCEPT ![e] = r]

Record(t, what) == fate' = IF t \in Tasks THEN [fate EXCEPT ![t] = what] ELSE fate

\* The head operation gives the lock up.
Unlock ==
    /\ chain' = Tail(chain)
    /\ at' = "idle"
    /\ held' = None
    /\ load' = "current"

\* It ends without having started a run: done, or refused with an HttpError.
Leave ==
    /\ Unlock
    /\ Record(HeadOp.task, "refused")
    /\ UNCHANGED <<entry, made, table, lifeVars, launched>>

GoTo(point, e) ==
    /\ at' = point
    /\ held' = e
    /\ UNCHANGED <<chain, load, entry, made, lifeVars, fate, launched>>

\* launchTask, and the head of startGoal's and startCompact's own launches.
Launched(r, status, phase) ==
    [r EXCEPT !.status = status, !.phase = phase, !.drives = @ + 1,
              !.abort = "armed", !.aged = FALSE]

Launch(e, r, t) ==
    /\ Edit(e, Launched(r, "running", "boot"))
    /\ Record(t, "started")
    /\ Unlock
    /\ UNCHANGED <<made, table, lifeVars, launched>>

-----------------------------------------------------------------------------
(* The callers and the lock *)

\* A caller reaches withLock: its operation joins the end of the chain.
Submit(k, t) ==
    /\ Yielded
    /\ Len(chain) < MaxChain
    /\ k \in Kinds
    /\ IF k \in TaskKinds THEN t \in Tasks /\ fate[t] = "new" ELSE t = NoTask
    /\ chain' = Append(chain, Op(k, t))
    /\ Record(t, "waiting")
    /\ UNCHANGED <<entry, made, table, at, held, load, lifeVars, launched>>

\* assertOpen, assertAgentNotDeleting, assertSessionNotDeleting.
Accepting == ~closed /\ ~marked

RefuseAtGate ==
    /\ Waits
    /\ HeadOp.kind \in CallerKinds
    /\ ~Accepting \/ (HeadOp.kind = "preload" /\ ~row)
    /\ Leave

\* startGoal first asks the disk whether the goal plugin is installed.
CheckGoalPlugin ==
    /\ Waits
    /\ HeadOp.kind = "goal"
    /\ Accepting
    /\ GoTo("check", None)
    /\ UNCHANGED table

GoalPluginMissing ==
    /\ at = "check"
    /\ Leave

-----------------------------------------------------------------------------
(* ensureEntry *)

Ensuring ==
    \/ /\ Waits
       /\ HeadOp.kind \in CallerKinds \ {"goal", "fork"}
       /\ Accepting
       /\ HeadOp.kind = "preload" => row
    \/ at = "check"

\* A table hit: the credential is refreshed before the entry is looked at.
HitEntry ==
    /\ Ensuring
    /\ table # None
    /\ GoTo("refresh", table)
    /\ UNCHANGED table

\* No entry: the row, the credential, the generation, and then the loader.
StartLoad ==
    /\ row
    /\ GoTo("load", None)
    /\ table' = None

MissEntry ==
    /\ Ensuring
    /\ table = None
    /\ StartLoad

SessionNotFound ==
    /\ Ensuring
    /\ table = None
    /\ ~row
    /\ Leave

\* The generation comparison after the refresh; the entry is not looked up again.
KeepEntry ==
    /\ at = "refresh"
    /\ ~Stale(held) \/ InUse(held)
    /\ GoTo("ready", held)
    /\ UNCHANGED table

DiscardStaleEntry ==
    /\ at = "refresh"
    /\ Stale(held)
    /\ ~InUse(held)
    /\ \/ StartLoad
       \/ /\ ~row
          /\ Unlock
          /\ Record(HeadOp.task, "refused")
          /\ table' = None
          /\ UNCHANGED <<entry, made, lifeVars, launched>>

RefreshFails ==
    /\ at = "refresh"
    /\ CredentialRefresh
    /\ Leave

\* Mutant: the deletion marks are not looked at again after the load.
LoadDoneUnchecked ==
    /\ at = "load"
    /\ made < MaxEntries
    /\ Edit(made + 1, NewEntry(load))
    /\ made' = made + 1
    /\ table' = made + 1
    /\ at' = "ready"
    /\ held' = made + 1
    /\ load' = "current"
    /\ UNCHANGED <<chain, lifeVars, fate, launched>>

\* The loader answers.  It read the configuration when it started or since.
LoadDone ==
    /\ at = "load"
    /\ made < MaxEntries
    /\ ~marked
    /\ \E config \in {load} \cup (IF load = "outdated" THEN {"current"} ELSE {}) :
         Edit(made + 1, NewEntry(config))
    /\ made' = made + 1
    /\ table' = made + 1
    /\ at' = "ready"
    /\ held' = made + 1
    /\ load' = "current"
    /\ UNCHANGED <<chain, lifeVars, fate, launched>>

\* The loader throws, or the Session was marked for deletion meanwhile.
LoadFails ==
    /\ at = "load"
    /\ Leave

-----------------------------------------------------------------------------
(* The operations, from where ensureEntry has given them an entry *)

ReadyFor(kinds) == at = "ready" /\ HeadOp.kind \in kinds

\* Mutant: assertIdle is not called.
StartTaskUnchecked ==
    /\ ReadyFor({"task", "queue", "retry"})
    /\ Launch(held, entry[held], HeadOp.task)

\* startTask on an idle entry, retryTask with something held, and a started goal.
StartTask ==
    /\ ReadyFor({"task", "queue", "retry"})
    /\ Idle(held)
    /\ Launch(held, entry[held], HeadOp.task)

\* queueIfBusy: the input waits behind the run in progress.
QueueFollowUp ==
    /\ ReadyFor({"queue"})
    /\ ~Idle(held)
    /\ Len(entry[held].followUps) < FollowUpLimit
    /\ Edit(held, [entry[held] EXCEPT !.followUps = Append(@, HeadOp.task), !.aged = FALSE])
    /\ Record(HeadOp.task, "queued")
    /\ Unlock
    /\ UNCHANGED <<made, table, lifeVars, launched>>

\* assertIdle, queue_full, nothing_to_retry, compactUnavailable, model_unavailable.
RefuseReady ==
    /\ at = "ready"
    /\ \/ ~Idle(held) /\ HeadOp.kind \notin {"queue", "preload"}
       \/ ~Idle(held) /\ HeadOp.kind = "queue"
                      /\ Len(entry[held].followUps) >= FollowUpLimit
       \/ HeadOp.kind \in {"retry", "compact", "switch"}
    /\ Leave

PreloadDone ==
    /\ ReadyFor({"preload"})
    /\ Leave

\* startGoal waits for the plugin's user_prompt hook; the entry still reads idle.
AskGoalHook ==
    /\ ReadyFor({"goal"})
    /\ Idle(held)
    /\ GoTo("hook", held)
    /\ UNCHANGED table

GoalHookRefuses ==
    /\ at = "hook"
    /\ Leave

StartGoal ==
    /\ at = "hook"
    /\ Launch(held, entry[held], HeadOp.task)

StartCompact ==
    /\ ReadyFor({"compact"})
    /\ Idle(held)
    /\ Edit(held, Launched(entry[held], "compacting", "tail"))
    /\ Unlock
    /\ UNCHANGED <<made, table, lifeVars, fate, launched>>

\* startSwitch pulls the head of core's stream under the lock; the pull is the run.
PullSwitchHead ==
    /\ ReadyFor({"switch"})
    /\ Idle(held)
    /\ Edit(held, [entry[held] EXCEPT !.phase = "head", !.drives = @ + 1,
                                      !.abort = "armed"])
    /\ at' = "head"
    /\ UNCHANGED <<chain, held, load, made, table, lifeVars, fate, launched>>

\* The environment of an entry that left the table dies with its last run.
Disposed(r) == IF r.released THEN [r EXCEPT !.work = {}] ELSE r

\* Core refused the switch, or had no context to close.
SwitchSettles ==
    /\ at = "head"
    /\ \E quiet \in BOOLEAN :   \* only a switch that was made stamps the activity
         Edit(held, Disposed([entry[held] EXCEPT !.phase = "none", !.drives = @ - 1,
                                                 !.abort = "null", !.aged = @ /\ quiet]))
    /\ Unlock
    /\ UNCHANGED <<made, table, lifeVars, fate, launched>>

\* Mutant: the pull gives the run up although the drive goes on behind it.
SwitchStreamsAfterSettling ==
    /\ at = "head"
    /\ Edit(held, [entry[held] EXCEPT !.status = "compacting", !.phase = "tail",
                                      !.drives = @ - 1, !.aged = FALSE])
    /\ Unlock
    /\ UNCHANGED <<made, table, lifeVars, fate, launched>>

\* It yields: the switch is driven like a compaction from here on.
SwitchStreams ==
    /\ at = "head"
    /\ Edit(held, [entry[held] EXCEPT !.status = "compacting", !.phase = "tail",
                                      !.aged = FALSE])
    /\ Unlock
    /\ UNCHANGED <<made, table, lifeVars, fate, launched>>

\* Mutant: a fork takes the lock but does not look at the entry.
StartSnapshotUnchecked ==
    /\ Waits
    /\ HeadOp.kind = "fork"
    /\ Accepting
    /\ GoTo("snapshot", None)
    /\ UNCHANGED table

\* atIdleBoundary: a fork reads the Trace while the Session is idle or unloaded.
StartSnapshot ==
    /\ Waits
    /\ HeadOp.kind = "fork"
    /\ Accepting
    /\ IF table # None /\ ~Idle(table) THEN Leave
       ELSE GoTo("snapshot", None) /\ UNCHANGED table

EndSnapshot ==
    /\ at = "snapshot"
    /\ Leave

\* startQueuedFollowUp: checks everything again under the lock.
StartQueuedFollowUp ==
    /\ Waits
    /\ HeadOp = StartFollowUp
    /\ IF Accepting /\ table # None /\ Idle(table) /\ entry[table].followUps # <<>>
       THEN Launch(table, [entry[table] EXCEPT !.followUps = Tail(@)],
                   Head(entry[table].followUps))
       ELSE Leave

\* startBackgroundNoticeTask: the notices become the input of a run of their own.
StartBackgroundNoticeTask ==
    /\ Waits
    /\ HeadOp = StartNotice
    /\ IF /\ Accepting /\ table # None
          /\ Idle(table) /\ entry[table].followUps = <<>> /\ entry[table].notices # {}
       THEN Launch(table, [entry[table] EXCEPT !.notices = {}], NoTask)
       ELSE Leave

-----------------------------------------------------------------------------
(* The run: core's engine, and the end of drive *)

\* The engine takes the run over (again, when a stop hook continues it) and
\* delivers the notices that wait.
EngineStarts(e) ==
    /\ Yielded
    /\ entry[e].phase \in {"boot", "tail"}
    /\ entry[e].status = "running"
    /\ entry[e].abort = "armed"
    /\ Edit(e, [entry[e] EXCEPT !.phase = "loop", !.notices = {}])
    /\ UNCHANGED <<made, table, lockVars, lifeVars, fate, launched>>

\* An input-assembly boundary of the loop.
EngineDelivers(e) ==
    /\ Yielded
    /\ entry[e].phase = "loop"
    /\ entry[e].notices # {}
    /\ Edit(e, [entry[e] EXCEPT !.notices = {}])
    /\ UNCHANGED <<made, table, lockVars, lifeVars, fate, launched>>

\* The loop ends: completed, cut off or failed.
EngineExits(e) ==
    /\ Yielded
    /\ entry[e].phase \in {"boot", "loop"}
    /\ Edit(e, [entry[e] EXCEPT !.phase = "tail"])
    /\ UNCHANGED <<made, table, lockVars, lifeVars, fate, launched>>

\* Mutants: a run's end schedules only the notices, or only the follow-ups.
NoticesBehind(r) == <<StartNotice>>
FollowUpsBehind(r) == IF r.followUps # <<>> THEN <<StartFollowUp>> ELSE <<>>

\* What a run's end schedules: the next follow-up, or else a look at the notices.
Behind(r) == IF r.followUps # <<>> THEN <<StartFollowUp>> ELSE <<StartNotice>>

\* drive's finally, whole: idle again, and what waits behind the run is scheduled.
DriveEnds(e) ==
    /\ Yielded
    /\ entry[e].phase = "tail"
    /\ Edit(e, Disposed([entry[e] EXCEPT !.status = "idle", !.phase = "none",
                                         !.drives = @ - 1, !.abort = "null",
                                         !.aged = FALSE]))
    /\ chain' = chain \o Behind(entry[e])
    /\ UNCHANGED <<made, table, at, held, load, lifeVars, fate, launched>>

\* The run starts a background task (run_in_background).
StartBackground(e, n) ==
    /\ Yielded
    /\ entry[e].phase = "loop"
    /\ n \in Notices \ launched
    /\ launched' = launched \cup {n}
    /\ Edit(e, [entry[e] EXCEPT !.work = @ \cup {n}])
    /\ UNCHANGED <<made, table, lockVars, lifeVars, fate>>

\* It ends: its notice is queued, and signalled when no Task of the engine runs.
BackgroundDone(e, n) ==
    /\ Yielded
    /\ n \in entry[e].work
    /\ Edit(e, [entry[e] EXCEPT !.work = @ \ {n}, !.notices = @ \cup {n}])
    /\ chain' = IF entry[e].phase = "loop" THEN chain ELSE Append(chain, StartNotice)
    /\ UNCHANGED <<made, table, at, held, load, lifeVars, fate, launched>>

-----------------------------------------------------------------------------
(* What the person does beside the lock *)

\* A background subagent's tool call waits for an answer.  (Those of the run itself
\* end with the run, which holds the entry anyway.)
AskApproval(e) ==
    /\ Yielded
    /\ entry[e].work # {}
    /\ ~entry[e].asking
    /\ Edit(e, [entry[e] EXCEPT !.asking = TRUE])
    /\ UNCHANGED <<made, table, lockVars, lifeVars, fate, launched>>

DecideApproval ==
    /\ Yielded
    /\ table # None
    /\ entry[table].asking
    /\ Edit(table, [entry[table] EXCEPT !.asking = FALSE])
    /\ UNCHANGED <<made, table, lockVars, lifeVars, fate, launched>>

\* abortTask: the signal of the run in progress fires.
AbortTask ==
    /\ Yielded
    /\ table # None
    /\ entry[table].abort # "null"
    /\ Edit(table, [entry[table] EXCEPT !.abort = "fired"])
    /\ UNCHANGED <<made, table, lockVars, lifeVars, fate, launched>>

\* Mutant: the splice takes everything from i on.
RemoveFrom(s, i) == SubSeq(s, 1, i - 1)

RemoveAt(s, i) == SubSeq(s, 1, i - 1) \o SubSeq(s, i + 1, Len(s))

RecallFollowUp(i) ==
    /\ Yielded
    /\ table # None
    /\ i \in 1..Len(entry[table].followUps)
    /\ Record(entry[table].followUps[i], "recalled")
    /\ Edit(table, [entry[table] EXCEPT !.followUps = RemoveAt(@, i), !.aged = FALSE])
    /\ UNCHANGED <<made, table, lockVars, lifeVars, launched>>

-----------------------------------------------------------------------------
(* What happens to the Session from outside *)

\* invalidateProjectRuntimes: the generation moves only if some entry of the
\* Agent is in the active table, this Session's or another one's.
CredentialsChange(other) ==
    /\ Yielded
    /\ "credentials" \in Events
    /\ LET bump == table # None \/ other
           after(config) == IF bump \/ config = "stale" THEN "stale" ELSE "outdated"
       IN /\ entry' = [e \in Entries |->
                         IF e <= made THEN [entry[e] EXCEPT !.config = after(@)]
                                      ELSE entry[e]]
          /\ load' = IF at = "load" THEN after(load) ELSE load
    /\ UNCHANGED <<made, table, chain, at, held, lifeVars, fate, launched>>

\* ENTRY_IDLE_MS go by without activity; no operation takes that long.
GrowsOld ==
    /\ Yielded
    /\ at = "idle"
    /\ "sweep" \in Events
    /\ table # None
    /\ ~entry[table].aged
    /\ Edit(table, [entry[table] EXCEPT !.aged = TRUE])
    /\ UNCHANGED <<made, table, lockVars, lifeVars, fate, launched>>

SweepIdle ==
    /\ Yielded
    /\ "sweep" \in Events
    /\ table # None
    /\ LET r == entry[table]
       IN /\ r.status = "idle" /\ ~r.asking /\ r.drives = 0
          /\ r.followUps = <<>> /\ r.work = {} /\ r.notices = {}
          /\ r.aged
    /\ table' = None
    /\ UNCHANGED <<entry, made, lockVars, lifeVars, fate, launched>>

\* Deletion and shutdown converge an entry the same way and take it off the table.
Converged(r) ==
    [r EXCEPT !.asking = FALSE,
              !.abort = IF @ = "null" THEN "null" ELSE "fired",
              !.released = r.drives > 0,
              !.work = IF r.drives > 0 THEN @ ELSE {}]

TakeOffTable ==
    IF table = None
    THEN UNCHANGED <<entry, table, fate>>
    ELSE /\ Edit(table, Converged(entry[table]))
         /\ fate' = [t \in Tasks |->
                       IF \E i \in 1..Len(entry[table].followUps) :
                            entry[table].followUps[i] = t
                       THEN "released" ELSE fate[t]]
         /\ table' = None

BeginSessionDeletion ==
    /\ Yielded
    /\ "delete" \in Events
    /\ row /\ deletion = "none" /\ ~closed
    /\ marked' = TRUE
    /\ deletion' = "settling"
    /\ awaited' = {e \in Entries : e = table /\ Driven(e)}
    /\ TakeOffTable
    /\ UNCHANGED <<made, lockVars, row, closed, launched>>

\* The aborted runs have ended, or RUN_SETTLE_MS have gone by.
DeletionSettles ==
    /\ Yielded
    /\ deletion = "settling"
    /\ (\A e \in awaited : ~Driven(e)) \/ "settleTimeout" \in Events
    /\ deletion' = "removing"
    /\ awaited' = {}
    /\ UNCHANGED <<entry, made, table, lockVars, row, marked, closed, fate, launched>>

\* Files and row go; endSessionDeletion is reached whether or not that worked.
EndSessionDeletion ==
    /\ Yielded
    /\ deletion = "removing"
    /\ row' \in {FALSE} \cup IF "deleteFails" \in Events THEN {TRUE} ELSE {}
    /\ marked' = FALSE
    /\ deletion' = "none"
    /\ UNCHANGED <<entry, made, table, lockVars, awaited, closed, fate, launched>>

Shutdown ==
    /\ Yielded
    /\ "shutdown" \in Events
    /\ ~closed
    /\ closed' = TRUE
    /\ TakeOffTable
    /\ UNCHANGED <<made, lockVars, row, marked, deletion, awaited, launched>>

-----------------------------------------------------------------------------

\* A Session just created is adopted into the table; after a restart none is loaded.
Init ==
    /\ \E adopted \in {0, 1} : made = adopted /\ table = adopted
    /\ entry = [e \in Entries |-> NewEntry("current")]
    /\ chain = <<>> /\ at = "idle" /\ held = None /\ load = "current"
    /\ row = TRUE /\ marked = FALSE /\ deletion = "none" /\ awaited = {}
    /\ closed = FALSE
    /\ fate = [t \in Tasks |-> "new"]
    /\ launched = {}

\* The steps of the operation that holds the lock.
LockStep ==
    \/ RefuseAtGate \/ CheckGoalPlugin \/ GoalPluginMissing
    \/ HitEntry \/ MissEntry \/ SessionNotFound
    \/ KeepEntry \/ DiscardStaleEntry \/ RefreshFails
    \/ LoadDone \/ LoadFails
    \/ StartTask \/ QueueFollowUp \/ RefuseReady \/ PreloadDone
    \/ AskGoalHook \/ GoalHookRefuses \/ StartGoal
    \/ StartCompact \/ PullSwitchHead \/ SwitchSettles \/ SwitchStreams
    \/ StartSnapshot \/ EndSnapshot
    \/ StartQueuedFollowUp \/ StartBackgroundNoticeTask

RunStep(e) ==
    \/ EngineStarts(e) \/ EngineDelivers(e) \/ EngineExits(e) \/ DriveEnds(e)
    \/ \E n \in Notices : StartBackground(e, n) \/ BackgroundDone(e, n)
    \/ AskApproval(e)

PersonStep ==
    \/ \E k \in Kinds, t \in Tasks \cup {NoTask} : Submit(k, t)
    \/ DecideApproval \/ AbortTask
    \/ \E i \in 1..Cardinality(Tasks) : RecallFollowUp(i)

OutsideStep ==
    \/ \E other \in BOOLEAN : CredentialsChange(other)
    \/ GrowsOld \/ SweepIdle
    \/ BeginSessionDeletion \/ DeletionSettles \/ EndSessionDeletion
    \/ Shutdown

Next ==
    \/ LockStep
    \/ \E e \in 1..made : RunStep(e)
    \/ PersonStep
    \/ OutsideStep

Spec == Init /\ [][Next]_vars

\* What the event loop guarantees: the promises the lock's holder waits for settle,
\* and a stream that has ended reaches drive's finally.  Nothing makes a run end.
FairSpec ==
    /\ Spec
    /\ WF_vars(LockStep)
    /\ \A e \in Entries : WF_vars(DriveEnds(e))

-----------------------------------------------------------------------------
(* Properties *)

\* The types of the variables.
TypeOK ==
    /\ entry \in [Entries -> EntryType]
    /\ made \in 0..MaxEntries
    /\ table \in Entries \cup {None}
    /\ chain \in Seq(Operations)
    /\ at \in Points
    /\ held \in Entries \cup {None}
    /\ load \in Configs
    /\ row \in BOOLEAN /\ marked \in BOOLEAN /\ closed \in BOOLEAN
    /\ deletion \in {"none", "settling", "removing"}
    /\ awaited \subseteq Entries
    /\ fate \in [Tasks -> Fates]
    /\ launched \subseteq Notices

\* One RuntimeEntry never has two drives at once, and its status never claims a
\* run it does not have: the lock covers every await between the idle check and
\* the launch (assertIdle, startGoal's hook, startSwitch's pull).
OneDrivePerEntry ==
    \A e \in Entries :
        /\ entry[e].drives <= 1
        /\ Driven(e) <=> entry[e].phase # "none"
        /\ ~Idle(e) => Driven(e)

\* Only one Task, compaction or model switch of the Session is in progress, over
\* all its entries (the header of session-manager.ts).
MutualExclusion ==
    \A e, f \in Entries : Driven(e) /\ Driven(f) => e = f

InChain(op) == \E i \in 1..Len(chain) : chain[i] = op

\* Follow-ups never sit behind an idle entry that nothing will start: drive's
\* finally is the only place that schedules them.
NoStrandedFollowUp ==
    table # None /\ Idle(table) /\ entry[table].followUps # <<>> => InChain(StartFollowUp)

\* Neither do the completion notices of background tasks.
NoStrandedNotice ==
    table # None /\ ~Driven(table) /\ entry[table].notices # {}
        => InChain(StartNotice) \/ InChain(StartFollowUp)

\* A follow-up the manager accepted stays queued until it starts, is recalled, or
\* goes with a deletion or a shutdown (RuntimeEntry.followUps).
FollowUpKept ==
    \A t \in Tasks : fate[t] = "queued" =>
        table # None /\ \E i \in 1..Len(entry[table].followUps) : entry[table].followUps[i] = t

\* A runtime built on credentials that have changed since is marked as stale, so
\* that its next idle access rebuilds it (invalidateProjectRuntimes).
StaleIsMarked == table # None => entry[table].config # "outdated"

\* No run of the Session is under way while a fork reads its Trace (atIdleBoundary).
SnapshotIsQuiet == at = "snapshot" => \A e \in Entries : ~Driven(e)

Starts(e) == entry'[e].drives > entry[e].drives

\* No run starts on a Session that is being deleted (beginSessionDeletion).
NoStartWhileDeleting == [][\A e \in Entries : Starts(e) => ~marked]_vars

\* No run starts once shutdown has begun.
NoStartAfterShutdown == [][\A e \in Entries : Starts(e) => ~closed]_vars

RunsEnd == \A e \in Entries : Driven(e) ~> ~Driven(e)

\* If every run ends, every follow-up stops waiting: it runs, is recalled, or goes
\* with the Session.
FollowUpsDrain == RunsEnd => \A t \in Tasks : fate[t] = "queued" ~> fate[t] # "queued"

-----------------------------------------------------------------------------
(* The Session as its callers see it *)

Mailbox == INSTANCE TaskMailbox WITH
    queue <- IF table = None THEN <<>> ELSE entry[table].followUps,
    busy <- \E e \in Entries : Driven(e)

\* The runtime keeps the callers' promise: inputs start one at a time, a queued one
\* only after those accepted before it, and none is lost or started twice, whatever
\* the runs, reloads and evictions in between (startTask, startQueuedFollowUp).
KeepsMailbox == Mailbox!Spec

=============================================================================
