# A verification of WAF Harness

TLA+ models of the concurrent core of WAF Harness, the TLC configurations that check
them, and proofs that TLAPS checks. Paths are relative to `src/packages/` of this
repository; `PROJECT.json` maps every modelling definition to the lines it stands for.

- [The system](#the-system): the inventory
- [The plan](#the-plan): what is done, and what comes next
- [The Session runtime](#the-session-runtime): `SessionManager`, `TaskMailbox`
- [The schedules](#the-schedules): `Scheduler`
- [Steering](#steering): `Steering`, `Handover`
- [The runs of an Activity](#the-runs-of-an-activity): `ActivityRuns`, `RunLedger`
- [The hot-swap host](#the-hot-swap-host): `HotSwap`, `Deployment`
- [The conversation's stream](#the-conversations-stream): `SessionStream`, `Conversation`
- [What the runs check](#what-the-runs-check), [what is proved](#what-is-proved)
- [Where code and comments disagree](#where-code-and-comments-disagree)
- [What is not modelled](#what-is-not-modelled), [running it](#running-it)

## The system

WAF Harness is a TypeScript monorepo around one server process. A person (or another
program, over AMSP, a messenger, the CLI) talks to **Sessions**; a Session belongs to
an **Agent** of a **Project** and runs a ReAct loop against a model and an
environment of tools. The server keeps Sessions alive, gives them work on time
(schedules, organizations, activities) and streams what they do. It is a single
Node process: nothing runs in parallel, and everything interleaves at `await`.

| Component | State it keeps | Operations | Talks to | What is hard, and what makes it correct |
| --- | --- | --- | --- | --- |
| **Session runtime** `server/src/runtime/session-manager.ts` | a table of `RuntimeEntry`s (core Session, status, run, abort signal, follow-ups, generation), a promise chain per Session, deletion marks, `closed` | start a Task, retry, goal, compaction, model switch, fork, preload, recall, abort; drive; idle sweep; credential invalidation; deletion; shutdown | core, channels, session index, schedules, organizations, messaging, AMSP | awaits between a check and its use; events that change an entry an operation holds. One run per Session; queued inputs start once, in order, and none is lost; nothing starts on a deleted or closed Session |
| **Core engine** `core/src/engine/context-engine.ts`, `core/src/session.ts` | linear history, carry-over, steering queue, notice queue, background registry | run, steer, abort, compact, switch the model | models, tools, hooks, Trace | a stream cut off in any place, tools that end out of order, retries, notices that arrive while the run ends. Turns are complete, calls and outputs are paired, no notice is lost or delivered twice |
| **Steering** (Session runtime and engine) | a mirror in the manager, the queue in the engine | steer, recall, hand back at the end | channels | a recall races the delivery. Each input is delivered once or handed back once |
| **Background commands and subagents** `core/src/environment/tools/{command,subagent,background}` | a registry of sessions, output windows | start, detach, poll, reap, finalize | engine (notices) | caps, eviction, a process that ends while it is being polled. Each ends in one notice |
| **Trace** `core/src/trace` | append-only files | write, resume | engine, forks, deletion | a file cut off anywhere must resume to complete turns |
| **Schedules** `server/src/runtime/scheduler.ts`, `schedule-store.ts` | TOML files, a row of run state for each, queued fires in memory, a shared scan | tick, write, list, delete, archive | Session runtime, files, database | passes that overlap while the files change by hand; restarts. A due time fires once; queued fires drain; state goes with its file |
| **Organizations** `server/src/runtime/organization/` | files under a lock, desks, triggers, budgets | edit and reconcile, triggers, calendar | Session runtime (`queueIfBusy`) | triggers that trigger each other, renewals during a run. Work is delivered once, hops are bounded |
| **Messaging bridge** `server/src/runtime/messaging/bridge.ts` | a connection per enabled binding, recent inbound ids | connect, receive, reply, toggle | chat platforms, Session runtime | redelivery, reconnects, restarts. A message is processed once; one connection per Session |
| **Channels, live tail and their reader** `server/src/runtime/channel.ts`, `live-tail.ts`, `web/src/api/socket.ts`, `web/src/lib/omni/stream-controller.ts` | a ring buffer with epoch and sequence, open fragments; in the window a last event id, held events, a transcript | publish, subscribe, replay, read the history; join the two | routes, Session runtime, Trace | a cursor that was evicted or belongs to an earlier epoch, a socket that breaks under a history request. The window is the conversation as it was at some moment |
| **Activity generation** `server/src/activities/generation.ts`, `run-store.ts`, `activity-lock.ts` | a record per run, a lock per activity | start, settle, accept, cancel, time limit | Session runtime | a cancellation against a settling run, a limit that passes while it settles. A result replaces only what it was made from; no run open for ever |
| **Activity pipeline** `server/src/activities/pipeline-run.ts` | the live sequence in memory, a copy in the database | start, step, repair once, stop, reconcile at start | generation | a stop between two steps; a restart in the middle. A sequence ends once; at most one repair round |
| **Child programs** `server/src/activities/run-program.ts` | one child, its timers, an outcome | run, stop, time out | operating system | close, error, timeout and abort in any order. One outcome, and the group is stopped |
| **Deployment, sandboxes, acceptance** `server/src/activities/deploy-*.ts`, `sandbox-*.ts`, `acceptance-*.ts` | clones, stages, builds | release, deploy, build, test | git, Jenkins, child programs | stages that fail half way |
| **Hot swap** `hmr/src/host.ts`, `server/src/hmr` | resources and committed version that outlive a platform | push, freeze, swap, roll back | the whole server | requests during the swap, a new platform that fails to boot |
| **State machines of activities** `waf-state-machine/src` | machine state, effect scopes | transition, run, cancel effects | activities' players | an effect that answers after its scope is gone |
| **Machines** `server/src/machines` | one job per machine, SSH sessions | install, connect, stop | SSH | mostly the order of I/O |
| **AMSP** `amsp`, `server/src/amsp` | none beyond a run's stream | run | Session runtime, channels | a caller that disconnects |
| **Coding agents** `coding-agents/src` | a subprocess per session | prompt, cancel, permission | ACP subprocesses | a subprocess that dies within a turn |
| **Server instance lock** `server/src/lock.ts` | `server.lock` | acquire, release | files | two servers that start at once |
| HTTP, authentication, database; Agents, Projects, snapshots, benchmarks; model connections; plugins, workbenches; terminals, built-in browser; authoring and media; CLI, desktop, extension; web, ui, docs | records, files, caches | request by request | | no protocol of their own, or clients of the above |

## The plan

In order of what would hurt most if it were wrong:

1. **`SessionManager`** with the promise its callers rely on, **`TaskMailbox`**,
   **`SessionManagerProofs`** and **`SessionMailboxProofs`**: every other part hands its
   work to this one. *Done.*
2. **`Scheduler`** and **`SchedulerProofs`**: overlapping passes over files that change
   under them. *Done.*
3. **`Steering`**, its abstract **`Handover`**, and **`SteeringProofs`**: the server's
   mirror, core's queue and the stream between them. *Done.*
4. **`ActivityRuns`**, its abstract **`RunLedger`**, and **`ActivityProofs`**: start,
   settle, accept, cancel, limit, stop, restart and deletion around one lock. *Done.*
5. **`HotSwap`**, its abstract **`Deployment`**, and **`HotSwapProofs`**: the one part
   whose state outlives the process. *Done.*
6. **`SessionStream`**, its abstract **`Conversation`**, and **`StreamProofs`**: what a
   reader sees of all the above. *Done for one window and the text of one run at a time.*
7. *Left.* `Pipeline` on top of `RunLedger` by `INSTANCE` (stop between two steps, one
   repair round, reconciliation at start); `RunProgram` (abort, timeout, close and error
   of a child in any order: one outcome); `Engine` (turn loop, retries, carry-over,
   parallel tools) with an abstract history of complete turns, and `Resume` (what any
   prefix of its Trace is replayed to).
8. *Left.* Organizations, messaging, effect scopes, coding agents, the instance lock: one
   small module each.

The parts are checked one by one. They meet in narrow places: what `Steering` calls a
run is a run of `SessionManager`, of which it uses only that there is one at a time; a run
of `ActivityRuns` sees its Session as idle or busy, as `TaskMailbox` promises;
`SessionStream` needs that one run publishes at a time. Each of these is a property of
another module, so a product of the modules would add states and no behaviour.

Hazards without a property have a note in `PROJECT.json`: among them a deletion that
begins and ends within one load, a schedule written while a pass holds an older
definition, and a caller's Activity run whose folder cannot be made (the model has it, and
`RunsEnd` leaves it out).

Theorems worth proving next: `SessionOneRun` with the credential refresh or the goal hook
admitted and the idle sweep kept away from entries an operation holds (the repair of
`session_overlap`); `SentOnce` with writes that register a baseline whenever they meet no
row; the history half of the stream, that a page and what was held join without a gap, of
which every fact needs induction over the script.

## The Session runtime

`SessionManager.tla` models `runtime/session-manager.ts` from **one Session**. Sessions
share nothing in it but the outside events (a credential change, a deletion, a
shutdown, the sweep), and those appear as actions that may happen at any time.

**Atomicity.** An action is the code between two awaits. Two facts about the event loop
matter. A promise that is already settled continues before the next timer, request or
I/O callback; so while an operation can go on by itself nobody else runs (`Yielded`).
And an operation can be interrupted only where it waits for the disk, the network, a
hook or the model: the credential refresh of a hit entry (only if the provider's
credentials are refreshed over the network, `CredentialRefresh`), the load, the goal
plugin's check and its hook, the pull of a switch, the fork's read.

| Model | Code |
| --- | --- |
| `entry`, `table` | the `RuntimeEntry` objects, and the slot of `entries` for this Session. Entries that left the table stay in `entry`: their runs may still go on, which is the point |
| `entry[e].phase`, `.drives` | where its run is: `head` (startSwitch's pull), `boot` (launched, the engine not yet started), `loop`, `tail` (the engine has exited, `finally` not reached); `drives` counts them |
| `entry[e].config` | whether it was built from today's configuration, an outdated one, or one that its generation marks as `stale` |
| `chain`, `at`, `held` | `withLock`'s promise chain, the await its head is in, the entry that operation has in hand |
| `Ensuring` ... `LoadFails` | `ensureEntry`: hit, miss, refresh, generation comparison, discard, load, the check after it |
| `StartTask` ... `StartBackgroundNoticeTask` | the bodies of the operations under the lock |
| `EngineStarts` ... `BackgroundDone` | what core does to the run as far as the manager can see it |
| `DriveEnds` | the whole `finally` of `drive`: status, signal, what is scheduled behind the run |
| `SweepIdle`, `CredentialsChange`, `BeginSessionDeletion`, `Shutdown`, ... | what reaches in from outside |
| `fate`, `launched` | history: what became of each input, which background tasks were started |

`TaskMailbox.tla` is what a caller is promised: every input is taken once and has one end, one
run at a time, accepted inputs wait in a bounded queue and start in the order they were
accepted. `KeepsMailbox` states that `SessionManager` implements it, with the queue of
the entry in the table as `queue` and "some entry has a run" as `busy`.

**Fairness** (`FairSpec`): the promises the lock's holder waits for settle, and a run
whose engine has exited reaches `finally`. Nothing makes the engine exit: a model may
stream and a tool may run as long as they like. That every run ends is therefore
an assumption of the liveness property (`RunsEnd => ...`), not of the specification.

## The schedules

`Scheduler.tla` models `runtime/scheduler.ts`, the file cache of `schedule-store.ts`,
the rows of `db/repos/schedules.ts` and the routes, from **one task of one Agent**: its
file, its row, its queued fire, and the passes that overlap on it. A *pass* is one call in
flight: the timer's tick (never two: `ticking`), a write with the reconcile behind it, a
listing, a deletion. It joins the directory scan in flight, or, when forced, waits
for a scan of its own; then registers, decides, sends, archives, cleans up and drains,
with an await between most of these.

| Model | Code |
| --- | --- |
| `file` | `schedule/<name>.toml`: a definition, unparsable, or absent; also changed by hand |
| `row` | its `schedule_state` row: definition, last slot, fired, missed, invalid |
| `pending` | its entry in `Scheduler.pending`, in memory only |
| `scan` | the promise the cache shares among listings |
| `pass[p]` | where a call in flight is, and the definition and the fire it holds |
| `Registered`, `Due`, `Settled` | `registerEntry` with its baseline, `evaluateEntry`, `scheduleStatus` |
| `ScanEnds` | the resolution of the shared promise, and who starts the next scan |
| `Dispatch`, `FireNow`, `Sent`, `SendFails` | `dispatch` and `send`, with the Session busy, gone, or new |
| `Drain` ... `DrainSends` | `drainQueue`: the copy, the row, the file, the Session, the send |
| `Stop`, `Start` | the process ends in the middle of anything; file and row remain |

Time is a counter, and a pass may take any number of its steps. Some things are
merged: `createSession` and the send to that new Session (nobody else has it); the read
of the file in `drainQueue` and the code behind it. Left out: several tasks in one
queue, the mtime gate (a listing always sees the file as it is when it reads it),
validation of model references, notifications.

**Fairness** (`FairSpec`): the timer ticks, reads and writes end, `startTask` answers.
That the bound Session is at some time no longer busy is an assumption of `QueueDrains`
and of `SettledLeave`; that the server stays up and the file stays away is one of
`StateGoes`.

## Steering

`Steering.tla` models what a user types while a Task runs, from **one Session** and its
runs one after the other. The same input sits in two lists with two owners: core's queue,
emptied as a whole at the engine's next boundary, and the server's mirror, from which
`drive` shifts one entry for each input it sees on the stream.

| Model | Code |
| --- | --- |
| `queue`, `drained` | `ContextEngine.steeringQueue`; what `deliverSteering` has taken out and not yet yielded |
| `mirror`, `returned` | `RuntimeEntry.pendingSteering`, `.returnedSteering` |
| `phase`, `cut`, `aborted` | where the run is: before the engine (`boot`), in it (`turn`, `summarize`, `discard`, `fold`, `deliver`, `leaving`), between engines (`hooks`), after the stream (`tail`) |
| `Steer`, `RecallQueued`, `RecallReturned` | `steer` and `recallSteering`, each one tick over both lists |
| `Assemble`, `FoldEnds`, `FoldFails`, `DeliverOne` | the boundary: the queue taken out, its images folded, the inputs yielded one by one and shifted |
| `SummarizeEnds`, `DiscardEnds`, ... | the two compaction modes and what each looks at behind its awaits |
| `EngineEnds`, `HookContinues`, `DriveEnds`, `Evict` | `run`'s and `drive`'s `finally`; a stop hook or a goal that goes on; an idle entry dropped |
| `setup` | the Agent's compaction mode and whether stop hooks are installed |

`Handover.tla` is the promise: an input waits in order until it is given to the model from the
front, taken back, or put back for the user; it never goes two ways. `KeepsPromise` maps
its waiting list to the mirror.

**Fairness**: disk, database, image folds and hooks (which have a time limit) settle.
Model requests with their tools are not among them: that they end is the assumption
`TurnsEnd` of `SteeringAnswered`.

One setup is left out of the run and of most theorems (`NoLossySetup`): compaction by
discarding with a stop hook that continues. There the code loses inputs, see below.

## The runs of an Activity

`ActivityRuns.tla` models `activities/generation.ts` with the Activity's lock, the
Project's admission (`services/project-activity-work.ts`) and the draft, from **one
Activity** and its attempts.

| Model | Code |
| --- | --- |
| `status`, `input`, `kept` | the rows of `activity_runs`: state, the draft a run was made from (`inputRevision`), its candidate |
| `draft` | what the draft holds, and so its revision: `contentRevision` hashes the content, so a revision comes back with the content (an edit undone, a snapshot restored) and outlives a change that leaves it alone (a pin). The hash is taken to tell contents apart |
| `taken`, `torn` | history: the results that went into the draft, each with the content it replaced; the runs a crash caught between their change and their end |
| `seen` | the draft a waiting start or acceptance is meant for (`expectedRevision`) |
| `hold`, `entered`, `asked` | who holds the lock and where in its operation; the starts and acceptances admitted and not yet through |
| `session`, `work`, `told` | who works on a run: its Session (for the run or for a user), the server, a helper; whether it was told to stop |
| `pass` | the runs the timer's pass has still to look at |
| `app`, `project`, `archived` | the server (stopping, swapping, drained, crashed), the Project's deletion, the Activity's |
| `kind` | where it is worked on (`session`, `work`, `helper`, `caller`) and what becomes of its result (`apply`, `offer`, `none`): what the runners of `run-kinds/` differ in |
| `Enter` ... `TaskStarts` | `start`, await by await |
| `PassBegins` ... `Settles` | the timer, the time limit, the wait for the Session's idle boundary |
| `CollectKeeps` ... `Conflicts` | `settle` and what follows it under the lock |
| `AskAccept` ... `AcceptFails`, `WaitFor`, `WaiterLooks` | `accept`, `runAndAccept`, and who waits for a run |
| `Cancel`, `Edit`, `Archive`, `Stop`, `Drained`, `Boot`, `Crash`, `DeleteProject`, `RemoveBegins`, `RemoveEnds` | what reaches in from outside |

`RunLedger.tla` is the promise to the author: one run at a time, one end for each, and a
draft in which a result only ever replaces what its run was made from. It does not promise
that a result goes in once: after an author has put the content back it was made from, the
same run may be accepted again, in the model as in the code.

**Fairness**: the lock is a queue, so whoever asks again and again for it gets it (strong
fairness of what waits for it); the timer ticks every second; work that was aborted
returns; a run's time limit is finite and a caller's work has its own timeouts. A user may
keep a run's Session busy for ever: the limit still has to reach the run. What a run does
behind the lock is one strong fairness per run (`Turn`): its start, the answer of its work,
the limit, its settlement and its acceptance follow each other. The timer's pass is another:
one loop, which waits at the lock for one run after the other. `openDeterministic` may fail to
make the folder behind its row; that row reads running until Stop or a restart (`Stranded`, the hazard at `generation.ts:1031`), and `RunsEnd` speaks
of every other run. Local audio, which asks for admission before the lock, is taken with the
helpers, which ask behind it.

## The hot-swap host

`HotSwap.tla` models `hmr/src/host.ts`, the control object of `hmr/src/main.ts` and the
upgrade ladder of `core/src/kernel/upgrade.ts`: pushes in a queue, each stored, booted in
place of the running generation, committed by one rename of `harness.json`, and followed
by the pruning of the store.

| Model | Code |
| --- | --- |
| `store`, `newer`, `placed`, `torn` | the artifacts under `hmr/store` with the order of their ages; asset directories with their marker; those a removal left half done |
| `manifest` | `harness.json`, which a restart resumes |
| `instance`, `current`, `web`, `assets`, `previous` | the tree the host holds, what it was booted from, the pointers published to it |
| `told` | whether the product holds that very tree |
| `queue`, `step` | `opQueue`, and the await its head is at |
| `req`, `waits` | requests, and the pushes each found in the queue (`waitIdle`) |
| `Push` ... `BootPushed`, `BootFails`, `RecoverPrevious` | `upgradeAll` up to the swap, and the way back |
| `StoreArtifact`, `Commit`, `Prune`, `PruneAssets` | `persistVersion`, `commitManifest`, `pruneStore`, one file operation each |
| `Crash`, `Start`, `Restore`, `BootPackaged` | the process ends at any step and starts from what is on disk |

A version carries four parts, of which versions may share some: that is how a pruning for
one can touch another. Every file operation and every boot may fail. Two facts of the event
loop are in the guards: a continuation that is due runs before the next file operation ends
(`Due`), and the listener answers nothing while the first boot is under way, so `Start` is one
step.

`Deployment.tla` is what is seen from outside: platform and web change together, in one
step; what is durable is a version that ran; a start resumes the durable version or the
packaged one, and no mixture.

**Fairness**: file operations and boots end one way or the other, and a due continuation
runs. The process may stay down.

## The conversation's stream

`SessionStream.tla` models one session's text on its way to **one chat window**: `drive`
publishes (`Publish`) and then appends to the Trace (`TraceAppended`); the channel numbers,
buffers and evicts (`Broadcast`, `Evict`); the live tail keeps the open fragment
(`Observe`); the window subscribes and asks for the history over one socket; the
controller joins the two.

| Model | Code |
| --- | --- |
| `said`, `began`, `traced` | how much of `Script` was published, where the run began, how many messages the Trace holds |
| `epoch`, `seq`, `ring`, `evicted`, `tail` | `SessionChannel` and its live tail |
| `stream`, `joined`, `asked`, `reads`, `wire` | the subscription, history requests on their way and being read, frames on their way back in order |
| `lastId`, `phase`, `buffer`, `model`, `load`, `failed` | the controller of `stream-controller.ts` and the reducer's text part |
| `Capture`, `Read` | a history request captures cursor and fragments first and reads the page afterwards |
| `Hear...` | each kind of frame: `handleOmni`, `handleServer`, `rebuild`, `load` |
| `Weave`, `Replay`, `DedupIndex` | the joining of held events with a page |
| `Recycle`, `Lag`, `Drop`, `Reconnect`, `Retry` | a channel reclaimed, a reader cut off for lagging, a broken socket, its return, the reader's second try |

`Conversation.tla` is the promise: the window shows the conversation up to some moment. While
the controller is live that is all of the window; while it loads, only the complete
messages (`Promised`).

Assumptions, as conditions in the actions: a Trace append ends before a page asked for
after it is read (`Read`); `StreamFirst`: no history request is out while the stream is
not; `NothingHeld`: no channel starts over while a failed load holds events. The last two
are constants (`Assumed`), because the code does not guarantee them: without the first
`stream_raced` fails, without the second TLC finds the replay described below.

There is no fairness: every behaviour of the model is finite up to stuttering, so
`CaughtUp` states as an invariant of the resting states what a liveness property would.

## What the runs check

States are distinct states. All runs are exhaustive.

| Run | What | Bounds, and why they are enough |
| --- | --- | --- |
| `session_full` | `TypeOK`, `OneDrivePerEntry`, `NoStrandedFollowUp` | all eight operations and all outside events, network refresh; one input, one caller at the lock beside what the runs schedule, two runtimes. 3.8M. Two runtimes are what an eviction or a discard under an operation needs |
| `session_steady` | `NoStrandedNotice`, `SnapshotIsQuiet`, `NoStartWhileDeleting`, `KeepsMailbox` | three inputs and a queue of two (order and overflow matter), one background task, no operation that waits between its idle check and its launch. 2.5M |
| `session_drain` | `FollowUpsDrain` under `FairSpec` | two inputs, one background task, two callers at the lock, eviction, reload, deletion. 240k |
| `session_overlap` | `MutualExclusion`, violated | the smallest instance with the race; see below |
| `schedule_once` | `TypeOK`, `SentOnce` | two periodic definitions (one bound with an end, one later and opening Sessions), the tick beside one listing or deletion, hand edits, restarts, failures, a deleted Session; clock to 3. 2.1M. Three units hold a first, a later and a last due time and the time past the end |
| `schedule_settles` | `ScanAwaited`, `QueueDrains`, `StateGoes`, `SettledLeave` under `FairSpec` | one ending periodic definition, the tick beside one write or listing, hand edits; clock to 3. 490k |
| `steering` | `TypeOK`, `MirrorsQueue`, `HandedOverOnce`, `NoneVanishes`, `KeepsPromise`, `SteeringAnswered` under `FairSpec` | three inputs, one with an image, each submitted once; every setup but the lossy one; any number of runs. 31k. Three inputs are one being delivered, one waiting behind it and one returned |
| `activity` | `TypeOK`, `OneRunning`, `NoLostEdit`, `TakenIsRecorded`, `NoneLeftWorking`, `DrainedIsQuiet`, `GoneIsEmpty`, `KeepsLedger` | two runs of five kinds (each place of work, each use of a result), any number of changes between two contents, so that the revision a run was made from goes and comes back, one stop, swap or crash, symmetry of the runs. 2.1M. Revisions are only compared, and two contents make each comparison come out both ways; a third run would wait for the same lock |
| `activity_ends` | `RunsEnd`, `RequestsAnswered` under `FairSpec` | two runs, one at any place and one a helper's, one stop, swap or crash. 96k. Each run's start, acceptance and timer meet the other's settlement at the lock while the deletion waits for what was admitted: what takes lock and admission in opposite orders is always of two runs. The draft's content stays the same here (edits and results still change it), so no request is refused for its revision; refusals only let go of the lock earlier |
| `hotswap` | `TypeOK`, `CommittedIsWhole`, `CommittedIsSpared`, `RunningHasAssets`, `NoneHandedDisposed`, `KeepsDeployment`, `EverybodyAnswered` under `FairSpec` | three versions that share a web dist, a CLI or nothing, two pushes, a request, a store that keeps one of each kind, two starts of the process, a root with or without a committed version. 560k. `StoreKeep` = 1 makes the pruning want everything that is not protected |
| `stream` | `TypeOK`, `CaughtUp`, `KeepsConversation` | a message said at once and one written in pieces, a buffer of two events, two breaks or lags, one recycling, one retry. 2.0M. A buffer shorter than a message makes every resumption a choice between replay and resync. `ThreeMessages` with `DedupWindow` 3 and one break passes too (4.0M) |
| `stream_raced` | `KeepsConversation`, violated | the same script without breaks; see below |

The bounds in the modules are `MaxEntries` (runtimes the loader builds), `MaxChain`
(callers waiting at the lock; what the runs themselves schedule is not bounded by it),
`MaxTime`, `MaxRestarts`, `MaxStarts`, `MaxDrops`, `MaxRecycles` and
`MaxRetries`. `FollowUpLimit`, `StoreKeep`, `RingSize` and `DedupWindow` are limits of the
code, smaller. `DedupWindow` is as long as the script, as the code's 100 messages are
longer than what a window normally holds back.
The Session, Activity, hot-swap and stream runs switch the deadlock check off: a Session
nobody calls, a server that is stopped, a root nobody pushes to and a conversation that is
over may rest.

Why the properties are not obvious from the code:

- `OneDrivePerEntry` needs the lock to cover every await between an idle check and a
  launch, and a switch to be a run before the entry reads busy.
- `NoStrandedFollowUp`, `NoStrandedNotice`, `FollowUpsDrain`: only `drive`'s `finally`
  schedules what waits. A background task that ends while the engine is on its way out
  is seen by nobody else.
- `SnapshotIsQuiet`: a run may live on an entry that is no longer in the table, where
  `atIdleBoundary` does not look.
- `SentOnce`: slots are consumed in the row before the send; a restored file, a
  restart, a lost queue or a second pass must not bring one back.
- `ScanAwaited`: forced listings are chained one behind the other, so the first
  that scans must be one the others wait for.
- `StateGoes`: a pass that read a file before it was removed registers it again; some
  later pass has to undo that.
- `MirrorsQueue`, `HandedOverOnce`, `NoneVanishes`: deliveries are matched to the mirror by
  position only, and a recall may fall between the boundary that empties core's queue and
  the message that shifts the mirror.
- `OneRunning`, `NoLostEdit`: a start passes three awaits between its check and its row,
  a helper answers after minutes, and an acceptance names a draft that may have moved on,
  or moved on and come back.
- `TakenIsRecorded`, `DrainedIsQuiet`, `GoneIsEmpty`: the draft and the row change in two
  steps, and a stop, a hot swap or a deletion may fall between them.
- `RequestsAnswered`: starts take admission and then the lock, the timer's settlement
  takes the lock and then admission; with the deletion waiting for the starts, a settlement
  that waited for admission instead of being refused would hold them all up (its mutant).
- `CommittedIsWhole`, `CommittedIsSpared`: the pruning goes by age, and a push of a version
  that is stored already does not renew its artifacts' age.
- `NoneHandedDisposed`, `EverybodyAnswered`: a request waits for the queue it found, and
  must be handed over before the next push disposes the tree, however many come.
- `KeepsConversation`, `CaughtUp`: cursor and fragments are captured before the page is
  read, messages are on the stream before they are in the page, and a resumed stream may
  begin in another life of the channel.

`NoStartWhileDeleting` and `MutualExclusion` are not properties of the whole runtime
(see the disagreements below). `session_steady` shows the first, and by `KeepsMailbox`
(which never starts an input, nor occupies the Session, while it is busy) the
substance of the second, for the operations without a wait between check and launch;
`SessionNoStartWhileDeleting` and `SessionOneRun` prove both there.
`SentOnce` is checked where only the tick drains. Write routes drain too, and then a
fire can be sent twice; the hazard in `PROJECT.json` says so.

Every property of a passing run is broken by a mutant: a plausible bug in one mapped
definition, listed in `PROJECT.json` and defined beside it in its module.

## What is proved

With TLAPS, for all values of the constants that satisfy the assumptions of the modules
(any inputs, definitions, requests, callers, versions, limits and bounds):

| Theorem | Statement |
| --- | --- |
| `TypeCorrect`, `SchedulerTypeCorrect`, `SteeringTypeCorrect`, `ActivityTypeCorrect`, `HotSwapTypeCorrect`, `StreamTypeCorrect` | `Spec => []TypeOK`, of each of the six modules |
| `OneDrive`, `FollowUpsNotStranded` | `SessionManager!Spec => []OneDrivePerEntry`, `[]NoStrandedFollowUp` |
| `SessionOneRun`, `SessionSnapshotIsQuiet`, `SessionFollowUpKept` | `Steady` assumed: `Spec => []MutualExclusion`, `[]SnapshotIsQuiet`, `[]FollowUpKept` |
| `SessionNoStartWhileDeleting` | `Steady` assumed: `Spec => NoStartWhileDeleting`, an action property |
| `SessionKeepsMailbox` | `Steady` assumed: `Spec => KeepsMailbox`, the refinement of `TaskMailbox` |
| `SessionNoStrandedNotice` | `Steady` and no shutdown assumed: `Spec => []NoStrandedNotice` |
| `SessionInputsMoveOn`, `SessionInputsBeginAlone` | Nothing assumed: `Spec => [][MovesOn]_vars`, `[][BeginsAlone]_vars` |
| `SessionOneRunUndisturbed` | `Undisturbed` assumed: `Spec => []MutualExclusion` |
| `SessionForkUndisturbed` | Of the events only credential changes assumed: `Spec => []SnapshotIsQuiet` |
| `ScansAreAwaited` | `Scheduler!Spec => []ScanAwaited` |
| `SchedulerSentOnce` | `OnePeriod` and no write beside the tick assumed: `Spec => []SentOnce` |
| `SchedulerFiresAreDue` | Nothing assumed: whatever is sent, queued or in hand is `CalledFor` |
| `SteeringGivenOnce` | `Steering!Spec => []GivenOnce` |
| `SteeringMirrorsQueue`, `SteeringHandedOverOnce`, `SteeringNoneVanishes` | `NoLossySetup` assumed: `Spec => []` of each |
| `SteeringImplementsHandover` | `NoLossySetup` assumed: `Spec => KeepsPromise`, the refinement of `Handover` |
| `ActivityOneRunning`, `ActivityNoLostEdit`, `ActivityNoneLeftWorking`, `ActivityTakenIsRecorded`, `ActivityDrainedIsQuiet`, `ActivityGoneIsEmpty` | `ActivityRuns!Spec => []` of each |
| `ActivityEffort` | `Spec => []EffortOK`: what works on a run at each place of its life |
| `ActivityKeepsLedger` | `Spec => KeepsLedger`, the refinement of `RunLedger` |
| `HotSwapCommittedIsWhole`, `HotSwapRunningHasAssets`, `HotSwapNoneHandedDisposed` | `HotSwap!Spec => []` of each |
| `HotSwapCommittedIsSpared` | `Spec => CommittedIsSpared`, an action property |
| `HotSwapKeepsDeployment` | `Spec => KeepsDeployment`, the refinement of `Deployment` |
| `RingHolds`, `BufferTellsTheRest` | `SessionStream!Spec => []RingOK`, `[]TellsTheRest` |
| `NothingLeavesUncounted` | `Spec => [][LeavesCounted]_vars` |
| `HeardInOrder` | `Spec => [][lastId' # lastId => After(lastId', lastId)]_vars` |
| `NoneMissed` | `Spec => []CoverOK` |
| `NeverLeftLoading` | `Spec => [](AtRest => failed \/ (phase = "live" /\ buffer = <<>>))` |
| `LiveIsLeftAlone` | `Spec => [][LeftAlone]_vars` |

*The Session.* `OneDrivePerEntry` is not inductive: from a state in which an operation
waits at the goal hook with a busy entry in hand, a launch would break it. `RunsOK`
adds what rules that out. `LockOK`: an operation that waits is at the head of the chain, and
past `ensureEntry` it has a made entry in hand. `PhaseOK`: an entry has exactly the
drives its phase says, is idle in `none` and `head` only, and `head` is the pull that
the lock's holder is in. `HookOK`: at the hook the entry in hand is still idle, because
every other way to start a run needs the lock. Lemmas say what each way of moving on
(`Leave`, `GoTo`, `Launch`, an edit that keeps the run) does to `RunsOK`, and the step
lemma takes the actions one by one.

`NoStrandedFollowUp` needs more (`QueueOK`, on top of `RunsOK`). A scheduled start must
not be the operation that waits, or it would already have been looked at when an input
joins the queue (`HeadOK`: only callers' operations wait). A start refused because the
Session is marked or the server closed must leave nothing behind: while marked the
table is empty (`DeletionOK`), and once closed only a load that was in flight can fill
it again, with an entry nothing is ever queued behind (`LateOK`). The proof goes by the
ways in which the property can be disturbed: an input joins the queue, a run ends, an
entry enters the table, an operation leaves the chain.

*The mailbox.* `MutualExclusion`, and with it the refinement, is false of the whole runtime
(`session_overlap`). What it needs is `Steady`: credentials are not refreshed over the
network, nobody starts a goal, and an aborted run ends within `RUN_SETTLE_MS`. Each is
needed: the first two are awaits between the idle check and the launch, during which the
sweep can take the entry out of the table; with the third a deletion goes on while the run it
gave up lives. Under it, `DriveOK` says where a run may be: `HandOK`, what the lock's
holder has in hand is still the table's entry; `QuietOK`, nothing runs while a runtime is
loaded or a Trace is read, and nothing elsewhere while an entry is looked at; `AwayOK`, what
runs on an entry off the table is what a deletion awaits or a shutdown left. `SessionOneRun`,
`SessionSnapshotIsQuiet` and `SessionNoStartWhileDeleting` follow.

For the refinement every action is shown to have one of eight shapes as the caller sees it
(`StepShape`: nothing, a refusal, a start of the holder's own input, of the next one waiting
or of none, an input queued, recalled or released, the end of a run), and each shape with
`TasksOK` (what waits is what was accepted, once) is a step of `TaskMailbox` or a stutter.
`SwiftOK` carries the order: a follow-up's start is alone in the chain when it is scheduled,
so nobody overtakes the queue. `FollowUpKept` is read off `TasksOK`: `session_lost` loses
an input when a stale runtime is discarded with follow-ups behind it, and without the network
refresh no caller gets to that discard before the follow-up's start. `NoStrandedNotice` needs, beside these, that a scheduled follow-up
still has one to start (`NoticeOK`); a shutdown takes the follow-ups and leaves the notice,
which nothing looks at any more, so shutdown is left out of that theorem and of its run.

*The Session without `Steady`.* Two things hold of the whole runtime, overlapping runs
included. An input goes one way (`MovesOn`): from the lock to a refusal, a run or the
queue, from the queue to a run, a recall or a release. And it begins with a launch that it
shares with no other input (`BeginsAlone`). The invariant is `InputsOK`: an operation in the
chain has an input of its own that waits, and what is behind the table's entry is queued and
there once. It says nothing of the runs, which is why it survives them; inputs behind an
entry that left the table are never looked at again, so it need not speak of those. Again each
step has a shape (`Stays`, `Settles`, `TakesNext`, ...) and each shape keeps the invariant.

The other direction keeps the goals and the credential refresh, and asks what `MutualExclusion`
needs then: `Undisturbed`, that of the outside events only credential changes and deletions
happen. `ApartOK` says for every place of the lock's holder which entries may run. A
deletion during an await of the holder is harmless to it: it empties the table and waits for the
run, and the marks stop the next caller from loading a second entry. Each of the
other events breaks it, as TLC shows: the sweep and the shutdown take the entry from
under the holder and keep no mark, a failed deletion or one that gives up waiting takes its
mark away while the entry it dropped may still be launched on. `SnapshotIsQuiet` does not
survive even the deletion: a goal begins on the entry the deletion took, then a
fork reads its Trace.

*The schedules.* `SchedulerOK` strengthens the types by what a pass has in hand: a
definition where it writes, a fire where it sends or drains (`HandOK`). The point of
`ScanAwaited` is `ScanEnds`: either nobody waits, or the scan is at once the next one's;
every other step leaves the scan, and never sends a pass to wait for none.

`SentOnce` needs to say where a fire may be. `OnceOK`: a fire that was dispatched (it is sent,
queued, or in the tick's hand) has come due, is not after the latest slot of its definition,
and the row with its start has that slot consumed or is missed (`RecordedOK`); the three
places are disjoint, but for the copy `drainQueue` works on (`SeparateOK`). A dispatch takes
a slot past the row's last, so it is a new one; a baseline registered after a restart or a
restored file starts at the latest slot, which is why no old one comes back. Two lemmas on
division say that the latest slot never goes back. Both hypotheses are needed, and TLC shows
why. Without `OnePeriod` (definitions with the same start have the same period) an edit that
keeps the start and lengthens the period gives a task that comes back a baseline before a
time it already sent; the edit back then sends it again. With a write beside the tick, its
reconcile drains too: both passes copy the queued fire and both send it; or a started
definition is deleted and saved again, and is registered without a baseline.

What needs neither hypothesis is that a fire is due (`SchedulerFiresAreDue`). `FiresCalledFor`
holds of every fire on its way, in the hand of any pass: `Forwarded` says that a step lets
nothing onto the way but what was there or what `Due` just let through, and time only goes
forward. So a fire may be sent twice, by a write beside the tick, or late, or for a file that
was changed since; it is never sent early, off its period, past its end or for a definition
that was switched off when it was dispatched.

*Steering.* `SteeringOK` adds to the types what each phase of the run says of core's two
lists (`ShapeOK`: nothing is queued while no engine runs, something is drained exactly in
`fold` and `deliver`, the mirror is empty before an engine starts) and that every accepted
input is in one place (`ApartOK`). Lemmas on `Without`, `Tail` and concatenation of
sequences without repetition carry the recalls and deliveries. The refinement needs one
more fact, that an input is delivered from the front: by `MirrorsQueue` the head of
`drained` is the head of the mirror. The assumption `NoLossySetup` is used once, where
discarding ends and a hook could go on with the mirror not empty. What core keeps by itself
needs no such assumption (`CoreOK`: an input is queued, drained or delivered, never two of
these): so in every setup the model is given each input at most once (`SteeringGivenOnce`).

*Activity runs.* `ActivityOK`: `LockOK` says what holding the lock at each point says of the
run it is held for, `AdmittedOK` that whoever waits for the lock has no row, `DraftOK` that a
result in the draft replaced what its run was made from, and that the run has its row, whose
input nothing writes again. `OneRunning` and
`NoLostEdit` follow; `KeepsLedger` maps each action to `Open`, `End`, a change or a stutter.
`EffortOK` adds what works on a run at each place of its life (nothing before its row, nothing
yet while it is staged, no Session while it is settled), from which `NoneLeftWorking` follows;
`GoneOK`, that a deletion past its convergence has nobody admitted or asking, is what
`GoneIsEmpty` needs.

*Hot swap.* `SwapOK`: `ProcessOK` (what the steps of a push say of the tree, the web dist
and the manifest), `StoredOK` (what the push has in the store at each step, and
`CommittedIsWhole`), `AssetsOK` (the pointer, or the one kept for the way back, is the running
bundle's own), `RequestsOK` (during `boot` and `recover`, when the host holds a disposed
tree, no continuation is due). The hard step is the pruning: `Kept` never lets go of what
the manifest or the running version names, whatever the order of ages.

*The stream.* `ChannelOK` is `RingOK` with the type of `said` and `epoch`; every action leaves
the channel alone, begins a new life of it, or is a broadcast. `TellsTheRest` says that the
buffer's events of the conversation are its latest, with no hole; `LeavesCounted`, that what
leaves the buffer raises `evicted`, the number a replay hit is decided by.

`StreamOK` follows the frames to the page. `OrderOK`: what is on the wire is numbered
upwards and after the page's place, in this life of the channel, and an ended stream ends
with its last numbered frame; a number cuts the buffer in two (`SplitOK`). `CoverOK`: for
the page's place, and for the place each frame on the wire will move it to, every buffered
event beyond it is behind it on the wire, unless a resync is. The step that could break it
is the subscription (`ReplayIsTheRest`, `SubscribeShape`): a hit puts the whole rest of the
buffer on the wire, a miss a resync with the next number. So what the page hears, it hears
once and in order (`HeardInOrder`), and it misses nothing in silence (`NoneMissed`), over any
number of drops, lags and new lives.

`NeverLeftLoading` is `CaughtUp` without the content of the transcript. Its invariant `LoadOK`
follows the current load: it is asked for, read or answered in one place only (`LoadsOK`), a
window that loads has it under way or was told of a failure, and a live one has no load under
way, no failure and no event held back (`WindowOK`). The step to look at is a page whose
replay meets a resync: that load counts for nothing, and the next one is asked for in the
same step. `LiveIsLeftAlone` is the other side: `load` guards itself by its epoch and not by
the phase, which is enough because no answer for a live window's epoch is left.

Model-checked only:

- everything under fairness (`FollowUpsDrain`, `QueueDrains`, `StateGoes`, `SettledLeave`,
  `SteeringAnswered`, `RunsEnd`, `RequestsAnswered`, `EverybodyAnswered`): liveness and
  `ENABLED` are out of the prover's reach;
- `KeepsConversation`, and of `CaughtUp` what the transcript shows: they speak of messages
  picked out of the script, and of the folding of held events into the transcript, about
  which every fact needs induction over sequences (that the window is not left loading is
  proved).

## Where code and comments disagree

Found while modelling; each is a finding in `PROJECT.json`, with the lines it quotes. Two are
runs of the project:

- `session_overlap`: the idle sweep does not know that an operation holds the entry.
  It is evicted, the operation launches on it, the next one loads a second: two runs.
- `stream_raced`: a page's first history request goes over HTTP while its stream waits
  for the socket; what is published between the two reaches the window by no path.

The others have a configuration beside the runs, which TLC finds violated in seconds:

| Configuration | Property | What happens |
| --- | --- | --- |
| `session_deleting.cfg` | `NoStartWhileDeleting` | `startGoal` checks the deletion marks, then awaits the plugin's hook and checks nothing afterwards: the goal starts on a Session under deletion |
| `session_closed.cfg` | `NoStartAfterShutdown` | after a load `ensureEntry` looks at the deletion marks again and not at `closed`: a Task starts in a server that is shutting down |
| `session_lost.cfg` | `FollowUpKept` | a stale runtime is discarded although follow-ups wait behind its last run; `sweepIdle` has the condition, `ensureEntry` does not |
| `session_unseen.cfg` | `StaleIsMarked` | a credential change during the first load of an Agent's first Session bumps no generation, so the old credentials stay |
| `schedule_rescheduled.cfg` | `DoneWhenDue` | a one-shot with a queued fire gets a later start; the old fire is sent afterwards and marks the new instance as done |
| `schedule_made_up.cfg` | `NotMadeUp` | a due time that passes while the server is stopped fires on the first tick, where the documentation says that missed runs are not made up |
| `steering_lost.cfg` | `NoneVanishes` | an input accepted while the context is discarded is cleared from core's queue and stays in the mirror; if a hook continues the Task, the next delivery shifts it away |
| `hotswap_told.cfg` | `ToldOfCurrent` | a pushed version fails, the previous one is booted again, and the product is not told of the new tree |

And two without one: `weaveLiveTail` puts held events of an earlier life of the channel
behind the fresh page (TLC finds it in `stream.cfg` when `NothingHeld` is taken out of
`Assumed`); and a push without native assets leaves the asset pointer of the version before it,
where a restart would publish none (`RunningHasAssets` speaks of versions that carry some).

## What is not modelled

Of the Session runtime: titles, usage, child rows, the swap to another server generation,
the deletions of whole Agents and Projects (the same convergence over several entries).
Of core: the turn loop's retries, carry-over and tools; Traces beyond the messages they
hold. Of the schedules: see above. Of the Activity runs: what a kind stages, writes and
checks is one outcome, and the candidate's folder is left out. Of the hot-swap host: a packaged
version that cannot boot, the blob store behind the assets, its upload and probe
endpoints, the registry of resources that outlive a generation and what reconciliation
does to the parked document. Of the stream: the user's channel, thinking and tool fragments,
subagents, held inputs, approvals, older windows of the history, and several windows of
one session (they share the channel and nothing else).

The remaining components are listed in `PROJECT.json` with the reason, or with their place
in the plan. Most of the repository by lines (the web interface, the strings, the model
catalogue, the HTTP routes, the CLI, the desktop shell) has no protocol of its own: it
edits records in one request, renders, or holds data.

## Running it

```
tlc -workers 2 -config session_full.cfg MCSession.tla
tlc -workers 2 -config schedule_once.cfg MCScheduler.tla
tlc -workers 2 -config steering.cfg MCSteering.tla
tlc -workers 2 -config activity.cfg MCActivity.tla
tlc -workers 2 -config hotswap.cfg MCHotSwap.tla
tlc -workers 2 -config stream.cfg MCStream.tla
tlapm SessionManagerProofs.tla    # and SessionMailboxProofs, SchedulerProofs, SteeringProofs,
                                  # ActivityProofs, HotSwapProofs, StreamProofs
```

`PROJECT.json` lists which module goes with which configuration; the configurations beside
the runs belong to the MC module of their prefix. The modules use the standard modules and,
of the community modules, `SequencesExt`; the proofs use `SequenceTheorems`,
`FiniteSetTheorems` and `TLAPS`.
