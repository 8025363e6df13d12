------------------------ MODULE SessionManagerProofs ------------------------
(* Theorems about SessionManager, for every number of inputs, notices,     *)
(* entries and waiting callers, and every choice of operations and events. *)
EXTENDS SessionManager, SequenceTheorems, TLAPS

-----------------------------------------------------------------------------
(* The inductive invariant *)

\* The lock: an operation that waits, waits at the head of the chain, and one that
\* has passed ensureEntry has an entry in hand.
LockOK ==
    /\ at # "idle" => chain # <<>>
    /\ at \in {"refresh", "ready", "hook", "head"} => held \in 1..made
    /\ table \in 0..made

\* A run is where its phase says: "head" is the pull of a switch, done under the
\* lock by its holder; every other phase belongs to an entry that is not idle.
PhaseOK(e) ==
    /\ entry[e].drives = IF entry[e].phase = "none" THEN 0 ELSE 1
    /\ Idle(e) <=> entry[e].phase \in {"none", "head"}
    /\ entry[e].phase = "head" <=> at = "head" /\ held = e

\* The operations that wait between the idle check and the launch still hold an
\* idle entry.
HookOK == at = "hook" => Idle(held)

RunsOK ==
    /\ TypeOK
    /\ LockOK
    /\ \A e \in Entries : PhaseOK(e)
    /\ HookOK

-----------------------------------------------------------------------------
(* What the helpers of the actions return and keep *)

\* A launched entry is an entry, running, with one drive more and the same queue.
LEMMA LaunchedEntry ==
    ASSUME NEW r \in EntryType, NEW s \in {"running", "compacting"},
           NEW p \in {"boot", "tail"}
    PROVE  /\ Launched(r, s, p) \in EntryType
           /\ Launched(r, s, p).status = s
           /\ Launched(r, s, p).phase = p
           /\ Launched(r, s, p).drives = r.drives + 1
           /\ Launched(r, s, p).followUps = r.followUps
  <1>1. r.drives + 1 \in Nat
    BY DEF EntryType
  <1>2. Launched(r, s, p) \in EntryType
    BY <1>1 DEF Launched, EntryType
  <1>3. Launched(r, s, p).status = s /\ Launched(r, s, p).phase = p
    BY DEF Launched, EntryType
  <1>4. Launched(r, s, p).drives = r.drives + 1
    BY DEF Launched, EntryType
  <1>5. Launched(r, s, p).followUps = r.followUps
    BY DEF Launched, EntryType
  <1> QED
    BY <1>2, <1>3, <1>4, <1>5

\* Disposal touches the background work only.
LEMMA DisposedEntry ==
    ASSUME NEW r \in EntryType
    PROVE  /\ Disposed(r) \in EntryType
           /\ Disposed(r).status = r.status
           /\ Disposed(r).phase = r.phase
           /\ Disposed(r).drives = r.drives
           /\ Disposed(r).followUps = r.followUps
  BY DEF Disposed, EntryType

\* Convergence leaves the run and the queue as they are.
LEMMA ConvergedEntry ==
    ASSUME NEW r \in EntryType
    PROVE  /\ Converged(r) \in EntryType
           /\ Converged(r).status = r.status
           /\ Converged(r).phase = r.phase
           /\ Converged(r).drives = r.drives
           /\ Converged(r).followUps = r.followUps
  <1> DEFINE a == IF r.abort = "null" THEN "null" ELSE "fired"
             b == r.drives > 0
             w == IF r.drives > 0 THEN r.work ELSE {}
  <1>1. a \in {"null", "armed", "fired"} /\ b \in BOOLEAN /\ w \in SUBSET Notices
    BY DEF EntryType
  <1>2. Converged(r) = [r EXCEPT !.asking = FALSE, !.abort = a, !.released = b, !.work = w]
    BY DEF Converged
  <1> HIDE DEF a, b, w
  <1> QED
    BY <1>1, <1>2 DEF EntryType

\* A recall leaves a queue of Tasks, and none if there was one.
LEMMA RemovedSeq ==
    ASSUME NEW q \in Seq(Tasks), NEW i \in 1..Len(q)
    PROVE  RemoveAt(q, i) \in Seq(Tasks)
  BY DEF RemoveAt

\* An edit changes one entry.
LEMMA Edited ==
    ASSUME entry \in [Entries -> EntryType], NEW e \in Entries, NEW q \in EntryType, Edit(e, q)
    PROVE  /\ entry' \in [Entries -> EntryType]
           /\ entry'[e] = q
           /\ \A x \in Entries : x # e => entry'[x] = entry[x]
  BY DEF Edit

\* What has been made is an entry.
LEMMA MadeEntry ==
    ASSUME TypeOK, NEW e \in 1..made
    PROVE  e \in Entries
  BY ConstantsAssumption DEF TypeOK, Entries

\* The fates stay fates.
LEMMA Recorded ==
    ASSUME TypeOK, NEW t, NEW what \in Fates, Record(t, what)
    PROVE  fate' \in [Tasks -> Fates]
  BY DEF Record, TypeOK

-----------------------------------------------------------------------------
(* What each way of moving on keeps *)

\* The lock is given up.
LEMMA Unlocked ==
    ASSUME TypeOK, chain # <<>>, Unlock
    PROVE  /\ chain' \in Seq(Operations) /\ at' = "idle" /\ held' = None
           /\ load' \in Configs /\ at' \in Points
  BY DEF TypeOK, Unlock, Points, Configs

\* The operation ends without a run.
LEMMA LeaveRuns ==
    ASSUME RunsOK, chain # <<>>, at # "head", Leave
    PROVE  RunsOK'
  <1>1. fate' \in [Tasks -> Fates]
    BY Recorded DEF RunsOK, Leave, Fates
  <1>2. TypeOK'
    BY <1>1, Unlocked DEF RunsOK, TypeOK, Leave, Unlock, lifeVars, None
  <1>3. LockOK' /\ HookOK'
    BY DEF RunsOK, LockOK, HookOK, Leave, Unlock
  <1>4. ASSUME NEW e \in Entries PROVE PhaseOK(e)'
    BY DEF RunsOK, PhaseOK, Leave, Unlock, Idle
  <1> QED
    BY <1>2, <1>3, <1>4 DEF RunsOK

\* The operation goes on to another wait.
LEMMA GoToRuns ==
    ASSUME RunsOK, chain # <<>>, at # "head",
           NEW p \in Points \ {"head"}, NEW e \in 0..made,
           p \in {"refresh", "ready", "hook"} => e # 0,
           p = "hook" => Idle(e),
           GoTo(p, e), table' \in {table, None}
    PROVE  RunsOK'
  <1>1. TypeOK'
    BY ConstantsAssumption DEF RunsOK, TypeOK, GoTo, lifeVars, None, Entries
  <1>2. LockOK' /\ HookOK'
    BY DEF RunsOK, TypeOK, LockOK, HookOK, GoTo, None, Idle
  <1>3. ASSUME NEW x \in Entries PROVE PhaseOK(x)'
    BY DEF RunsOK, PhaseOK, GoTo, Idle
  <1> QED
    BY <1>1, <1>2, <1>3 DEF RunsOK

\* A run is launched on an idle entry that has none.
LEMMA LaunchRuns ==
    ASSUME RunsOK, chain # <<>>, at # "head",
           NEW e \in 1..made, Idle(e),
           NEW r \in EntryType, r.drives = entry[e].drives,
           NEW t, Launch(e, r, t)
    PROVE  RunsOK'
  <1>1. e \in Entries
    BY MadeEntry DEF RunsOK
  <1>2. entry[e].phase = "none" /\ r.drives = 0
    BY <1>1 DEF RunsOK, PhaseOK
  <1> DEFINE q == Launched(r, "running", "boot")
  <1>3. q \in EntryType /\ q.status = "running" /\ q.phase = "boot" /\ q.drives = 1
    BY <1>2, LaunchedEntry
  <1>4. /\ entry' \in [Entries -> EntryType] /\ entry'[e] = q
        /\ \A x \in Entries : x # e => entry'[x] = entry[x]
    BY <1>1, <1>3, Edited DEF RunsOK, TypeOK, Launch
  <1> HIDE DEF q
  <1>5. fate' \in [Tasks -> Fates]
    BY Recorded DEF RunsOK, Launch, Fates
  <1>6. TypeOK'
    BY <1>4, <1>5, Unlocked DEF RunsOK, TypeOK, Launch, lifeVars, None
  <1>7. LockOK' /\ HookOK'
    BY DEF RunsOK, LockOK, HookOK, Launch, Unlock
  <1>8. ASSUME NEW x \in Entries PROVE PhaseOK(x)'
    BY <1>3, <1>4 DEF RunsOK, PhaseOK, Launch, Unlock, Idle
  <1> QED
    BY <1>6, <1>7, <1>8 DEF RunsOK

\* The shape of an entry's run, all that the invariant asks of it.
SameRun(r, q) == q.status = r.status /\ q.phase = r.phase /\ q.drives = r.drives

\* An edit that leaves the run alone, made by someone who does not hold the lock.
LEMMA EditRuns ==
    ASSUME RunsOK, NEW e \in Entries, NEW q \in EntryType, Edit(e, q),
           SameRun(entry[e], q),
           UNCHANGED <<made, at, held, load>>,
           table' \in {table, None},
           chain' \in Seq(Operations), chain # <<>> => chain' # <<>>,
           <<row, marked, closed>>' \in BOOLEAN \X BOOLEAN \X BOOLEAN,
           deletion' \in {"none", "settling", "removing"}, awaited' \subseteq Entries,
           fate' \in [Tasks -> Fates], launched' \subseteq Notices
    PROVE  RunsOK'
  <1>1. /\ entry' \in [Entries -> EntryType] /\ entry'[e] = q
        /\ \A x \in Entries : x # e => entry'[x] = entry[x]
    BY Edited DEF RunsOK, TypeOK
  <1>2. TypeOK'
    BY <1>1 DEF RunsOK, TypeOK, None
  <1>3. LockOK'
    BY DEF RunsOK, TypeOK, LockOK, None
  <1>4. HookOK'
    <2>1. at = "hook" => held \in Entries
      BY MadeEntry DEF RunsOK, LockOK
    <2> QED
      BY <1>1, <2>1 DEF RunsOK, HookOK, SameRun, Idle
  <1>5. ASSUME NEW x \in Entries PROVE PhaseOK(x)'
    BY <1>1 DEF RunsOK, PhaseOK, SameRun, Idle
  <1> QED
    BY <1>2, <1>3, <1>4, <1>5 DEF RunsOK

-----------------------------------------------------------------------------
(* The operation that holds the lock *)

\* Whoever is past the gate holds the lock, and has the entry it looks at in hand.
LEMMA Holding ==
    ASSUME RunsOK
    PROVE  /\ at # "idle" => chain # <<>>
           /\ at \in {"refresh", "ready", "hook", "head"} => held \in 1..made /\ held \in Entries
           /\ Ensuring => chain # <<>> /\ at # "head"
           /\ table # None => table \in 1..made /\ table \in Entries
           /\ \A e \in Entries : entry[e] \in EntryType
  BY MadeEntry DEF RunsOK, TypeOK, LockOK, Ensuring, Waits, None

\* A new runtime enters the table; the slot it takes was nobody's.
LEMMA LoadDoneRuns ==
    ASSUME RunsOK, LoadDone
    PROVE  RunsOK'
  <1>1. made + 1 \in Entries /\ at = "load" /\ chain # <<>>
    BY Holding, ConstantsAssumption DEF RunsOK, TypeOK, LoadDone, Entries
  <1>2. PICK config \in Configs : Edit(made + 1, NewEntry(config))
    BY DEF RunsOK, TypeOK, LoadDone, Configs
  <1> DEFINE q == NewEntry(config)
  <1>3. q \in EntryType /\ q.status = "idle" /\ q.phase = "none" /\ q.drives = 0
    BY DEF NewEntry, EntryType
  <1>4. /\ entry' \in [Entries -> EntryType] /\ entry'[made + 1] = q
        /\ \A x \in Entries : x # made + 1 => entry'[x] = entry[x]
    BY <1>1, <1>2, <1>3, Edited DEF RunsOK, TypeOK
  <1> HIDE DEF q
  <1>5. TypeOK'
    BY <1>1, <1>4, ConstantsAssumption
    DEF RunsOK, TypeOK, LoadDone, lifeVars, Entries, Points, Configs, None
  <1>6. LockOK' /\ HookOK'
    BY <1>1 DEF RunsOK, TypeOK, LockOK, HookOK, LoadDone
  <1>7. ASSUME NEW x \in Entries PROVE PhaseOK(x)'
    BY <1>1, <1>3, <1>4 DEF RunsOK, PhaseOK, LoadDone, Idle
  <1> QED
    BY <1>5, <1>6, <1>7 DEF RunsOK

\* A stale runtime goes, and its place is loaded anew or the Session is not found.
LEMMA DiscardRuns ==
    ASSUME RunsOK, DiscardStaleEntry
    PROVE  RunsOK'
  <1>1. at = "refresh" /\ chain # <<>>
    BY Holding DEF DiscardStaleEntry
  <1>2. CASE StartLoad
    BY <1>1, <1>2, GoToRuns DEF StartLoad, Points, None, RunsOK, TypeOK
  <1>3. CASE ~StartLoad
    <2>1. fate' \in [Tasks -> Fates]
      BY <1>3, Recorded DEF RunsOK, DiscardStaleEntry, Fates
    <2>2. TypeOK'
      BY <1>1, <1>3, <2>1, Unlocked DEF RunsOK, TypeOK, DiscardStaleEntry, lifeVars, None
    <2>3. LockOK' /\ HookOK'
      BY <1>3 DEF RunsOK, TypeOK, LockOK, HookOK, DiscardStaleEntry, Unlock, None
    <2>4. ASSUME NEW x \in Entries PROVE PhaseOK(x)'
      BY <1>1, <1>3 DEF RunsOK, PhaseOK, DiscardStaleEntry, Unlock, Idle
    <2> QED
      BY <2>2, <2>3, <2>4 DEF RunsOK
  <1> QED
    BY <1>2, <1>3

\* The operation edits its entry beside the run, and is done.
LEMMA EditAndLeaveRuns ==
    ASSUME RunsOK, chain # <<>>, at # "head",
           NEW e \in Entries, NEW q \in EntryType, Edit(e, q), SameRun(entry[e], q),
           Unlock, UNCHANGED <<made, table, lifeVars, launched>>,
           fate' \in [Tasks -> Fates]
    PROVE  RunsOK'
  <1>1. /\ entry' \in [Entries -> EntryType] /\ entry'[e] = q
        /\ \A x \in Entries : x # e => entry'[x] = entry[x]
    BY Edited DEF RunsOK, TypeOK
  <1>2. TypeOK'
    BY <1>1, Unlocked DEF RunsOK, TypeOK, lifeVars, None
  <1>3. LockOK' /\ HookOK'
    BY DEF RunsOK, LockOK, HookOK, Unlock
  <1>4. ASSUME NEW x \in Entries PROVE PhaseOK(x)'
    BY <1>1 DEF RunsOK, PhaseOK, SameRun, Unlock, Idle
  <1> QED
    BY <1>2, <1>3, <1>4 DEF RunsOK

\* A follow-up joins the queue of the entry in hand; its run stays as it is.
LEMMA QueueRuns ==
    ASSUME RunsOK, QueueFollowUp
    PROVE  RunsOK'
  <1>1. at = "ready" /\ held \in Entries /\ chain # <<>> /\ entry[held] \in EntryType
    BY Holding DEF QueueFollowUp, ReadyFor
  <1>2. HeadOp \in Operations /\ HeadOp.kind = "queue"
    BY <1>1 DEF RunsOK, TypeOK, QueueFollowUp, ReadyFor, HeadOp
  <1>3. HeadOp.task \in Tasks
    BY <1>2 DEF Operations, TaskKinds, CallerKinds
  <1> DEFINE q == [entry[held] EXCEPT !.followUps = Append(@, HeadOp.task), !.aged = FALSE]
  <1>4. Append(entry[held].followUps, HeadOp.task) \in Seq(Tasks)
    BY <1>1, <1>3 DEF EntryType
  <1>6. q \in EntryType
    BY <1>1, <1>4 DEF EntryType
  <1>7. SameRun(entry[held], q)
    BY <1>1 DEF EntryType, SameRun
  <1>5. fate' \in [Tasks -> Fates]
    BY Recorded DEF RunsOK, QueueFollowUp, Fates
  <1> QED
    BY <1>1, <1>5, <1>6, <1>7, EditAndLeaveRuns DEF QueueFollowUp

\* A compaction is launched on an idle entry.
LEMMA CompactRuns ==
    ASSUME RunsOK, StartCompact
    PROVE  RunsOK'
  <1>1. at = "ready" /\ held \in Entries /\ chain # <<>> /\ entry[held] \in EntryType
    BY Holding DEF StartCompact, ReadyFor
  <1>2. entry[held].phase = "none" /\ entry[held].drives = 0
    BY <1>1 DEF RunsOK, PhaseOK, StartCompact
  <1> DEFINE q == Launched(entry[held], "compacting", "tail")
  <1>3. q \in EntryType /\ q.status = "compacting" /\ q.phase = "tail" /\ q.drives = 1
    BY <1>1, <1>2, LaunchedEntry
  <1>4. /\ entry' \in [Entries -> EntryType] /\ entry'[held] = q
        /\ \A x \in Entries : x # held => entry'[x] = entry[x]
    BY <1>1, <1>3, Edited DEF RunsOK, TypeOK, StartCompact
  <1> HIDE DEF q
  <1>5. TypeOK'
    BY <1>1, <1>4, Unlocked DEF RunsOK, TypeOK, StartCompact, lifeVars, None
  <1>6. LockOK' /\ HookOK'
    BY DEF RunsOK, LockOK, HookOK, StartCompact, Unlock
  <1>7. ASSUME NEW x \in Entries PROVE PhaseOK(x)'
    BY <1>1, <1>3, <1>4 DEF RunsOK, PhaseOK, StartCompact, Unlock, Idle
  <1> QED
    BY <1>5, <1>6, <1>7 DEF RunsOK

\* The pull of a switch begins on an idle entry.
LEMMA PullRuns ==
    ASSUME RunsOK, PullSwitchHead
    PROVE  RunsOK'
  <1>1. at = "ready" /\ held \in Entries /\ chain # <<>> /\ entry[held] \in EntryType
    BY Holding DEF PullSwitchHead, ReadyFor
  <1>2. entry[held].phase = "none" /\ entry[held].drives = 0 /\ Idle(held)
    BY <1>1 DEF RunsOK, PhaseOK, PullSwitchHead
  <1> DEFINE q == [entry[held] EXCEPT !.phase = "head", !.drives = @ + 1, !.abort = "armed"]
  <1>3. q \in EntryType /\ q.status = "idle" /\ q.phase = "head" /\ q.drives = 1
    <2>1. entry[held].drives + 1 = 1 /\ entry[held].drives + 1 \in Nat
      BY <1>2
    <2>2. q \in EntryType
      BY <1>1, <2>1 DEF EntryType
    <2>3. q.status = "idle" /\ q.phase = "head" /\ q.drives = 1
      BY <1>1, <1>2, <2>1 DEF EntryType, Idle
    <2> QED
      BY <2>2, <2>3
  <1>4. /\ entry' \in [Entries -> EntryType] /\ entry'[held] = q
        /\ \A x \in Entries : x # held => entry'[x] = entry[x]
    BY <1>1, <1>3, Edited DEF RunsOK, TypeOK, PullSwitchHead
  <1> HIDE DEF q
  <1>5. TypeOK'
    BY <1>1, <1>4 DEF RunsOK, TypeOK, PullSwitchHead, lifeVars, Points
  <1>6. LockOK' /\ HookOK'
    BY <1>1 DEF RunsOK, LockOK, HookOK, PullSwitchHead
  <1>7. ASSUME NEW x \in Entries PROVE PhaseOK(x)'
    BY <1>1, <1>3, <1>4 DEF RunsOK, PhaseOK, PullSwitchHead, Idle
  <1> QED
    BY <1>5, <1>6, <1>7 DEF RunsOK

\* The pull ends, with or without a stream behind it.
LEMMA SwitchRuns ==
    ASSUME RunsOK, SwitchSettles \/ SwitchStreams
    PROVE  RunsOK'
  <1>1. at = "head" /\ held \in Entries /\ chain # <<>> /\ entry[held] \in EntryType
    BY Holding DEF SwitchSettles, SwitchStreams
  <1>2. entry[held].phase = "head" /\ entry[held].drives = 1 /\ entry[held].status = "idle"
    BY <1>1 DEF RunsOK, PhaseOK, Idle
  <1>3. PICK q \in EntryType :
           /\ Edit(held, q)
           /\ \/ q.status = "idle" /\ q.phase = "none" /\ q.drives = 0
              \/ q.status = "compacting" /\ q.phase = "tail" /\ q.drives = 1
    <2>1. CASE SwitchSettles
      <3>1. PICK quiet \in BOOLEAN :
               Edit(held, Disposed([entry[held] EXCEPT !.phase = "none", !.drives = @ - 1,
                                      !.abort = "null", !.aged = @ /\ quiet]))
        BY <2>1 DEF SwitchSettles
      <3> DEFINE a == entry[held].aged /\ quiet
                 r == [entry[held] EXCEPT !.phase = "none", !.drives = @ - 1,
                         !.abort = "null", !.aged = a]
      <3>2. a \in BOOLEAN
        BY <1>1 DEF EntryType
      <3> HIDE DEF a
      <3>3. r \in EntryType /\ r.status = "idle" /\ r.phase = "none" /\ r.drives = 0
        <4>1. entry[held].drives - 1 = 0 /\ entry[held].drives - 1 \in Nat
          BY <1>2
        <4>2. r \in EntryType
          BY <1>1, <3>2, <4>1 DEF EntryType
        <4>3. r.status = "idle" /\ r.phase = "none" /\ r.drives = 0
          BY <1>1, <1>2, <4>1 DEF EntryType
        <4> QED
          BY <4>2, <4>3
      <3> QED
        BY <3>1, <3>3, DisposedEntry, ZenonT(60) DEF a
    <2>2. CASE SwitchStreams
      <3> DEFINE r == [entry[held] EXCEPT !.status = "compacting", !.phase = "tail",
                                          !.aged = FALSE]
      <3>1. r \in EntryType /\ r.status = "compacting" /\ r.phase = "tail" /\ r.drives = 1
        BY <1>1, <1>2 DEF EntryType
      <3> QED
        BY <2>2, <3>1 DEF SwitchStreams
    <2> QED
      BY <2>1, <2>2
  <1>4. Unlock /\ UNCHANGED <<made, table, lifeVars, fate, launched>>
    BY DEF SwitchSettles, SwitchStreams
  <1>5. /\ entry' \in [Entries -> EntryType] /\ entry'[held] = q
        /\ \A x \in Entries : x # held => entry'[x] = entry[x]
    BY <1>1, <1>3, Edited DEF RunsOK, TypeOK
  <1>6. TypeOK'
    BY <1>1, <1>4, <1>5, Unlocked DEF RunsOK, TypeOK, lifeVars, None
  <1>7. LockOK' /\ HookOK'
    BY <1>4 DEF RunsOK, LockOK, HookOK, Unlock
  <1>8. ASSUME NEW x \in Entries PROVE PhaseOK(x)'
    BY <1>1, <1>3, <1>4, <1>5 DEF RunsOK, PhaseOK, Unlock, Idle
  <1> QED
    BY <1>6, <1>7, <1>8 DEF RunsOK

\* Whatever the holder of the lock does keeps the invariant.
LEMMA LockRuns ==
    ASSUME RunsOK, LockStep
    PROVE  RunsOK'
  <1> USE Holding
  <1>1. CASE RefuseAtGate
    BY <1>1, LeaveRuns DEF RefuseAtGate, Waits
  <1>2. CASE CheckGoalPlugin
    BY <1>2, GoToRuns DEF CheckGoalPlugin, Waits, Points, None, RunsOK, TypeOK
  <1>3. CASE GoalPluginMissing
    BY <1>3, LeaveRuns DEF GoalPluginMissing
  <1>4. CASE HitEntry
    BY <1>4, GoToRuns DEF HitEntry, Points, None, RunsOK, TypeOK
  <1>5. CASE MissEntry
    BY <1>5, GoToRuns DEF MissEntry, StartLoad, Points, None, RunsOK, TypeOK
  <1>6. CASE SessionNotFound
    BY <1>6, LeaveRuns DEF SessionNotFound
  <1>7. CASE KeepEntry
    BY <1>7, GoToRuns DEF KeepEntry, Points, RunsOK, TypeOK
  <1>8. CASE DiscardStaleEntry
    BY <1>8, DiscardRuns
  <1>9. CASE RefreshFails
    BY <1>9, LeaveRuns DEF RefreshFails
  <1>10. CASE LoadDone
    BY <1>10, LoadDoneRuns
  <1>11. CASE LoadFails
    BY <1>11, LeaveRuns DEF LoadFails
  <1>12. CASE StartTask
    BY <1>12, LaunchRuns DEF StartTask, ReadyFor
  <1>13. CASE QueueFollowUp
    BY <1>13, QueueRuns
  <1>14. CASE RefuseReady
    BY <1>14, LeaveRuns DEF RefuseReady
  <1>15. CASE PreloadDone
    BY <1>15, LeaveRuns DEF PreloadDone, ReadyFor
  <1>16. CASE AskGoalHook
    BY <1>16, GoToRuns DEF AskGoalHook, ReadyFor, Points, RunsOK, TypeOK
  <1>17. CASE GoalHookRefuses
    BY <1>17, LeaveRuns DEF GoalHookRefuses
  <1>18. CASE StartGoal
    BY <1>18, LaunchRuns DEF StartGoal, RunsOK, HookOK
  <1>19. CASE StartCompact
    BY <1>19, CompactRuns
  <1>20. CASE PullSwitchHead
    BY <1>20, PullRuns
  <1>21. CASE SwitchSettles
    BY <1>21, SwitchRuns
  <1>22. CASE SwitchStreams
    BY <1>22, SwitchRuns
  <1>23. CASE StartSnapshot
    <2>1. CASE Leave
      BY <1>23, <2>1, LeaveRuns DEF StartSnapshot, Waits
    <2>2. CASE ~Leave
      BY <1>23, <2>2, GoToRuns DEF StartSnapshot, Waits, Points, None, RunsOK, TypeOK
    <2> QED
      BY <2>1, <2>2
  <1>24. CASE EndSnapshot
    BY <1>24, LeaveRuns DEF EndSnapshot
  <1>25. CASE StartQueuedFollowUp
    <2>1. CASE Leave
      BY <1>25, <2>1, LeaveRuns DEF StartQueuedFollowUp, Waits
    <2>2. CASE ~Leave
      <3> DEFINE r == [entry[table] EXCEPT !.followUps = Tail(@)]
      <3>1. /\ chain # <<>> /\ at = "idle" /\ table \in 1..made /\ table \in Entries
            /\ Idle(table) /\ entry[table].followUps # <<>>
            /\ Launch(table, r, Head(entry[table].followUps))
        BY <1>25, <2>2 DEF StartQueuedFollowUp, Waits
      <3>2. entry[table] \in EntryType
        BY <3>1
      <3>3. Tail(entry[table].followUps) \in Seq(Tasks)
        BY <3>1, <3>2 DEF EntryType
      <3>4. r \in EntryType /\ r.drives = entry[table].drives
        BY <3>2, <3>3 DEF EntryType
      <3> QED
        BY <3>1, <3>4, LaunchRuns
    <2> QED
      BY <2>1, <2>2
  <1>26. CASE StartBackgroundNoticeTask
    <2>1. CASE Leave
      BY <1>26, <2>1, LeaveRuns DEF StartBackgroundNoticeTask, Waits
    <2>2. CASE ~Leave
      <3> DEFINE r == [entry[table] EXCEPT !.notices = {}]
      <3>1. /\ chain # <<>> /\ at = "idle" /\ table \in 1..made /\ table \in Entries
            /\ Idle(table) /\ Launch(table, r, NoTask)
        BY <1>26, <2>2 DEF StartBackgroundNoticeTask, Waits
      <3>2. entry[table] \in EntryType
        BY <3>1
      <3>3. r \in EntryType /\ r.drives = entry[table].drives
        BY <3>2 DEF EntryType
      <3> QED
        BY <3>1, <3>3, LaunchRuns
    <2> QED
      BY <2>1, <2>2
  <1> QED
    BY <1>1, <1>2, <1>3, <1>4, <1>5, <1>6, <1>7, <1>8, <1>9, <1>10, <1>11, <1>12, <1>13,
       <1>14, <1>15, <1>16, <1>17, <1>18, <1>19, <1>20, <1>21, <1>22, <1>23, <1>24, <1>25,
       <1>26 DEF LockStep

-----------------------------------------------------------------------------
(* The run, the person and the outside *)

\* Outside the lock an edit that leaves the run alone, and nothing else, is harmless.
LEMMA PlainEdit ==
    ASSUME RunsOK, NEW e \in Entries, NEW q \in EntryType, Edit(e, q), SameRun(entry[e], q),
           UNCHANGED <<made, table, at, held, load, lifeVars, fate>>,
           chain' = chain, launched' \subseteq Notices
    PROVE  RunsOK'
  <1>1. /\ table' \in {table, None} /\ chain' \in Seq(Operations)
        /\ <<row, marked, closed>>' \in BOOLEAN \X BOOLEAN \X BOOLEAN
        /\ deletion' \in {"none", "settling", "removing"} /\ awaited' \subseteq Entries
        /\ fate' \in [Tasks -> Fates]
    BY DEF RunsOK, TypeOK, lifeVars
  <1> QED
    BY <1>1, EditRuns

\* A step of a run that stays a run.
LEMMA RunGoesOn ==
    ASSUME RunsOK, NEW e \in Entries, NEW q \in EntryType, Edit(e, q),
           entry[e].phase \in {"boot", "loop", "tail"}, q.phase \in {"boot", "loop", "tail"},
           q.status = entry[e].status, q.drives = entry[e].drives,
           UNCHANGED <<made, table, lockVars, lifeVars, fate, launched>>
    PROVE  RunsOK'
  <1>1. /\ entry' \in [Entries -> EntryType] /\ entry'[e] = q
        /\ \A x \in Entries : x # e => entry'[x] = entry[x]
    BY Edited DEF RunsOK, TypeOK
  <1>2. TypeOK'
    BY <1>1 DEF RunsOK, TypeOK, lockVars, lifeVars
  <1>3. LockOK'
    BY DEF RunsOK, LockOK, lockVars
  <1>4. HookOK'
    <2>1. at = "hook" => held \in Entries
      BY Holding
    <2> QED
      BY <1>1, <2>1 DEF RunsOK, HookOK, Idle, lockVars
  <1>5. ASSUME NEW x \in Entries PROVE PhaseOK(x)'
    BY <1>1 DEF RunsOK, PhaseOK, Idle, lockVars
  <1> QED
    BY <1>2, <1>3, <1>4, <1>5 DEF RunsOK

\* The end of a run: the entry is idle, and its successor is scheduled.
LEMMA DriveEndsRuns ==
    ASSUME RunsOK, NEW e \in Entries, DriveEnds(e)
    PROVE  RunsOK'
  <1>1. /\ entry[e] \in EntryType /\ entry[e].phase = "tail" /\ entry[e].drives = 1
        /\ ~(at = "head" /\ held = e)
    BY DEF RunsOK, TypeOK, PhaseOK, DriveEnds
  <1> DEFINE r == [entry[e] EXCEPT !.status = "idle", !.phase = "none",
                                   !.drives = @ - 1, !.abort = "null", !.aged = FALSE]
  <1>2. entry[e].drives - 1 = 0 /\ entry[e].drives - 1 \in Nat
    BY <1>1
  <1>3. r \in EntryType
    BY <1>1, <1>2 DEF EntryType
  <1>4. r.status = "idle" /\ r.phase = "none" /\ r.drives = 0
    BY <1>1, <1>2 DEF EntryType
  <1> DEFINE q == Disposed(r)
  <1>5. q \in EntryType /\ q.status = "idle" /\ q.phase = "none" /\ q.drives = 0
    BY <1>3, <1>4, DisposedEntry
  <1>6. Edit(e, q)
    BY DEF DriveEnds
  <1> HIDE DEF r, q
  <1>7. /\ entry' \in [Entries -> EntryType] /\ entry'[e] = q
        /\ \A x \in Entries : x # e => entry'[x] = entry[x]
    BY <1>5, <1>6, Edited DEF RunsOK, TypeOK
  <1>8. chain' \in Seq(Operations) /\ chain' # <<>>
    <2>1. PICK op \in Operations : Behind(entry[e]) = <<op>>
      BY DEF Behind, StartFollowUp, StartNotice, Op, Operations
    <2> QED
      BY <2>1 DEF RunsOK, TypeOK, DriveEnds
  <1>9. TypeOK'
    BY <1>7, <1>8 DEF RunsOK, TypeOK, DriveEnds, lifeVars
  <1>10. LockOK'
    BY <1>8 DEF RunsOK, LockOK, DriveEnds
  <1>11. HookOK'
    <2>1. at = "hook" => held \in Entries
      BY Holding
    <2> QED
      BY <1>5, <1>7, <2>1 DEF RunsOK, HookOK, Idle, DriveEnds
  <1>12. ASSUME NEW x \in Entries PROVE PhaseOK(x)'
    BY <1>1, <1>5, <1>7 DEF RunsOK, PhaseOK, Idle, DriveEnds
  <1> QED
    BY <1>9, <1>10, <1>11, <1>12 DEF RunsOK

\* A background task ends: its notice waits, and is signalled to an idle Session.
LEMMA BackgroundDoneRuns ==
    ASSUME RunsOK, NEW e \in Entries, NEW n \in Notices, BackgroundDone(e, n)
    PROVE  RunsOK'
  <1> DEFINE q == [entry[e] EXCEPT !.work = @ \ {n}, !.notices = @ \cup {n}]
  <1>1. q \in EntryType /\ SameRun(entry[e], q)
    BY DEF RunsOK, TypeOK, EntryType, SameRun
  <1>2. chain' \in Seq(Operations) /\ (chain # <<>> => chain' # <<>>)
    <2>1. StartNotice \in Operations
      BY DEF StartNotice, Op, Operations
    <2> QED
      BY <2>1 DEF RunsOK, TypeOK, BackgroundDone
  <1>3. /\ table' \in {table, None} /\ UNCHANGED <<made, at, held, load>>
        /\ <<row, marked, closed>>' \in BOOLEAN \X BOOLEAN \X BOOLEAN
        /\ deletion' \in {"none", "settling", "removing"} /\ awaited' \subseteq Entries
        /\ fate' \in [Tasks -> Fates] /\ launched' \subseteq Notices
    BY DEF RunsOK, TypeOK, BackgroundDone, lifeVars
  <1>4. Edit(e, q)
    BY DEF BackgroundDone
  <1> HIDE DEF q
  <1> QED
    BY <1>1, <1>2, <1>3, <1>4, EditRuns

\* Whatever a run does keeps the invariant.
LEMMA RunRuns ==
    ASSUME RunsOK, NEW e \in 1..made, RunStep(e)
    PROVE  RunsOK'
  <1>0. e \in Entries /\ entry[e] \in EntryType
    BY MadeEntry DEF RunsOK, TypeOK
  <1>1. CASE EngineStarts(e)
    <2> DEFINE q == [entry[e] EXCEPT !.phase = "loop", !.notices = {}]
    <2>1. /\ q \in EntryType /\ q.phase = "loop"
          /\ q.status = entry[e].status /\ q.drives = entry[e].drives
      BY <1>0 DEF EntryType
    <2> QED
      BY <1>0, <1>1, <2>1, RunGoesOn DEF EngineStarts
  <1>2. CASE EngineDelivers(e)
    <2> DEFINE q == [entry[e] EXCEPT !.notices = {}]
    <2>1. q \in EntryType /\ SameRun(entry[e], q)
      BY <1>0 DEF EntryType, SameRun
    <2> QED
      BY <1>0, <1>2, <2>1, PlainEdit DEF EngineDelivers, lockVars, RunsOK, TypeOK
  <1>3. CASE EngineExits(e)
    <2> DEFINE q == [entry[e] EXCEPT !.phase = "tail"]
    <2>1. /\ q \in EntryType /\ q.phase = "tail"
          /\ q.status = entry[e].status /\ q.drives = entry[e].drives
      BY <1>0 DEF EntryType
    <2> QED
      BY <1>0, <1>3, <2>1, RunGoesOn DEF EngineExits
  <1>4. CASE DriveEnds(e)
    BY <1>0, <1>4, DriveEndsRuns
  <1>5. ASSUME NEW n \in Notices, StartBackground(e, n) PROVE RunsOK'
    <2> DEFINE q == [entry[e] EXCEPT !.work = @ \cup {n}]
    <2>1. q \in EntryType /\ SameRun(entry[e], q)
      BY <1>0 DEF EntryType, SameRun
    <2> QED
      BY <1>0, <1>5, <2>1, PlainEdit DEF StartBackground, lockVars, RunsOK, TypeOK
  <1>6. ASSUME NEW n \in Notices, BackgroundDone(e, n) PROVE RunsOK'
    BY <1>0, <1>6, BackgroundDoneRuns
  <1>7. CASE AskApproval(e)
    <2> DEFINE q == [entry[e] EXCEPT !.asking = TRUE]
    <2>1. q \in EntryType /\ SameRun(entry[e], q)
      BY <1>0 DEF EntryType, SameRun
    <2> QED
      BY <1>0, <1>7, <2>1, PlainEdit DEF AskApproval, lockVars, RunsOK, TypeOK
  <1> QED
    BY <1>1, <1>2, <1>3, <1>4, <1>5, <1>6, <1>7 DEF RunStep

\* Deletion and shutdown: the entry is converged and leaves the table.
LEMMA TakeOffRuns ==
    ASSUME RunsOK, TakeOffTable, UNCHANGED <<made, lockVars, launched>>,
           <<row, marked, closed>>' \in BOOLEAN \X BOOLEAN \X BOOLEAN,
           deletion' \in {"none", "settling", "removing"}, awaited' \subseteq Entries
    PROVE  RunsOK'
  <1>1. CASE table = None
    <2>1. TypeOK'
      BY <1>1 DEF RunsOK, TypeOK, TakeOffTable, lockVars
    <2>2. LockOK' /\ HookOK'
      BY <1>1 DEF RunsOK, LockOK, HookOK, TakeOffTable, lockVars, Idle
    <2>3. ASSUME NEW x \in Entries PROVE PhaseOK(x)'
      BY <1>1 DEF RunsOK, PhaseOK, TakeOffTable, lockVars, Idle
    <2> QED
      BY <2>1, <2>2, <2>3 DEF RunsOK
  <1>2. CASE table # None
    <2> DEFINE q == Converged(entry[table])
    <2>1. table \in Entries /\ entry[table] \in EntryType
      BY <1>2, Holding
    <2>2. q \in EntryType /\ SameRun(entry[table], q)
      BY <2>1, ConvergedEntry DEF SameRun
    <2>3. Edit(table, q) /\ table' = None
      BY <1>2 DEF TakeOffTable
    <2> HIDE DEF q
    <2>4. /\ UNCHANGED <<made, at, held, load>> /\ chain' = chain
          /\ chain' \in Seq(Operations) /\ launched' \subseteq Notices
      BY DEF RunsOK, TypeOK, lockVars
    <2>5. fate' \in [Tasks -> Fates]
      BY <1>2 DEF RunsOK, TypeOK, TakeOffTable, Fates
    <2> QED
      BY <2>1, <2>2, <2>3, <2>4, <2>5, EditRuns
  <1> QED
    BY <1>1, <1>2

\* Steps that leave the entries and the lock's holder alone.
LEMMA AsideRuns ==
    ASSUME RunsOK, UNCHANGED <<entry, made, at, held, load>>, table' \in {table, None},
           chain' \in Seq(Operations), chain # <<>> => chain' # <<>>,
           <<row, marked, closed>>' \in BOOLEAN \X BOOLEAN \X BOOLEAN,
           deletion' \in {"none", "settling", "removing"}, awaited' \subseteq Entries,
           fate' \in [Tasks -> Fates], launched' \subseteq Notices
    PROVE  RunsOK'
  <1>1. TypeOK'
    BY DEF RunsOK, TypeOK, None
  <1>2. LockOK' /\ HookOK'
    BY DEF RunsOK, TypeOK, LockOK, HookOK, Idle, None
  <1>3. ASSUME NEW x \in Entries PROVE PhaseOK(x)'
    BY DEF RunsOK, PhaseOK, Idle
  <1> QED
    BY <1>1, <1>2, <1>3 DEF RunsOK

\* Whatever a caller does keeps the invariant.
LEMMA PersonRuns ==
    ASSUME RunsOK, PersonStep
    PROVE  RunsOK'
  <1>1. ASSUME NEW k \in Kinds, NEW t \in Tasks \cup {NoTask}, Submit(k, t) PROVE RunsOK'
    <2>1. Op(k, t) \in Operations
      BY <1>1, ConstantsAssumption DEF Submit, Op, Operations, TaskKinds, CallerKinds
    <2>2. chain' \in Seq(Operations) /\ chain' # <<>>
      BY <1>1, <2>1 DEF RunsOK, TypeOK, Submit
    <2>3. fate' \in [Tasks -> Fates]
      BY <1>1, Recorded DEF RunsOK, Submit, Fates
    <2>4. /\ UNCHANGED <<entry, made, at, held, load>> /\ table' \in {table, None}
          /\ <<row, marked, closed>>' \in BOOLEAN \X BOOLEAN \X BOOLEAN
          /\ deletion' \in {"none", "settling", "removing"} /\ awaited' \subseteq Entries
          /\ launched' \subseteq Notices
      BY <1>1 DEF RunsOK, TypeOK, Submit, lifeVars
    <2> QED
      BY <2>2, <2>3, <2>4, AsideRuns
  <1>2. CASE DecideApproval
    <2> DEFINE q == [entry[table] EXCEPT !.asking = FALSE]
    <2>1. table \in Entries /\ entry[table] \in EntryType
      BY <1>2, Holding DEF DecideApproval
    <2>2. q \in EntryType /\ SameRun(entry[table], q)
      BY <2>1 DEF EntryType, SameRun
    <2> QED
      BY <1>2, <2>1, <2>2, PlainEdit DEF DecideApproval, lockVars, RunsOK, TypeOK
  <1>3. CASE AbortTask
    <2> DEFINE q == [entry[table] EXCEPT !.abort = "fired"]
    <2>1. table \in Entries /\ entry[table] \in EntryType
      BY <1>3, Holding DEF AbortTask
    <2>2. q \in EntryType /\ SameRun(entry[table], q)
      BY <2>1 DEF EntryType, SameRun
    <2> QED
      BY <1>3, <2>1, <2>2, PlainEdit DEF AbortTask, lockVars, RunsOK, TypeOK
  <1>4. ASSUME NEW i \in 1..Cardinality(Tasks), RecallFollowUp(i) PROVE RunsOK'
    <2>1. table \in Entries /\ entry[table] \in EntryType
      BY <1>4, Holding DEF RecallFollowUp
    <2>2. RemoveAt(entry[table].followUps, i) \in Seq(Tasks)
      BY <1>4, <2>1, RemovedSeq DEF RecallFollowUp, EntryType
    <2> DEFINE q == [entry[table] EXCEPT !.followUps = RemoveAt(@, i), !.aged = FALSE]
    <2>3. q \in EntryType /\ SameRun(entry[table], q)
      BY <2>1, <2>2 DEF EntryType, SameRun
    <2>4. fate' \in [Tasks -> Fates]
      BY <1>4, Recorded DEF RunsOK, RecallFollowUp, Fates
    <2>5. Edit(table, q)
      BY <1>4 DEF RecallFollowUp
    <2>6. /\ UNCHANGED <<made, at, held, load>> /\ table' \in {table, None}
          /\ chain' = chain /\ chain' \in Seq(Operations)
          /\ <<row, marked, closed>>' \in BOOLEAN \X BOOLEAN \X BOOLEAN
          /\ deletion' \in {"none", "settling", "removing"} /\ awaited' \subseteq Entries
          /\ launched' \subseteq Notices
      BY <1>4 DEF RunsOK, TypeOK, RecallFollowUp, lockVars, lifeVars
    <2> HIDE DEF q
    <2> QED
      BY <2>1, <2>3, <2>4, <2>5, <2>6, EditRuns
  <1> QED
    BY <1>1, <1>2, <1>3, <1>4 DEF PersonStep

\* Whatever happens outside keeps the invariant.
LEMMA OutsideRuns ==
    ASSUME RunsOK, OutsideStep
    PROVE  RunsOK'
  <1>1. ASSUME NEW other \in BOOLEAN, CredentialsChange(other) PROVE RunsOK'
    <2>1. /\ entry' \in [Entries -> EntryType]
          /\ \A x \in Entries : SameRun(entry[x], entry'[x])
      <3>1. ASSUME NEW x \in Entries
            PROVE  entry'[x] \in EntryType /\ SameRun(entry[x], entry'[x])
        <4> DEFINE c == IF (table # None \/ other) \/ entry[x].config = "stale"
                        THEN "stale" ELSE "outdated"
        <4>1. entry[x] \in EntryType /\ c \in Configs
          BY DEF RunsOK, TypeOK, Configs
        <4>2. entry'[x] = IF x <= made THEN [entry[x] EXCEPT !.config = c] ELSE entry[x]
          BY <1>1 DEF CredentialsChange
        <4> HIDE DEF c
        <4> QED
          BY <4>1, <4>2 DEF EntryType, SameRun
      <3>2. entry' = [x \in Entries |-> entry'[x]]
        BY <1>1 DEF CredentialsChange
      <3> QED
        BY <3>1, <3>2
    <2>2. load' \in Configs
      BY <1>1 DEF CredentialsChange, RunsOK, TypeOK, Configs
    <2>3. UNCHANGED <<made, table, chain, at, held, lifeVars, fate, launched>>
      BY <1>1 DEF CredentialsChange
    <2>4. TypeOK'
      BY <2>1, <2>2, <2>3 DEF RunsOK, TypeOK, lifeVars
    <2>5. LockOK' /\ HookOK'
      BY <2>1, <2>3, Holding DEF RunsOK, LockOK, HookOK, Idle, SameRun
    <2>6. ASSUME NEW x \in Entries PROVE PhaseOK(x)'
      BY <2>1, <2>3 DEF RunsOK, PhaseOK, Idle, SameRun
    <2> QED
      BY <2>4, <2>5, <2>6 DEF RunsOK
  <1>2. CASE GrowsOld
    <2> DEFINE q == [entry[table] EXCEPT !.aged = TRUE]
    <2>1. table \in Entries /\ entry[table] \in EntryType
      BY <1>2, Holding DEF GrowsOld
    <2>2. q \in EntryType /\ SameRun(entry[table], q)
      BY <2>1 DEF EntryType, SameRun
    <2> QED
      BY <1>2, <2>1, <2>2, PlainEdit DEF GrowsOld, lockVars, RunsOK, TypeOK
  <1>3. CASE SweepIdle
    BY <1>3, AsideRuns DEF SweepIdle, lockVars, lifeVars, RunsOK, TypeOK
  <1>4. CASE BeginSessionDeletion
    <2>1. awaited' \subseteq Entries /\ deletion' = "settling" /\ marked' = TRUE
      BY <1>4 DEF BeginSessionDeletion
    <2> QED
      BY <1>4, <2>1, TakeOffRuns DEF BeginSessionDeletion, RunsOK, TypeOK
  <1>5. CASE DeletionSettles
    BY <1>5, AsideRuns DEF DeletionSettles, lockVars, RunsOK, TypeOK
  <1>6. CASE EndSessionDeletion
    <2>1. row' \in BOOLEAN
      BY <1>6 DEF EndSessionDeletion
    <2> QED
      BY <1>6, <2>1, AsideRuns DEF EndSessionDeletion, lockVars, RunsOK, TypeOK
  <1>7. CASE Shutdown
    BY <1>7, TakeOffRuns DEF Shutdown, RunsOK, TypeOK
  <1> QED
    BY <1>1, <1>2, <1>3, <1>4, <1>5, <1>6, <1>7 DEF OutsideStep

-----------------------------------------------------------------------------
(* The theorems *)

\* The initial states satisfy the invariant.
LEMMA RunsInit == Init => RunsOK
  <1> SUFFICES ASSUME Init PROVE RunsOK
    OBVIOUS
  <1>1. NewEntry("current") \in EntryType
    BY DEF NewEntry, EntryType, Configs
  <1>2. TypeOK
    <2>1. entry \in [Entries -> EntryType]
      BY <1>1 DEF Init
    <2>2. made \in 0..MaxEntries /\ table \in Entries \cup {None}
      BY ConstantsAssumption DEF Init, Entries, None
    <2>3. chain \in Seq(Operations) /\ fate \in [Tasks -> Fates]
      BY DEF Init, Fates
    <2> QED
      BY <2>1, <2>2, <2>3 DEF Init, TypeOK, Configs, Points
  <1>3. LockOK /\ HookOK
    BY DEF Init, LockOK, HookOK
  <1>4. ASSUME NEW e \in Entries PROVE PhaseOK(e)
    BY DEF Init, PhaseOK, NewEntry, Idle
  <1> QED
    BY <1>2, <1>3, <1>4 DEF RunsOK

\* Every step keeps it.
LEMMA RunsNext == RunsOK /\ [Next]_vars => RunsOK'
  <1> SUFFICES ASSUME RunsOK, [Next]_vars PROVE RunsOK'
    OBVIOUS
  <1>1. CASE LockStep
    BY <1>1, LockRuns
  <1>2. ASSUME NEW e \in 1..made, RunStep(e) PROVE RunsOK'
    BY <1>2, RunRuns
  <1>3. CASE PersonStep
    BY <1>3, PersonRuns
  <1>4. CASE OutsideStep
    BY <1>4, OutsideRuns
  <1>5. CASE UNCHANGED vars
    BY <1>5, AsideRuns DEF vars, RunsOK, TypeOK
  <1> QED
    BY <1>1, <1>2, <1>3, <1>4, <1>5 DEF Next

\* The inductive invariant holds in every reachable state.
LEMMA RunsAlways == Spec => []RunsOK
  <1>1. Init => RunsOK
    BY RunsInit
  <1>2. RunsOK /\ [Next]_vars => RunsOK'
    BY RunsNext
  <1> QED
    BY <1>1, <1>2, PTL DEF Spec

\* Type correctness, for every instance.
THEOREM TypeCorrect == Spec => []TypeOK
  <1>1. RunsOK => TypeOK
    BY DEF RunsOK
  <1> QED
    BY <1>1, RunsAlways, PTL

\* No RuntimeEntry ever has two drives at once, nor a status without a run: what the
\* per-Session lock of withLock is for, however many awaits an operation makes under it.
THEOREM OneDrive == Spec => []OneDrivePerEntry
  <1>1. RunsOK => OneDrivePerEntry
    <2> SUFFICES ASSUME RunsOK, NEW e \in Entries
                 PROVE  /\ entry[e].drives <= 1
                        /\ Driven(e) <=> entry[e].phase # "none"
                        /\ ~Idle(e) => Driven(e)
      BY DEF OneDrivePerEntry
    <2> QED
      BY DEF RunsOK, PhaseOK, Driven
  <1> QED
    BY <1>1, RunsAlways, PTL

-----------------------------------------------------------------------------
(* No follow-up is stranded *)

\* Only a caller's operation waits at the head of the chain; the scheduled ones
\* begin and end in one turn.
HeadOK == at # "idle" => HeadOp.kind \in CallerKinds

\* After shutdown only a load that was in flight can put an entry into the table; no
\* operation finds it there, so nothing is ever queued behind it.
LateOK ==
    closed /\ table # None =>
        /\ at \notin {"check", "refresh"}
        /\ at = "ready" /\ held = table => Idle(held)
        /\ entry[table].followUps = <<>>

\* A Session that is being deleted has no entry in the table.
DeletionOK == marked => table = None

QueueOK == HeadOK /\ LateOK /\ DeletionOK /\ NoStrandedFollowUp

\* A scheduled operation stays in the chain while others leave it or join it.
LEMMA TailKeeps ==
    ASSUME TypeOK, chain # <<>>, HeadOp # StartFollowUp, InChain(StartFollowUp),
           chain' = Tail(chain)
    PROVE  InChain(StartFollowUp)'
  <1>1. PICK i \in 1..Len(chain) : chain[i] = StartFollowUp
    BY DEF InChain
  <1>2. i # 1
    BY <1>1 DEF HeadOp
  <1>3. i - 1 \in 1..Len(Tail(chain)) /\ Tail(chain)[i - 1] = chain[i]
    BY <1>1, <1>2 DEF TypeOK
  <1> QED
    BY <1>1, <1>3 DEF InChain, StartFollowUp, Op

\* What joins the chain is in it, and what was there, head included, stays.
LEMMA JoinKeeps ==
    ASSUME TypeOK, NEW s \in Seq(Operations), chain' = chain \o s
    PROVE  /\ InChain(StartFollowUp) => InChain(StartFollowUp)'
           /\ (\E i \in 1..Len(s) : s[i] = StartFollowUp) => InChain(StartFollowUp)'
           /\ chain # <<>> => HeadOp' = HeadOp
  <1>1. /\ Len(chain') = Len(chain) + Len(s)
        /\ \A i \in 1..Len(chain) : chain'[i] = chain[i]
        /\ \A i \in 1..Len(s) : chain'[Len(chain) + i] = s[i]
    BY DEF TypeOK
  <1>2. chain # <<>> => HeadOp' = HeadOp
    BY <1>1 DEF TypeOK, HeadOp
  <1>3. InChain(StartFollowUp) => InChain(StartFollowUp)'
    BY <1>1 DEF TypeOK, InChain, StartFollowUp, Op
  <1>4. ASSUME NEW i \in 1..Len(s), s[i] = StartFollowUp PROVE InChain(StartFollowUp)'
    <2>1. Len(chain) + i \in 1..Len(chain') /\ chain'[Len(chain) + i] = StartFollowUp
      BY <1>1, <1>4 DEF TypeOK
    <2> QED
      BY <2>1 DEF InChain, StartFollowUp, Op
  <1> QED
    BY <1>2, <1>3, <1>4

\* With an empty table there is nothing to strand.
LEMMA EmptyTable ==
    ASSUME table' = None, HeadOK'
    PROVE  QueueOK'
  BY DEF QueueOK, LateOK, DeletionOK, NoStrandedFollowUp

\* An operation that is not the scheduled one gives the lock up, and no idle entry
\* has more waiting behind it than before.
LEMMA UnlockQueue ==
    ASSUME RunsOK, QueueOK, chain # <<>>, HeadOp # StartFollowUp, Unlock,
           UNCHANGED <<table, marked, closed>>,
           table # None =>
               \/ /\ entry'[table].status # "idle"
                  /\ closed => entry'[table].followUps = <<>>
               \/ /\ Idle(table) /\ entry'[table].followUps = entry[table].followUps
    PROVE  QueueOK'
  <1>1. at' = "idle" /\ chain' = Tail(chain)
    BY DEF Unlock
  <1>2. HeadOK' /\ DeletionOK'
    BY <1>1 DEF HeadOK, DeletionOK, QueueOK
  <1>3. LateOK'
    BY <1>1 DEF LateOK, QueueOK
  <1>4. NoStrandedFollowUp'
    <2>1. InChain(StartFollowUp) => InChain(StartFollowUp)'
      BY <1>1, TailKeeps DEF RunsOK
    <2> QED
      BY <2>1 DEF NoStrandedFollowUp, QueueOK, Idle
  <1> QED
    BY <1>2, <1>3, <1>4 DEF QueueOK

\* The operation goes on, to a wait that a closed manager's table allows.
LEMMA GoToQueue ==
    ASSUME RunsOK, QueueOK, NEW p, NEW e, GoTo(p, e),
           HeadOp.kind \in CallerKinds,
           \/ table' = None
           \/ /\ table' = table
              /\ closed => p \notin {"check", "refresh", "ready"}
    PROVE  QueueOK'
  <1>1. HeadOK'
    BY DEF GoTo, HeadOK, HeadOp
  <1>2. CASE table' = None
    BY <1>1, <1>2, EmptyTable
  <1>3. CASE table' # None
    BY <1>1, <1>3 DEF QueueOK, LateOK, DeletionOK, NoStrandedFollowUp, GoTo, lifeVars,
                      Idle, InChain, StartFollowUp, Op
  <1> QED
    BY <1>2, <1>3

\* The holder of the lock ends without a run.
LEMMA LeaveQueue ==
    ASSUME RunsOK, QueueOK, chain # <<>>, Leave,
           at # "idle" \/ HeadOp.kind \in CallerKinds \/ HeadOp = StartNotice
    PROVE  QueueOK'
  <1>1. HeadOp # StartFollowUp
    BY DEF QueueOK, HeadOK, StartFollowUp, StartNotice, Op, CallerKinds
  <1>2. CASE table # None /\ Idle(table)
    BY <1>1, <1>2, UnlockQueue DEF Leave, lifeVars
  <1>3. CASE table # None /\ ~Idle(table)
    BY <1>1, <1>3, UnlockQueue DEF Leave, lifeVars, Idle, QueueOK, LateOK
  <1>4. CASE table = None
    BY <1>1, <1>4, UnlockQueue DEF Leave, lifeVars
  <1> QED
    BY <1>2, <1>3, <1>4

\* The holder of the lock puts a run on an entry and is done.
LEMMA LaunchQueue ==
    ASSUME RunsOK, QueueOK, chain # <<>>, NEW e \in Entries, NEW q \in EntryType,
           Edit(e, q), q.status # "idle", Unlock, UNCHANGED <<table, marked, closed>>,
           \/ q.followUps = entry[e].followUps /\ HeadOp # StartFollowUp
           \/ e = table /\ ~closed
    PROVE  QueueOK'
  <1>1. /\ entry'[e] = q
        /\ \A x \in Entries : x # e => entry'[x] = entry[x]
    BY Edited DEF RunsOK, TypeOK
  <1>2. table # None => table \in Entries
    BY Holding
  <1>3. at' = "idle"
    BY DEF Unlock
  <1>4. HeadOK' /\ DeletionOK'
    BY <1>3 DEF HeadOK, DeletionOK, QueueOK
  <1>5. LateOK'
    BY <1>1, <1>2, <1>3 DEF LateOK, QueueOK
  <1>6. NoStrandedFollowUp'
    <2>1. CASE e = table
      BY <1>1, <2>1 DEF NoStrandedFollowUp, Idle
    <2>2. CASE e # table
      <3>1. InChain(StartFollowUp) => InChain(StartFollowUp)'
        BY <2>2, TailKeeps DEF RunsOK, Unlock
      <3> QED
        BY <1>1, <1>2, <2>2, <3>1 DEF NoStrandedFollowUp, QueueOK, Idle
    <2> QED
      BY <2>1, <2>2
  <1> QED
    BY <1>4, <1>5, <1>6 DEF QueueOK

\* The lock's holder strands nothing.
LEMMA LockQueue ==
    ASSUME RunsOK, QueueOK, LockStep
    PROVE  QueueOK'
  <1> USE Holding
  <1>0. at # "idle" => HeadOp.kind \in CallerKinds
    BY DEF QueueOK, HeadOK
  <1>1. CASE RefuseAtGate
    BY <1>1, LeaveQueue DEF RefuseAtGate, Waits
  <1>2. CASE CheckGoalPlugin
    BY <1>2, GoToQueue DEF CheckGoalPlugin, Accepting, CallerKinds
  <1>3. CASE GoalPluginMissing
    BY <1>3, LeaveQueue DEF GoalPluginMissing
  <1>4. CASE HitEntry
    <2>1. HeadOp.kind \in CallerKinds /\ ~closed
      BY <1>0, <1>4 DEF HitEntry, Ensuring, Accepting, QueueOK, LateOK
    <2> QED
      BY <1>4, <2>1, GoToQueue DEF HitEntry
  <1>5. CASE MissEntry
    <2>1. HeadOp.kind \in CallerKinds
      BY <1>0, <1>5 DEF MissEntry, Ensuring
    <2> QED
      BY <1>5, <2>1, GoToQueue DEF MissEntry, StartLoad
  <1>6. CASE SessionNotFound
    <2>1. at # "idle" \/ HeadOp.kind \in CallerKinds
      BY <1>6 DEF SessionNotFound, Ensuring
    <2> QED
      BY <1>6, <2>1, LeaveQueue DEF SessionNotFound
  <1>7. CASE KeepEntry
    <2>1. at = "refresh" /\ (closed => table = None)
      BY <1>7 DEF KeepEntry, QueueOK, LateOK
    <2> QED
      BY <1>0, <1>7, <2>1, GoToQueue DEF KeepEntry
  <1>8. CASE DiscardStaleEntry
    <2>1. at = "refresh" /\ table' = None
      BY <1>8 DEF DiscardStaleEntry, StartLoad
    <2>2. HeadOK'
      BY <1>0, <1>8, <2>1 DEF DiscardStaleEntry, StartLoad, GoTo, Unlock, HeadOK, HeadOp
    <2> QED
      BY <2>1, <2>2, EmptyTable
  <1>9. CASE RefreshFails
    BY <1>9, LeaveQueue DEF RefreshFails
  <1>10. CASE LoadDone
    <2>1. made + 1 \in Entries /\ table' = made + 1
      BY <1>10, ConstantsAssumption DEF RunsOK, TypeOK, LoadDone, Entries
    <2>2. PICK config \in Configs : Edit(made + 1, NewEntry(config))
      BY <1>10 DEF RunsOK, TypeOK, LoadDone, Configs
    <2>3. NewEntry(config) \in EntryType
      BY DEF NewEntry, EntryType
    <2>4. entry'[made + 1] = NewEntry(config)
      BY <2>1, <2>2, <2>3, Edited DEF RunsOK, TypeOK
    <2>5. entry'[made + 1].status = "idle" /\ entry'[made + 1].followUps = <<>>
      BY <2>4 DEF NewEntry
    <2>6. HeadOK'
      BY <1>0, <1>10 DEF LoadDone, HeadOK, HeadOp
    <2> QED
      BY <1>10, <2>1, <2>5, <2>6
      DEF LoadDone, QueueOK, LateOK, DeletionOK, NoStrandedFollowUp, Idle, lifeVars
  <1>11. CASE LoadFails
    BY <1>11, LeaveQueue DEF LoadFails
  <1>12. CASE StartTask
    <2>1. at = "ready" /\ held \in Entries /\ entry[held] \in EntryType
      BY <1>12 DEF StartTask, ReadyFor
    <2>2. HeadOp # StartFollowUp
      BY <1>0, <2>1 DEF StartFollowUp, Op, CallerKinds
    <2> QED
      BY <1>12, <2>1, <2>2, LaunchQueue, LaunchedEntry DEF StartTask, Launch, lifeVars
  <1>13. CASE QueueFollowUp
    <2>1. at = "ready" /\ held \in Entries /\ ~Idle(held) /\ Unlock
      BY <1>13 DEF QueueFollowUp, ReadyFor
    <2>2. HeadOp # StartFollowUp
      BY <1>0, <2>1 DEF StartFollowUp, Op, CallerKinds
    <2>3. closed /\ table # None => held # table
      BY <2>1 DEF QueueOK, LateOK
    <2>4. table # None =>
            \/ /\ entry'[table].status # "idle"
               /\ closed => entry'[table].followUps = <<>>
            \/ Idle(table) /\ entry'[table].followUps = entry[table].followUps
      <3>1. CASE table = held
        <4>1. entry'[held].status = entry[held].status
          BY <1>13, <2>1 DEF QueueFollowUp, Edit, RunsOK, TypeOK, EntryType
        <4> QED
          BY <2>1, <2>3, <3>1, <4>1 DEF Idle
      <3>2. CASE table # held
        <4>1. table # None => entry'[table] = entry[table]
          BY <1>13, <2>1, <3>2 DEF QueueFollowUp, Edit, RunsOK, TypeOK
        <4> QED
          BY <4>1 DEF Idle, QueueOK, LateOK
      <3> QED
        BY <3>1, <3>2
    <2> QED
      BY <1>13, <2>1, <2>2, <2>4, UnlockQueue DEF QueueFollowUp, lifeVars
  <1>14. CASE RefuseReady
    BY <1>14, LeaveQueue DEF RefuseReady
  <1>15. CASE PreloadDone
    BY <1>15, LeaveQueue DEF PreloadDone, ReadyFor
  <1>16. CASE AskGoalHook
    BY <1>0, <1>16, GoToQueue DEF AskGoalHook, ReadyFor
  <1>17. CASE GoalHookRefuses
    BY <1>17, LeaveQueue DEF GoalHookRefuses
  <1>18. CASE StartGoal
    <2>1. at = "hook" /\ held \in Entries /\ entry[held] \in EntryType
      BY <1>18 DEF StartGoal
    <2>2. HeadOp # StartFollowUp
      BY <1>0, <2>1 DEF StartFollowUp, Op, CallerKinds
    <2> QED
      BY <1>18, <2>1, <2>2, LaunchQueue, LaunchedEntry DEF StartGoal, Launch, lifeVars
  <1>19. CASE StartCompact
    <2>1. at = "ready" /\ held \in Entries /\ entry[held] \in EntryType
      BY <1>19 DEF StartCompact, ReadyFor
    <2>2. HeadOp # StartFollowUp
      BY <1>0, <2>1 DEF StartFollowUp, Op, CallerKinds
    <2> QED
      BY <1>19, <2>1, <2>2, LaunchQueue, LaunchedEntry DEF StartCompact, lifeVars
  <1>20. CASE PullSwitchHead
    <2>1. /\ at = "ready" /\ held \in Entries
          /\ \A x \in Entries : /\ entry'[x].status = entry[x].status
                                /\ entry'[x].followUps = entry[x].followUps
      BY <1>20 DEF PullSwitchHead, ReadyFor, Edit, RunsOK, TypeOK, EntryType
    <2> QED
      BY <1>0, <1>20, <2>1
      DEF PullSwitchHead, QueueOK, HeadOK, HeadOp, LateOK, DeletionOK, NoStrandedFollowUp,
          Idle, lifeVars, InChain, StartFollowUp, Op
  <1>21. CASE SwitchSettles
    <2>1. at = "head" /\ held \in Entries /\ Idle(held)
      BY <1>21 DEF SwitchSettles, RunsOK, PhaseOK
    <2>2. HeadOp # StartFollowUp
      BY <1>0, <2>1 DEF StartFollowUp, Op, CallerKinds
    <2>3. \A x \in Entries : /\ entry'[x].status = entry[x].status
                             /\ entry'[x].followUps = entry[x].followUps
      BY <1>21, <2>1 DEF SwitchSettles, Disposed, Edit, RunsOK, TypeOK, EntryType
    <2>4. table # None =>
            \/ /\ entry'[table].status # "idle"
               /\ closed => entry'[table].followUps = <<>>
            \/ Idle(table) /\ entry'[table].followUps = entry[table].followUps
      BY <2>3 DEF Idle, QueueOK, LateOK
    <2> QED
      BY <1>21, <2>1, <2>2, <2>4, UnlockQueue DEF SwitchSettles, lifeVars
  <1>22. CASE SwitchStreams
    <2>1. at = "head" /\ held \in Entries /\ entry[held] \in EntryType
      BY <1>22 DEF SwitchStreams
    <2>2. HeadOp # StartFollowUp
      BY <1>0, <2>1 DEF StartFollowUp, Op, CallerKinds
    <2> DEFINE q == [entry[held] EXCEPT !.status = "compacting", !.phase = "tail",
                                        !.aged = FALSE]
    <2>3. q \in EntryType /\ q.status # "idle" /\ q.followUps = entry[held].followUps
      BY <2>1 DEF EntryType
    <2> QED
      BY <1>22, <2>1, <2>2, <2>3, LaunchQueue DEF SwitchStreams, lifeVars
  <1>23. CASE StartSnapshot
    <2>1. HeadOp.kind \in CallerKinds
      BY <1>23 DEF StartSnapshot, CallerKinds
    <2>2. CASE Leave
      BY <1>23, <2>1, <2>2, LeaveQueue DEF StartSnapshot, Waits
    <2>3. CASE ~Leave
      BY <1>23, <2>1, <2>3, GoToQueue DEF StartSnapshot
    <2> QED
      BY <2>2, <2>3
  <1>24. CASE EndSnapshot
    BY <1>24, LeaveQueue DEF EndSnapshot
  <1>25. CASE StartQueuedFollowUp
    <2>1. CASE Accepting /\ table # None /\ Idle(table) /\ entry[table].followUps # <<>>
      <3> DEFINE r == [entry[table] EXCEPT !.followUps = Tail(@)]
      <3>1. /\ table \in Entries /\ entry[table] \in EntryType /\ chain # <<>>
            /\ Launch(table, r, Head(entry[table].followUps))
        BY <1>25, <2>1 DEF StartQueuedFollowUp, Waits
      <3>2. Tail(entry[table].followUps) \in Seq(Tasks)
        BY <2>1, <3>1 DEF EntryType
      <3>3. r \in EntryType
        BY <3>1, <3>2 DEF EntryType
      <3> QED
        BY <2>1, <3>1, <3>3, LaunchQueue, LaunchedEntry DEF Launch, Accepting, lifeVars
    <2>2. CASE ~(Accepting /\ table # None /\ Idle(table) /\ entry[table].followUps # <<>>)
      <3>1. Leave
        BY <1>25, <2>2 DEF StartQueuedFollowUp
      <3>2. table # None => ~Idle(table) \/ entry[table].followUps = <<>>
        BY <2>2 DEF Accepting, QueueOK, LateOK, DeletionOK
      <3>3. at' = "idle" /\ UNCHANGED <<entry, table, marked, closed>>
        BY <3>1 DEF Leave, Unlock, lifeVars
      <3> QED
        BY <3>2, <3>3 DEF QueueOK, HeadOK, LateOK, DeletionOK, NoStrandedFollowUp, Idle
    <2> QED
      BY <2>1, <2>2
  <1>26. CASE StartBackgroundNoticeTask
    <2>1. HeadOp = StartNotice /\ chain # <<>> /\ HeadOp # StartFollowUp
      BY <1>26 DEF StartBackgroundNoticeTask, Waits, StartNotice, StartFollowUp, Op
    <2>2. CASE Leave
      BY <2>1, <2>2, LeaveQueue
    <2>3. CASE ~Leave
      <3> DEFINE r == [entry[table] EXCEPT !.notices = {}]
      <3>1. /\ table \in Entries /\ entry[table] \in EntryType
            /\ Launch(table, r, NoTask)
        BY <1>26, <2>3 DEF StartBackgroundNoticeTask
      <3>2. r \in EntryType /\ r.followUps = entry[table].followUps
        BY <3>1 DEF EntryType
      <3> DEFINE q == Launched(r, "running", "boot")
      <3>3. q \in EntryType /\ q.status # "idle" /\ q.followUps = entry[table].followUps
        BY <3>2, LaunchedEntry
      <3>4. Edit(table, q) /\ Unlock /\ UNCHANGED <<table, marked, closed>>
        BY <3>1 DEF Launch, lifeVars
      <3> HIDE DEF q
      <3> QED
        BY <2>1, <3>1, <3>3, <3>4, LaunchQueue
    <2> QED
      BY <2>2, <2>3
  <1> QED
    BY <1>1, <1>2, <1>3, <1>4, <1>5, <1>6, <1>7, <1>8, <1>9, <1>10, <1>11, <1>12, <1>13,
       <1>14, <1>15, <1>16, <1>17, <1>18, <1>19, <1>20, <1>21, <1>22, <1>23, <1>24, <1>25,
       <1>26 DEF LockStep

\* Edits beside the lock that keep every status and let no queue grow.
LEMMA BesideQueue ==
    ASSUME RunsOK, QueueOK, UNCHANGED <<table, closed, chain, at, held>>,
           marked' => marked,
           \A x \in Entries : /\ entry'[x].status = entry[x].status
                              /\ entry[x].followUps = <<>> => entry'[x].followUps = <<>>
    PROVE  QueueOK'
  <1>1. table # None => table \in Entries
    BY Holding
  <1>2. HeadOK' /\ DeletionOK'
    BY DEF QueueOK, HeadOK, HeadOp, DeletionOK
  <1>3. LateOK'
    BY <1>1 DEF QueueOK, LateOK, Idle
  <1>4. NoStrandedFollowUp'
    BY <1>1 DEF QueueOK, NoStrandedFollowUp, Idle, InChain, StartFollowUp, Op
  <1> QED
    BY <1>2, <1>3, <1>4 DEF QueueOK

\* An operation joins the chain.
LEMMA JoinQueue ==
    ASSUME RunsOK, QueueOK, NEW op \in Operations, chain' = chain \o <<op>>,
           UNCHANGED <<table, closed, marked, at, held>>,
           \A x \in Entries : /\ entry'[x].status = entry[x].status
                              /\ entry'[x].followUps = entry[x].followUps
    PROVE  QueueOK'
  <1>1. table # None => table \in Entries
    BY Holding
  <1>2. <<op>> \in Seq(Operations)
    OBVIOUS
  <1>3. /\ InChain(StartFollowUp) => InChain(StartFollowUp)'
        /\ chain # <<>> => HeadOp' = HeadOp
    BY <1>2, JoinKeeps DEF RunsOK
  <1>4. HeadOK' /\ DeletionOK'
    BY <1>3, Holding DEF QueueOK, HeadOK, DeletionOK
  <1>5. LateOK'
    BY <1>1 DEF QueueOK, LateOK, Idle
  <1>6. NoStrandedFollowUp'
    BY <1>1, <1>3 DEF QueueOK, NoStrandedFollowUp, Idle
  <1> QED
    BY <1>4, <1>5, <1>6 DEF QueueOK

\* The end of a run schedules what waits behind it.
LEMMA DriveEndsQueue ==
    ASSUME RunsOK, QueueOK, NEW e \in Entries, DriveEnds(e)
    PROVE  QueueOK'
  <1>1. table # None => table \in Entries
    BY Holding
  <1>2. /\ \A x \in Entries : entry'[x].followUps = entry[x].followUps
        /\ \A x \in Entries : x # e => entry'[x].status = entry[x].status
        /\ entry'[e].status = "idle"
    BY DEF DriveEnds, Disposed, Edit, RunsOK, TypeOK, EntryType
  <1>3. Behind(entry[e]) \in Seq(Operations) /\ chain' = chain \o Behind(entry[e])
    <2>1. PICK op \in Operations : Behind(entry[e]) = <<op>>
      BY DEF Behind, StartFollowUp, StartNotice, Op, Operations
    <2> QED
      BY <2>1 DEF DriveEnds
  <1>4. /\ InChain(StartFollowUp) => InChain(StartFollowUp)'
        /\ chain # <<>> => HeadOp' = HeadOp
    BY <1>3, JoinKeeps DEF RunsOK
  <1>5. entry[e].followUps # <<>> => InChain(StartFollowUp)'
    <2>1. ASSUME entry[e].followUps # <<>>
          PROVE  \E i \in 1..Len(Behind(entry[e])) : Behind(entry[e])[i] = StartFollowUp
      BY <2>1 DEF Behind
    <2> QED
      BY <1>3, <2>1, JoinKeeps DEF RunsOK
  <1>6. HeadOK' /\ DeletionOK'
    BY <1>4, Holding DEF DriveEnds, lifeVars, QueueOK, HeadOK, DeletionOK
  <1>7. LateOK'
    BY <1>1, <1>2 DEF DriveEnds, lifeVars, QueueOK, LateOK, Idle
  <1>8. NoStrandedFollowUp'
    BY <1>1, <1>2, <1>4, <1>5 DEF DriveEnds, QueueOK, NoStrandedFollowUp, Idle
  <1> QED
    BY <1>6, <1>7, <1>8 DEF QueueOK

\* A run strands nothing.
LEMMA RunQueue ==
    ASSUME RunsOK, QueueOK, NEW e \in 1..made, RunStep(e)
    PROVE  QueueOK'
  <1>0. e \in Entries
    BY MadeEntry DEF RunsOK
  <1>1. CASE EngineStarts(e)
    BY <1>0, <1>1, BesideQueue
    DEF EngineStarts, lockVars, lifeVars, Edit, RunsOK, TypeOK, EntryType
  <1>2. CASE EngineDelivers(e)
    BY <1>0, <1>2, BesideQueue
    DEF EngineDelivers, lockVars, lifeVars, Edit, RunsOK, TypeOK, EntryType
  <1>3. CASE EngineExits(e)
    BY <1>0, <1>3, BesideQueue
    DEF EngineExits, lockVars, lifeVars, Edit, RunsOK, TypeOK, EntryType
  <1>4. CASE DriveEnds(e)
    BY <1>0, <1>4, DriveEndsQueue
  <1>5. ASSUME NEW n \in Notices, StartBackground(e, n) PROVE QueueOK'
    BY <1>0, <1>5, BesideQueue
    DEF StartBackground, lockVars, lifeVars, Edit, RunsOK, TypeOK, EntryType
  <1>6. ASSUME NEW n \in Notices, BackgroundDone(e, n) PROVE QueueOK'
    <2>1. /\ \A x \in Entries : /\ entry'[x].status = entry[x].status
                                /\ entry'[x].followUps = entry[x].followUps
          /\ UNCHANGED <<table, closed, marked, at, held>>
      BY <1>0, <1>6 DEF BackgroundDone, lifeVars, Edit, RunsOK, TypeOK, EntryType
    <2>2. CASE chain' = chain
      BY <2>1, <2>2, BesideQueue
    <2>3. CASE chain' # chain
      <3>1. StartNotice \in Operations
        BY DEF StartNotice, Op, Operations
      <3>2. chain' = chain \o <<StartNotice>>
        BY <1>6, <2>3 DEF BackgroundDone, RunsOK, TypeOK
      <3> QED
        BY <2>1, <3>1, <3>2, JoinQueue
    <2> QED
      BY <2>2, <2>3
  <1>7. CASE AskApproval(e)
    BY <1>0, <1>7, BesideQueue
    DEF AskApproval, lockVars, lifeVars, Edit, RunsOK, TypeOK, EntryType
  <1> QED
    BY <1>1, <1>2, <1>3, <1>4, <1>5, <1>6, <1>7 DEF RunStep

\* A caller strands nothing.
LEMMA PersonQueue ==
    ASSUME RunsOK, QueueOK, PersonStep
    PROVE  QueueOK'
  <1>0. table # None => table \in Entries
    BY Holding
  <1>1. ASSUME NEW k \in Kinds, NEW t \in Tasks \cup {NoTask}, Submit(k, t) PROVE QueueOK'
    <2>1. Op(k, t) \in Operations
      BY <1>1, ConstantsAssumption DEF Submit, Op, Operations, TaskKinds, CallerKinds
    <2>2. chain' = chain \o <<Op(k, t)>>
      BY <1>1, <2>1 DEF Submit, RunsOK, TypeOK
    <2> QED
      BY <1>1, <2>1, <2>2, JoinQueue DEF Submit, lifeVars
  <1>2. CASE DecideApproval
    BY <1>0, <1>2, BesideQueue
    DEF DecideApproval, lockVars, lifeVars, Edit, RunsOK, TypeOK, EntryType
  <1>3. CASE AbortTask
    BY <1>0, <1>3, BesideQueue
    DEF AbortTask, lockVars, lifeVars, Edit, RunsOK, TypeOK, EntryType
  <1>4. ASSUME NEW i \in 1..Cardinality(Tasks), RecallFollowUp(i) PROVE QueueOK'
    <2>1. /\ table \in Entries /\ entry[table].followUps # <<>>
          /\ UNCHANGED <<table, closed, marked, chain, at, held>>
      BY <1>0, <1>4 DEF RecallFollowUp, lockVars, lifeVars
    <2>2. \A x \in Entries : /\ entry'[x].status = entry[x].status
                             /\ x # table => entry'[x] = entry[x]
      BY <1>4, <2>1 DEF RecallFollowUp, Edit, RunsOK, TypeOK, EntryType
    <2> QED
      BY <2>1, <2>2, BesideQueue
  <1> QED
    BY <1>1, <1>2, <1>3, <1>4 DEF PersonStep

\* What happens outside strands nothing.
LEMMA OutsideQueue ==
    ASSUME RunsOK, QueueOK, OutsideStep
    PROVE  QueueOK'
  <1>0. table # None => table \in Entries
    BY Holding
  <1>1. ASSUME NEW other \in BOOLEAN, CredentialsChange(other) PROVE QueueOK'
    <2>1. \A x \in Entries : /\ entry'[x].status = entry[x].status
                             /\ entry'[x].followUps = entry[x].followUps
      BY <1>1 DEF CredentialsChange, RunsOK, TypeOK, EntryType
    <2> QED
      BY <1>1, <2>1, BesideQueue DEF CredentialsChange, lifeVars
  <1>2. CASE GrowsOld
    BY <1>0, <1>2, BesideQueue
    DEF GrowsOld, lockVars, lifeVars, Edit, RunsOK, TypeOK, EntryType
  <1>3. CASE SweepIdle
    BY <1>3, EmptyTable DEF SweepIdle, lockVars, QueueOK, HeadOK, HeadOp
  <1>4. CASE BeginSessionDeletion
    BY <1>4, EmptyTable DEF BeginSessionDeletion, TakeOffTable, lockVars, QueueOK, HeadOK, HeadOp
  <1>5. CASE DeletionSettles
    BY <1>5, BesideQueue DEF DeletionSettles, lockVars
  <1>6. CASE EndSessionDeletion
    BY <1>6, BesideQueue DEF EndSessionDeletion, lockVars
  <1>7. CASE Shutdown
    BY <1>7, EmptyTable DEF Shutdown, TakeOffTable, lockVars, QueueOK, HeadOK, HeadOp
  <1> QED
    BY <1>1, <1>2, <1>3, <1>4, <1>5, <1>6, <1>7 DEF OutsideStep

\* The lemmas together: the schedule always has its invariant.
LEMMA QueueAlways == Spec => []QueueOK
  <1>1. Init => QueueOK
    <2> SUFFICES ASSUME Init PROVE QueueOK
      OBVIOUS
    <2>1. table # None => table \in Entries
      BY ConstantsAssumption DEF Init, None, Entries
    <2> QED
      BY <2>1 DEF Init, QueueOK, HeadOK, LateOK, DeletionOK, NoStrandedFollowUp, NewEntry
  <1>2. RunsOK /\ QueueOK /\ [Next]_vars => QueueOK'
    <2> SUFFICES ASSUME RunsOK, QueueOK, [Next]_vars PROVE QueueOK'
      OBVIOUS
    <2>1. CASE LockStep
      BY <2>1, LockQueue
    <2>2. ASSUME NEW e \in 1..made, RunStep(e) PROVE QueueOK'
      BY <2>2, RunQueue
    <2>3. CASE PersonStep
      BY <2>3, PersonQueue
    <2>4. CASE OutsideStep
      BY <2>4, OutsideQueue
    <2>5. CASE UNCHANGED vars
      BY <2>5, BesideQueue DEF vars
    <2> QED
      BY <2>1, <2>2, <2>3, <2>4, <2>5 DEF Next
  <1> QED
    BY <1>1, <1>2, RunsAlways, PTL DEF Spec

\* Follow-ups never wait behind an idle entry that nothing will start: whatever the
\* interleaving, the auto-start scheduled by the end of the last run is still to come.
THEOREM FollowUpsNotStranded == Spec => []NoStrandedFollowUp
  <1>1. QueueOK => NoStrandedFollowUp
    BY DEF QueueOK
  <1> QED
    BY <1>1, QueueAlways, PTL

=============================================================================
