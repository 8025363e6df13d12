------------------------ MODULE SessionMailboxProofs ------------------------
(***************************************************************************)
(* Where no operation waits between the look at the entry and the launch,  *)
(* and no deletion loses its patience, the Session's table slot is a       *)
(* mailbox: one run at a time over all runtimes, snapshots of an idle      *)
(* Session, no notice left behind and every input accounted for, for every *)
(* number of inputs, notices, runtimes and waiting callers.  The last two  *)
(* parts are about the runtime without that condition: what becomes of an  *)
(* input whatever happens, and which outside events leave one run at a     *)
(* time all the same.                                                      *)
(***************************************************************************)
EXTENDS SessionManagerProofs

\* The conditions: credentials need no network refresh, no caller starts a goal (whose plugin
\* is looked up, and whose hook runs, with the lock held), and runs end within RUN_SETTLE_MS.
\* Without any one of them MutualExclusion fails.
Steady ==
    /\ ~CredentialRefresh
    /\ "goal" \notin Kinds
    /\ "settleTimeout" \notin Events

\* Nobody waits for a goal.
ChainOK == \A i \in 1..Len(chain) : chain[i].kind # "goal"

\* Whoever is past the gate has the table's entry in hand, and keeps it.
HandOK ==
    /\ at \notin {"check", "hook"}
    /\ at \in {"refresh", "ready"} => held = table /\ ~marked
    /\ at = "load" => table = None

\* While a runtime is loaded or the Trace is read nothing runs; while an entry is looked at,
\* nothing but what runs on it.
QuietOK ==
    /\ at \in {"load", "snapshot"} => \A e \in Entries : ~Driven(e)
    /\ at \in {"refresh", "ready"} => \A e \in Entries : Driven(e) => e = table

\* What runs on an entry off the table is a run the deletion waits for, or shutdown left.
AwayOK ==
    /\ marked <=> deletion # "none"
    /\ \A e \in Entries : Driven(e) /\ e # table =>
          closed \/ (deletion = "settling" /\ e \in awaited)

DriveOK == ChainOK /\ HandOK /\ QuietOK /\ AwayOK /\ MutualExclusion

-----------------------------------------------------------------------------
(* One run at a time *)

\* Outside a switch's pull an entry is driven exactly when it is not idle.
LEMMA RunOf ==
    ASSUME RunsOK, NEW e \in Entries
    PROVE  /\ ~Idle(e) => Driven(e)
           /\ at # "head" => (Driven(e) <=> ~Idle(e))
           /\ at = "head" => Driven(held)
  BY Holding DEF RunsOK, PhaseOK, Driven, Idle

\* At the gate nothing runs but on the table's entry.
LEMMA AtGate ==
    ASSUME RunsOK, DriveOK, Accepting, NEW e \in Entries, Driven(e)
    PROVE  e = table
  BY DEF DriveOK, AwayOK, Accepting

\* No goal leaves or joins the chain.
LEMMA ChainShrinks ==
    ASSUME RunsOK, ChainOK, chain # <<>>, chain' = Tail(chain)
    PROVE  ChainOK'
  <1>1. /\ Len(Tail(chain)) = Len(chain) - 1
        /\ \A i \in 1..Len(Tail(chain)) : Tail(chain)[i] = chain[i + 1]
    BY DEF RunsOK, TypeOK
  <1>2. Len(chain) \in Nat
    BY DEF RunsOK, TypeOK
  <1> QED
    BY <1>1, <1>2 DEF ChainOK

\* No goal joins it with another operation.
LEMMA ChainGrows ==
    ASSUME RunsOK, ChainOK, NEW op \in Operations, op.kind # "goal",
           chain' = Append(chain, op)
    PROVE  ChainOK'
  <1>1. /\ Len(chain') = Len(chain) + 1 /\ chain'[Len(chain) + 1] = op
        /\ \A i \in 1..Len(chain) : chain'[i] = chain[i]
    BY DEF RunsOK, TypeOK
  <1>2. Len(chain) \in Nat
    BY DEF RunsOK, TypeOK
  <1> QED
    BY <1>1, <1>2 DEF ChainOK

\* The lock is given up, with no run more than before or one on the table's entry alone.
LEMMA UnlockDrive ==
    ASSUME RunsOK, DriveOK, chain # <<>>, Unlock, UNCHANGED lifeVars,
           \/ UNCHANGED table /\ \A x \in Entries : Driven(x)' => Driven(x)
           \/ UNCHANGED table /\ \A x \in Entries : Driven(x)' => x = table
           \/ \A x \in Entries : ~Driven(x)'
    PROVE  DriveOK'
  <1>1. at' = "idle" /\ ChainOK'
    BY ChainShrinks DEF Unlock, DriveOK
  <1>2. HandOK' /\ QuietOK'
    BY <1>1 DEF HandOK, QuietOK
  <1>3. AwayOK' /\ MutualExclusion'
    BY DEF DriveOK, AwayOK, MutualExclusion, lifeVars
  <1> QED
    BY <1>1, <1>2, <1>3 DEF DriveOK

\* The operation goes on to a wait that what runs allows.
LEMMA GoToDrive ==
    ASSUME RunsOK, DriveOK, NEW p \in {"refresh", "ready", "load", "snapshot"}, NEW e,
           GoTo(p, e),
           p \in {"refresh", "ready"} =>
               e = table /\ ~marked /\ \A x \in Entries : Driven(x) => x = table,
           p \in {"load", "snapshot"} => \A x \in Entries : ~Driven(x),
           IF p = "load" THEN table' = None ELSE table' = table
    PROVE  DriveOK'
  <1>1. \A x \in Entries : Driven(x)' <=> Driven(x)
    BY DEF GoTo, Driven
  <1>2. ChainOK' /\ HandOK'
    BY DEF DriveOK, ChainOK, HandOK, GoTo, lifeVars
  <1>3. QuietOK' /\ MutualExclusion'
    BY <1>1 DEF DriveOK, QuietOK, MutualExclusion, GoTo
  <1>4. AwayOK'
    BY <1>1 DEF DriveOK, AwayOK, GoTo, lifeVars
  <1> QED
    BY <1>2, <1>3, <1>4 DEF DriveOK

\* The lock's holder does not move, and no run starts.
LEMMA BesideDrive ==
    ASSUME RunsOK, DriveOK, ChainOK', UNCHANGED <<table, at, held, lifeVars>>,
           \A x \in Entries : Driven(x)' => Driven(x)
    PROVE  DriveOK'
  <1>1. HandOK' /\ QuietOK'
    BY DEF DriveOK, HandOK, QuietOK, lifeVars
  <1>2. AwayOK' /\ MutualExclusion'
    BY DEF DriveOK, AwayOK, MutualExclusion, lifeVars
  <1> QED
    BY <1>1, <1>2 DEF DriveOK

\* The lock's holder leaves without a run.
LEMMA LeaveDrive ==
    ASSUME RunsOK, DriveOK, chain # <<>>, Leave
    PROVE  DriveOK'
  BY UnlockDrive DEF Leave, Driven

\* The lock's holder launches on the table's entry, where nothing ran.
LEMMA LaunchDrive ==
    ASSUME RunsOK, DriveOK, chain # <<>>, table \in Entries,
           \A x \in Entries : Driven(x) => x = table,
           NEW q \in EntryType, Edit(table, q), Unlock, UNCHANGED <<table, lifeVars>>
    PROVE  DriveOK'
  <1>1. \A x \in Entries : x # table => entry'[x] = entry[x]
    BY Edited DEF RunsOK, TypeOK
  <1>2. \A x \in Entries : Driven(x)' => x = table
    BY <1>1 DEF Driven
  <1> QED
    BY <1>2, UnlockDrive

\* The lock's holder keeps it to one run at a time.
LEMMA LockDrive ==
    ASSUME Steady, RunsOK, QueueOK, DriveOK, LockStep
    PROVE  DriveOK'
  <1> USE Holding
  <1>0. /\ at \notin {"check", "hook"}
        /\ at \in {"refresh", "ready"} =>
             /\ held = table /\ ~marked /\ chain # <<>>
             /\ \A x \in Entries : Driven(x) => x = table
        /\ at = "load" => table = None /\ \A x \in Entries : ~Driven(x)
        /\ Waits => at = "idle" /\ HeadOp.kind # "goal"
    BY DEF DriveOK, HandOK, QuietOK, ChainOK, Waits, HeadOp, RunsOK, TypeOK
  <1>1. CASE RefuseAtGate
    BY <1>1, LeaveDrive DEF RefuseAtGate, Waits
  <1>2. CASE CheckGoalPlugin
    BY <1>0, <1>2 DEF CheckGoalPlugin
  <1>3. CASE GoalPluginMissing
    BY <1>0, <1>3 DEF GoalPluginMissing
  <1>4. CASE HitEntry
    <2>1. Accepting /\ Waits
      BY <1>0, <1>4 DEF HitEntry, Ensuring
    <2> QED
      BY <1>4, <2>1, AtGate, GoToDrive DEF HitEntry, Accepting
  <1>5. CASE MissEntry
    <2>1. Accepting /\ table = None
      BY <1>0, <1>5 DEF MissEntry, Ensuring
    <2>2. \A x \in Entries : ~Driven(x)
      BY <2>1, AtGate DEF None, Entries
    <2> QED
      BY <1>5, <2>2, GoToDrive DEF MissEntry, StartLoad
  <1>6. CASE SessionNotFound
    BY <1>6, LeaveDrive DEF SessionNotFound
  <1>7. CASE KeepEntry
    BY <1>0, <1>7, GoToDrive DEF KeepEntry
  <1>8. CASE DiscardStaleEntry
    <2>1. at = "refresh" /\ chain # <<>> /\ \A x \in Entries : ~Driven(x)
      BY <1>0, <1>8 DEF DiscardStaleEntry, InUse
    <2>2. CASE StartLoad
      BY <2>1, <2>2, GoToDrive DEF StartLoad
    <2>3. CASE ~StartLoad
      BY <1>8, <2>1, <2>3, UnlockDrive DEF DiscardStaleEntry, Driven
    <2> QED
      BY <2>2, <2>3
  <1>9. CASE RefreshFails
    BY <1>9, LeaveDrive DEF RefreshFails
  <1>10. CASE LoadDone
    <2>1. /\ at = "load" /\ made + 1 \in Entries
          /\ table' = made + 1 /\ held' = made + 1 /\ at' = "ready"
      BY <1>10, ConstantsAssumption DEF RunsOK, TypeOK, LoadDone, Entries
    <2>2. PICK config \in Configs : Edit(made + 1, NewEntry(config))
      BY <1>10 DEF RunsOK, TypeOK, LoadDone, Configs
    <2>3. NewEntry(config) \in EntryType /\ NewEntry(config).drives = 0
      BY DEF NewEntry, EntryType
    <2>4. \A x \in Entries : ~Driven(x)'
      BY <1>0, <2>1, <2>2, <2>3, Edited DEF RunsOK, TypeOK, Driven
    <2>5. ChainOK' /\ HandOK'
      BY <1>10, <2>1 DEF LoadDone, DriveOK, ChainOK, HandOK, lifeVars
    <2>6. QuietOK' /\ AwayOK' /\ MutualExclusion'
      BY <1>10, <2>4 DEF LoadDone, DriveOK, QuietOK, AwayOK, MutualExclusion, lifeVars
    <2> QED
      BY <2>5, <2>6 DEF DriveOK
  <1>11. CASE LoadFails
    BY <1>11, LeaveDrive DEF LoadFails
  <1>12. CASE StartTask
    <2>1. at = "ready" /\ held \in Entries /\ entry[held] \in EntryType
      BY <1>12 DEF StartTask, ReadyFor
    <2> QED
      BY <1>0, <1>12, <2>1, LaunchDrive, LaunchedEntry DEF StartTask, Launch
  <1>13. CASE QueueFollowUp
    <2>1. at = "ready" /\ held \in Entries /\ chain # <<>>
      BY <1>13 DEF QueueFollowUp, ReadyFor
    <2>2. \A x \in Entries : entry'[x].drives = entry[x].drives
      BY <1>13, <2>1 DEF QueueFollowUp, Edit, RunsOK, TypeOK, EntryType
    <2> QED
      BY <1>13, <2>1, <2>2, UnlockDrive DEF QueueFollowUp, Driven
  <1>14. CASE RefuseReady
    BY <1>14, LeaveDrive DEF RefuseReady
  <1>15. CASE PreloadDone
    BY <1>15, LeaveDrive DEF PreloadDone, ReadyFor
  <1>16. CASE AskGoalHook
    <2>1. HeadOp.kind # "goal"
      BY <1>16 DEF AskGoalHook, ReadyFor, DriveOK, ChainOK, HeadOp, RunsOK, TypeOK
    <2> QED
      BY <1>16, <2>1 DEF AskGoalHook, ReadyFor
  <1>17. CASE GoalHookRefuses
    BY <1>0, <1>17 DEF GoalHookRefuses
  <1>18. CASE StartGoal
    BY <1>0, <1>18 DEF StartGoal
  <1>19. CASE StartCompact
    <2>1. at = "ready" /\ held \in Entries /\ entry[held] \in EntryType
      BY <1>19 DEF StartCompact, ReadyFor
    <2> QED
      BY <1>0, <1>19, <2>1, LaunchDrive, LaunchedEntry DEF StartCompact
  <1>20. CASE PullSwitchHead
    <2>1. at = "ready" /\ held \in Entries /\ at' = "head"
      BY <1>20 DEF PullSwitchHead, ReadyFor
    <2>2. \A x \in Entries : x # table => entry'[x] = entry[x]
      BY <1>0, <1>20, <2>1 DEF PullSwitchHead, Edit, RunsOK, TypeOK
    <2>3. \A x \in Entries : Driven(x)' => x = table
      BY <1>0, <2>1, <2>2 DEF Driven
    <2> QED
      BY <1>20, <2>1, <2>3
      DEF PullSwitchHead, DriveOK, ChainOK, HandOK, QuietOK, AwayOK, MutualExclusion, lifeVars
  <1>21. CASE SwitchSettles
    <2>1. at = "head" /\ held \in Entries /\ chain # <<>>
      BY <1>21 DEF SwitchSettles
    <2>2. \A x \in Entries : x # held => entry'[x] = entry[x]
      BY <1>21, <2>1 DEF SwitchSettles, Edit, RunsOK, TypeOK
    <2>3. \A x \in Entries : Driven(x)' => Driven(x)
      BY <2>1, <2>2, RunOf DEF Driven
    <2> QED
      BY <1>21, <2>1, <2>3, UnlockDrive DEF SwitchSettles
  <1>22. CASE SwitchStreams
    <2>1. at = "head" /\ held \in Entries /\ chain # <<>>
      BY <1>22 DEF SwitchStreams
    <2>2. \A x \in Entries : entry'[x].drives = entry[x].drives
      BY <1>22, <2>1 DEF SwitchStreams, Edit, RunsOK, TypeOK, EntryType
    <2> QED
      BY <1>22, <2>1, <2>2, UnlockDrive DEF SwitchStreams, Driven
  <1>23. CASE StartSnapshot
    <2>1. Accepting /\ at = "idle" /\ chain # <<>>
      BY <1>23 DEF StartSnapshot, Waits
    <2>2. CASE table # None /\ ~Idle(table)
      BY <1>23, <2>1, <2>2, LeaveDrive DEF StartSnapshot
    <2>3. CASE ~(table # None /\ ~Idle(table))
      <3>1. \A x \in Entries : ~Driven(x)
        BY <2>1, <2>3, AtGate, RunOf DEF None, Entries
      <3> QED
        BY <1>23, <2>3, <3>1, GoToDrive DEF StartSnapshot
    <2> QED
      BY <2>2, <2>3
  <1>24. CASE EndSnapshot
    BY <1>24, LeaveDrive DEF EndSnapshot
  <1>25. CASE StartQueuedFollowUp
    <2>1. CASE Accepting /\ table # None /\ Idle(table) /\ entry[table].followUps # <<>>
      <3> DEFINE r == [entry[table] EXCEPT !.followUps = Tail(@)]
      <3>1. /\ table \in Entries /\ entry[table] \in EntryType /\ chain # <<>>
            /\ Launch(table, r, Head(entry[table].followUps))
        BY <1>25, <2>1 DEF StartQueuedFollowUp, Waits
      <3>2. Tail(entry[table].followUps) \in Seq(Tasks)
        BY <2>1, <3>1 DEF EntryType
      <3>3. r \in EntryType
        BY <3>1, <3>2 DEF EntryType
      <3> QED
        BY <2>1, <3>1, <3>3, AtGate, LaunchDrive, LaunchedEntry DEF Launch
    <2>2. CASE ~(Accepting /\ table # None /\ Idle(table) /\ entry[table].followUps # <<>>)
      BY <1>25, <2>2, LeaveDrive DEF StartQueuedFollowUp, Waits
    <2> QED
      BY <2>1, <2>2
  <1>26. CASE StartBackgroundNoticeTask
    <2>1. CASE Leave
      BY <1>26, <2>1, LeaveDrive DEF StartBackgroundNoticeTask, Waits
    <2>2. CASE ~Leave
      <3> DEFINE r == [entry[table] EXCEPT !.notices = {}]
      <3>1. /\ table \in Entries /\ entry[table] \in EntryType /\ chain # <<>> /\ Accepting
            /\ Launch(table, r, NoTask)
        BY <1>26, <2>2 DEF StartBackgroundNoticeTask, Waits
      <3>2. r \in EntryType
        BY <3>1 DEF EntryType
      <3> QED
        BY <3>1, <3>2, AtGate, LaunchDrive, LaunchedEntry DEF Launch
    <2> QED
      BY <2>1, <2>2
  <1> QED
    BY <1>1, <1>2, <1>3, <1>4, <1>5, <1>6, <1>7, <1>8, <1>9, <1>10, <1>11, <1>12, <1>13,
       <1>14, <1>15, <1>16, <1>17, <1>18, <1>19, <1>20, <1>21, <1>22, <1>23, <1>24, <1>25,
       <1>26 DEF LockStep

\* A run, while it lasts and when it ends, makes no other.
LEMMA RunDrive ==
    ASSUME RunsOK, DriveOK, NEW e \in 1..made, RunStep(e)
    PROVE  DriveOK'
  <1>0. e \in Entries
    BY MadeEntry DEF RunsOK
  <1>1. /\ UNCHANGED <<table, at, held, lifeVars>>
        /\ \A x \in Entries : entry'[x].drives = entry[x].drives
        /\ UNCHANGED chain \/ chain' = Append(chain, StartNotice)
        => DriveOK'
    <2> HAVE /\ UNCHANGED <<table, at, held, lifeVars>>
             /\ \A x \in Entries : entry'[x].drives = entry[x].drives
             /\ UNCHANGED chain \/ chain' = Append(chain, StartNotice)
    <2>1. StartNotice \in Operations /\ StartNotice.kind # "goal"
      BY DEF StartNotice, Op, Operations
    <2>2. ChainOK'
      BY <2>1, ChainGrows DEF DriveOK, ChainOK
    <2> QED
      BY <2>2, BesideDrive DEF Driven
  <1>2. CASE EngineStarts(e)
    BY <1>0, <1>1, <1>2 DEF EngineStarts, lockVars, Edit, RunsOK, TypeOK, EntryType
  <1>3. CASE EngineDelivers(e)
    BY <1>0, <1>1, <1>3 DEF EngineDelivers, lockVars, Edit, RunsOK, TypeOK, EntryType
  <1>4. CASE EngineExits(e)
    BY <1>0, <1>1, <1>4 DEF EngineExits, lockVars, Edit, RunsOK, TypeOK, EntryType
  <1>5. CASE DriveEnds(e)
    <2>1. PICK op \in {StartFollowUp, StartNotice} : Behind(entry[e]) = <<op>>
      BY DEF Behind
    <2>2. op \in Operations /\ op.kind # "goal"
      BY DEF StartFollowUp, StartNotice, Op, Operations
    <2>3. chain' = Append(chain, op)
      BY <1>5, <2>1, <2>2 DEF DriveEnds, RunsOK, TypeOK
    <2>4. ChainOK'
      BY <2>2, <2>3, ChainGrows DEF DriveOK
    <2>5. Driven(e) /\ \A x \in Entries : x # e => entry'[x] = entry[x]
      BY <1>0, <1>5 DEF DriveEnds, Edit, Driven, RunsOK, TypeOK, PhaseOK
    <2> QED
      BY <1>5, <2>4, <2>5, BesideDrive DEF DriveEnds, Driven
  <1>6. ASSUME NEW n \in Notices, StartBackground(e, n) PROVE DriveOK'
    BY <1>0, <1>1, <1>6 DEF StartBackground, lockVars, Edit, RunsOK, TypeOK, EntryType
  <1>7. ASSUME NEW n \in Notices, BackgroundDone(e, n) PROVE DriveOK'
    BY <1>0, <1>1, <1>7 DEF BackgroundDone, Edit, RunsOK, TypeOK, EntryType
  <1>8. CASE AskApproval(e)
    BY <1>0, <1>1, <1>8 DEF AskApproval, lockVars, Edit, RunsOK, TypeOK, EntryType
  <1> QED
    BY <1>2, <1>3, <1>4, <1>5, <1>6, <1>7, <1>8 DEF RunStep

\* A caller starts nothing beside the lock.
LEMMA PersonDrive ==
    ASSUME Steady, RunsOK, DriveOK, PersonStep
    PROVE  DriveOK'
  <1>0. table # None => table \in Entries
    BY Holding
  <1>1. ASSUME NEW k \in Kinds, NEW t \in Tasks \cup {NoTask}, Submit(k, t) PROVE DriveOK'
    <2>1. Op(k, t) \in Operations /\ Op(k, t).kind # "goal"
      BY <1>1, ConstantsAssumption
      DEF Steady, Submit, Op, Operations, TaskKinds, CallerKinds
    <2>2. ChainOK'
      BY <1>1, <2>1, ChainGrows DEF Submit, DriveOK
    <2> QED
      BY <1>1, <2>2, BesideDrive DEF Submit, Driven
  <1>2. UNCHANGED <<table, lockVars, lifeVars>>
        /\ (\A x \in Entries : entry'[x].drives = entry[x].drives) => DriveOK'
    BY BesideDrive DEF DriveOK, ChainOK, Driven, lockVars
  <1>3. CASE DecideApproval
    BY <1>0, <1>2, <1>3 DEF DecideApproval, Edit, RunsOK, TypeOK, EntryType
  <1>4. CASE AbortTask
    BY <1>0, <1>2, <1>4 DEF AbortTask, Edit, RunsOK, TypeOK, EntryType
  <1>5. ASSUME NEW i \in 1..Cardinality(Tasks), RecallFollowUp(i) PROVE DriveOK'
    <2>1. \A x \in Entries : entry'[x].drives = entry[x].drives
      BY <1>0, <1>5 DEF RecallFollowUp, Edit, RunsOK, TypeOK, EntryType
    <2> QED
      BY <1>2, <1>5, <2>1 DEF RecallFollowUp
  <1> QED
    BY <1>1, <1>3, <1>4, <1>5 DEF PersonStep

\* An entry taken off the table keeps its run.
LEMMA TakenOff ==
    ASSUME RunsOK, TakeOffTable
    PROVE  /\ table' = None
           /\ \A x \in Entries : Driven(x)' <=> Driven(x)
  <1>1. CASE table = None
    BY <1>1 DEF TakeOffTable, Driven
  <1>2. CASE table # None
    <2>1. table \in Entries /\ entry[table] \in EntryType
      BY <1>2, Holding
    <2>2. Converged(entry[table]) \in EntryType
          /\ Converged(entry[table]).drives = entry[table].drives
      BY <2>1, ConvergedEntry
    <2> QED
      BY <1>2, <2>1, <2>2, Edited DEF TakeOffTable, Driven, RunsOK, TypeOK
  <1> QED
    BY <1>1, <1>2

\* What happens outside starts nothing, and a deletion waits for what it took off the table.
LEMMA OutsideDrive ==
    ASSUME Steady, RunsOK, DriveOK, OutsideStep
    PROVE  DriveOK'
  <1>0. /\ table # None => table \in Entries
        /\ Yielded => at \notin {"refresh", "ready"}
    BY Holding DEF Steady, Yielded, Turn
  <1>1. ASSUME NEW other \in BOOLEAN, CredentialsChange(other) PROVE DriveOK'
    <2>1. \A x \in Entries : entry'[x].drives = entry[x].drives
      BY <1>1 DEF CredentialsChange, RunsOK, TypeOK, EntryType
    <2> QED
      BY <1>1, <2>1, BesideDrive DEF CredentialsChange, DriveOK, ChainOK, Driven
  <1>2. CASE GrowsOld
    <2>1. \A x \in Entries : entry'[x].drives = entry[x].drives
      BY <1>0, <1>2 DEF GrowsOld, Edit, RunsOK, TypeOK, EntryType
    <2> QED
      BY <1>2, <2>1, BesideDrive DEF GrowsOld, DriveOK, ChainOK, Driven, lockVars
  <1>3. CASE SweepIdle
    <2>1. at \notin {"refresh", "ready"} /\ ~Driven(table)
      BY <1>0, <1>3 DEF SweepIdle, Driven
    <2>2. ChainOK' /\ HandOK' /\ QuietOK' /\ MutualExclusion'
      BY <1>3, <2>1
      DEF SweepIdle, DriveOK, ChainOK, HandOK, QuietOK, MutualExclusion, Driven, lockVars
    <2>3. AwayOK'
      BY <1>3, <2>1 DEF SweepIdle, DriveOK, AwayOK, Driven, lifeVars
    <2> QED
      BY <2>2, <2>3 DEF DriveOK
  <1>4. CASE BeginSessionDeletion \/ Shutdown
    <2>1. /\ at \notin {"refresh", "ready"} /\ table' = None
          /\ UNCHANGED lockVars
          /\ \A x \in Entries : Driven(x)' <=> Driven(x)
      BY <1>0, <1>4, TakenOff DEF BeginSessionDeletion, Shutdown
    <2>2. ChainOK' /\ HandOK' /\ QuietOK' /\ MutualExclusion'
      BY <2>1 DEF DriveOK, ChainOK, HandOK, QuietOK, MutualExclusion, lockVars
    <2>3. CASE BeginSessionDeletion
      <3>1. \A x \in Entries : Driven(x) => x = table
        BY <2>3 DEF BeginSessionDeletion, DriveOK, AwayOK
      <3>2. /\ marked' /\ deletion' = "settling"
            /\ awaited' = {x \in Entries : x = table /\ Driven(x)}
        BY <2>3 DEF BeginSessionDeletion
      <3>3. AwayOK'
        BY <2>1, <3>1, <3>2 DEF AwayOK
      <3> QED
        BY <2>2, <3>3 DEF DriveOK
    <2>4. CASE Shutdown
      <3>1. AwayOK'
        BY <2>1, <2>4 DEF Shutdown, DriveOK, AwayOK
      <3> QED
        BY <2>2, <3>1 DEF DriveOK
    <2> QED
      BY <1>4, <2>3, <2>4
  <1>5. CASE DeletionSettles
    <2>1. \A x \in awaited : ~Driven(x)
      BY <1>5 DEF DeletionSettles, Steady
    <2>2. AwayOK'
      BY <1>5, <2>1 DEF DeletionSettles, DriveOK, AwayOK, Driven
    <2> QED
      BY <1>5, <2>2
      DEF DeletionSettles, DriveOK, ChainOK, HandOK, QuietOK, MutualExclusion, Driven, lockVars
  <1>6. CASE EndSessionDeletion
    <2>1. at \notin {"refresh", "ready"}
      BY <1>0, <1>6 DEF EndSessionDeletion
    <2>2. AwayOK'
      BY <1>6 DEF EndSessionDeletion, DriveOK, AwayOK, Driven
    <2> QED
      BY <1>6, <2>1, <2>2
      DEF EndSessionDeletion, DriveOK, ChainOK, HandOK, QuietOK, MutualExclusion, Driven, lockVars
  <1> QED
    BY <1>1, <1>2, <1>3, <1>4, <1>5, <1>6 DEF OutsideStep

\* The inductive invariant of the steady Session.
LEMMA DriveNext ==
    ASSUME Steady, RunsOK, QueueOK, DriveOK, [Next]_vars
    PROVE  DriveOK'
  <1>1. CASE LockStep
    BY <1>1, LockDrive
  <1>2. ASSUME NEW e \in 1..made, RunStep(e) PROVE DriveOK'
    BY <1>2, RunDrive
  <1>3. CASE PersonStep
    BY <1>3, PersonDrive
  <1>4. CASE OutsideStep
    BY <1>4, OutsideDrive
  <1>5. CASE UNCHANGED vars
    BY <1>5, BesideDrive DEF vars, DriveOK, ChainOK, Driven, lifeVars
  <1> QED
    BY <1>1, <1>2, <1>3, <1>4, <1>5 DEF Next

-----------------------------------------------------------------------------
(* What a step is to the callers *)

\* The inputs that wait behind the run, and the entries a run is on.
Waiting == IF table = None THEN <<>> ELSE entry[table].followUps
Running == {e \in Entries : Driven(e)}

\* The auto-start of a follow-up is the only operation when it is scheduled, so it takes its
\* turn before anything else can happen.
SwiftOK == InChain(StartFollowUp) => chain = <<StartFollowUp>> /\ at = "idle"

\* The shapes of a step: nothing to the callers, a refusal, a run started on the input of the
\* lock's holder, on the next one waiting or on none, an input queued, recalled or released
\* with the Session, and the end of the run.
Rests == UNCHANGED <<fate, Waiting, Running>>
Refuses == HeadOp.task \in Tasks /\ Record(HeadOp.task, "refused") /\ UNCHANGED <<Waiting, Running>>
Begins == Running = {} /\ Running' # {} /\ ~marked
StartsOwn == HeadOp.task \in Tasks /\ Record(HeadOp.task, "started") /\ Begins /\ UNCHANGED Waiting
StartsNone == Begins /\ UNCHANGED <<fate, Waiting>>
StartsNext ==
    /\ Begins
    /\ Waiting # <<>> /\ Waiting' = Tail(Waiting)
    /\ Record(Head(Waiting), "started")
Queues ==
    /\ HeadOp.task \in Tasks /\ Record(HeadOp.task, "queued")
    /\ Running # {} /\ UNCHANGED Running
    /\ Len(Waiting) < FollowUpLimit /\ Waiting' = Append(Waiting, HeadOp.task)
Ends == Running # {} /\ Running' = {} /\ UNCHANGED <<fate, Waiting>>

\* The lock's holder gives the lock up with what becomes of its input, or keeps it.
GivesUp ==
    /\ chain # <<>> /\ chain' = Tail(chain)
    /\ Rests \/ Refuses \/ StartsOwn \/ StartsNone \/ StartsNext \/ Queues \/ Ends
KeepsLock ==
    /\ UNCHANGED chain /\ ~(at = "idle" /\ HeadOp = StartFollowUp)
    /\ Rests \/ StartsNone

\* Leaving tells the callers of nothing but the refusal.
LEMMA LeaveShape ==
    ASSUME RunsOK, chain # <<>>, Leave
    PROVE  GivesUp
  <1>1. UNCHANGED <<Waiting, Running>>
    BY DEF Leave, Waiting, Running, Driven
  <1> QED
    BY <1>1 DEF Leave, Unlock, GivesUp, Rests, Refuses, Record

\* A wait is nothing to the callers.
LEMMA GoToShape ==
    ASSUME RunsOK, NEW p, NEW e, GoTo(p, e), at = "idle" => HeadOp.kind \in CallerKinds,
           table' = table \/ (table' = None /\ Waiting = <<>>)
    PROVE  KeepsLock
  <1>1. UNCHANGED <<Waiting, Running>>
    BY DEF GoTo, Waiting, Running, Driven
  <1>2. ~(at = "idle" /\ HeadOp = StartFollowUp)
    BY DEF StartFollowUp, Op, CallerKinds
  <1> QED
    BY <1>1, <1>2 DEF GoTo, KeepsLock, Rests

\* A launch on the table's entry, where nothing ran, begins a run.
LEMMA LaunchShape ==
    ASSUME RunsOK, table \in Entries, ~marked, ~Driven(table),
           \A x \in Entries : Driven(x) => x = table,
           NEW q \in EntryType, q.drives = 1, Edit(table, q), UNCHANGED table
    PROVE  Begins /\ Waiting' = q.followUps /\ Waiting = entry[table].followUps
  <1>1. entry'[table] = q /\ table # None
    BY Edited DEF RunsOK, TypeOK, Entries, None
  <1>2. Driven(table)'
    BY <1>1 DEF Driven
  <1>3. Running = {} /\ Running' # {}
    BY <1>2 DEF Running
  <1> QED
    BY <1>1, <1>3 DEF Begins, Waiting

\* An edit that keeps the drives and the queues.
LEMMA SameShape ==
    ASSUME RunsOK, UNCHANGED table,
           \A x \in Entries : /\ entry'[x].drives = entry[x].drives
                              /\ entry'[x].followUps = entry[x].followUps
    PROVE  UNCHANGED <<Waiting, Running>>
  <1>1. table # None => table \in Entries
    BY Holding
  <1> QED
    BY <1>1 DEF Waiting, Running, Driven

\* What the lock's holder does is one of these.
LEMMA LockShape ==
    ASSUME Steady, RunsOK, QueueOK, DriveOK, SwiftOK, LockStep
    PROVE  GivesUp \/ KeepsLock
  <1> USE Holding
  <1>0. /\ at \notin {"check", "hook"}
        /\ at \in {"refresh", "ready"} =>
             /\ held = table /\ ~marked /\ chain # <<>> /\ table # None
             /\ \A x \in Entries : Driven(x) => x = table
             /\ Driven(table) <=> ~Idle(table)
        /\ at = "load" => table = None /\ \A x \in Entries : ~Driven(x)
        /\ Waits => at = "idle" /\ HeadOp.kind # "goal"
    BY RunOf DEF DriveOK, HandOK, QuietOK, ChainOK, Waits, HeadOp, RunsOK, TypeOK, None, Entries
  <1>1. CASE RefuseAtGate
    BY <1>1, LeaveShape DEF RefuseAtGate, Waits
  <1>2. CASE CheckGoalPlugin
    BY <1>0, <1>2 DEF CheckGoalPlugin
  <1>3. CASE GoalPluginMissing
    BY <1>0, <1>3 DEF GoalPluginMissing
  <1>4. CASE HitEntry
    BY <1>4, GoToShape DEF HitEntry, Ensuring
  <1>5. CASE MissEntry
    BY <1>5, GoToShape DEF MissEntry, StartLoad, Ensuring
  <1>6. CASE SessionNotFound
    BY <1>6, LeaveShape DEF SessionNotFound
  <1>7. CASE KeepEntry
    BY <1>7, GoToShape DEF KeepEntry
  <1>8. CASE DiscardStaleEntry
    <2>1. /\ at = "refresh" /\ chain # <<>> /\ table \in Entries /\ Idle(table)
          /\ \A x \in Entries : ~Driven(x)
      BY <1>0, <1>8 DEF DiscardStaleEntry, InUse
    <2>2. Waiting = <<>>
      BY <2>1 DEF SwiftOK, QueueOK, NoStrandedFollowUp, Waiting
    <2>3. CASE StartLoad
      BY <2>1, <2>2, <2>3, GoToShape DEF StartLoad
    <2>4. CASE ~StartLoad
      <3>1. UNCHANGED <<Waiting, Running>>
        BY <1>8, <2>2, <2>4 DEF DiscardStaleEntry, Waiting, Running, Driven
      <3> QED
        BY <1>8, <2>1, <2>4, <3>1
        DEF DiscardStaleEntry, Unlock, GivesUp, Rests, Refuses, Record
    <2> QED
      BY <2>3, <2>4
  <1>9. CASE RefreshFails
    BY <1>9, LeaveShape DEF RefreshFails
  <1>10. CASE LoadDone
    <2>1. at = "load" /\ made + 1 \in Entries /\ table' = made + 1 /\ table' # None
      BY <1>10, ConstantsAssumption DEF RunsOK, TypeOK, LoadDone, Entries, None
    <2>2. PICK config \in Configs : Edit(made + 1, NewEntry(config))
      BY <1>10 DEF RunsOK, TypeOK, LoadDone, Configs
    <2>3. /\ NewEntry(config) \in EntryType /\ NewEntry(config).drives = 0
          /\ NewEntry(config).followUps = <<>>
      BY DEF NewEntry, EntryType
    <2>4. entry'[made + 1] = NewEntry(config) /\ \A x \in Entries : ~Driven(x)'
      BY <1>0, <2>1, <2>2, <2>3, Edited DEF RunsOK, TypeOK, Driven
    <2>5. UNCHANGED <<Waiting, Running>>
      BY <1>0, <2>1, <2>3, <2>4 DEF Waiting, Running
    <2> QED
      BY <1>10, <2>1, <2>5 DEF LoadDone, KeepsLock, Rests
  <1>11. CASE LoadFails
    BY <1>11, LeaveShape DEF LoadFails
  <1>12. CASE StartTask
    <2> DEFINE q == Launched(entry[table], "running", "boot")
    <2>1. /\ at = "ready" /\ table \in Entries /\ entry[table] \in EntryType
          /\ Edit(table, q) /\ ~Driven(table)
      BY <1>0, <1>12 DEF StartTask, ReadyFor, Launch
    <2>2. q \in EntryType /\ q.drives = 1 /\ q.followUps = entry[table].followUps
      BY <2>1, LaunchedEntry DEF Driven, EntryType
    <2> HIDE DEF q
    <2>3. Begins /\ UNCHANGED Waiting
      BY <1>0, <1>12, <2>1, <2>2, LaunchShape DEF StartTask, Launch
    <2> QED
      BY <1>0, <1>12, <2>1, <2>3
      DEF StartTask, Launch, Unlock, Record, GivesUp, StartsOwn, StartsNone
  <1>13. CASE QueueFollowUp
    <2> DEFINE q == [entry[table] EXCEPT !.followUps = Append(@, HeadOp.task), !.aged = FALSE]
    <2>1. /\ at = "ready" /\ held = table /\ table \in Entries /\ table # None /\ chain # <<>>
          /\ entry[table] \in EntryType /\ Driven(table) /\ Edit(table, q)
      BY <1>0, <1>13 DEF QueueFollowUp, ReadyFor
    <2>2. HeadOp \in Operations /\ HeadOp.kind = "queue"
      BY <1>13, <2>1 DEF RunsOK, TypeOK, QueueFollowUp, ReadyFor, HeadOp
    <2>3. HeadOp.task \in Tasks
      BY <2>2 DEF Operations, TaskKinds, CallerKinds
    <2>4. /\ entry'[table].followUps = Append(entry[table].followUps, HeadOp.task)
          /\ \A x \in Entries : entry'[x].drives = entry[x].drives
      BY <2>1 DEF Edit, RunsOK, TypeOK, EntryType
    <2>5. Running # {} /\ UNCHANGED Running
      BY <2>1, <2>4 DEF Running, Driven
    <2>6. Waiting = entry[table].followUps /\ Waiting' = Append(Waiting, HeadOp.task)
      BY <1>13, <2>1, <2>4 DEF Waiting, QueueFollowUp
    <2> QED
      BY <1>13, <2>1, <2>3, <2>5, <2>6 DEF QueueFollowUp, Unlock, GivesUp, Queues
  <1>14. CASE RefuseReady
    BY <1>14, LeaveShape DEF RefuseReady
  <1>15. CASE PreloadDone
    BY <1>15, LeaveShape DEF PreloadDone, ReadyFor
  <1>16. CASE AskGoalHook
    <2>1. HeadOp.kind # "goal"
      BY <1>16 DEF AskGoalHook, ReadyFor, DriveOK, ChainOK, HeadOp, RunsOK, TypeOK
    <2> QED
      BY <1>16, <2>1 DEF AskGoalHook, ReadyFor
  <1>17. CASE GoalHookRefuses
    BY <1>0, <1>17 DEF GoalHookRefuses
  <1>18. CASE StartGoal
    BY <1>0, <1>18 DEF StartGoal
  <1>19. CASE StartCompact
    <2> DEFINE q == Launched(entry[table], "compacting", "tail")
    <2>1. /\ at = "ready" /\ table \in Entries /\ entry[table] \in EntryType
          /\ Edit(table, q) /\ ~Driven(table)
      BY <1>0, <1>19 DEF StartCompact, ReadyFor
    <2>2. q \in EntryType /\ q.drives = 1 /\ q.followUps = entry[table].followUps
      BY <2>1, LaunchedEntry DEF Driven, EntryType
    <2> HIDE DEF q
    <2>3. Begins /\ UNCHANGED Waiting
      BY <1>0, <1>19, <2>1, <2>2, LaunchShape DEF StartCompact
    <2> QED
      BY <1>0, <1>19, <2>1, <2>3 DEF StartCompact, Unlock, GivesUp, StartsNone
  <1>20. CASE PullSwitchHead
    <2> DEFINE q == [entry[table] EXCEPT !.phase = "head", !.drives = @ + 1, !.abort = "armed"]
    <2>1. /\ at = "ready" /\ table \in Entries /\ entry[table] \in EntryType
          /\ Edit(table, q) /\ ~Driven(table)
      BY <1>0, <1>20 DEF PullSwitchHead, ReadyFor
    <2>2. entry[table].drives + 1 = 1
      BY <2>1 DEF Driven, EntryType
    <2>3. q \in EntryType /\ q.drives = 1 /\ q.followUps = entry[table].followUps
      <3>1. entry[table].drives + 1 \in Nat
        BY <2>2
      <3>2. q \in EntryType
        BY <2>1, <3>1 DEF EntryType
      <3>3. q.drives = 1 /\ q.followUps = entry[table].followUps
        BY <2>1, <2>2 DEF EntryType
      <3> QED
        BY <3>2, <3>3
    <2> HIDE DEF q
    <2>4. Begins /\ UNCHANGED Waiting
      BY <1>0, <1>20, <2>1, <2>3, LaunchShape DEF PullSwitchHead
    <2> QED
      BY <1>20, <2>1, <2>4 DEF PullSwitchHead, KeepsLock, StartsNone
  <1>21. CASE SwitchSettles
    <2>1. at = "head" /\ held \in Entries /\ chain # <<>> /\ Driven(held)
      BY <1>21, RunOf DEF SwitchSettles
    <2>2. /\ \A x \in Entries : entry'[x].followUps = entry[x].followUps
          /\ \A x \in Entries : x # held => entry'[x] = entry[x]
          /\ entry'[held].drives = entry[held].drives - 1
      BY <1>21, <2>1 DEF SwitchSettles, Disposed, Edit, RunsOK, TypeOK, EntryType
    <2>3. entry[held].drives = 1
      BY <2>1 DEF RunsOK, PhaseOK, Driven
    <2>4. Running # {} /\ Running' = {}
      BY <2>1, <2>2, <2>3 DEF Running, Driven, DriveOK, MutualExclusion
    <2>5. UNCHANGED Waiting
      BY <1>21, <2>2 DEF SwitchSettles, Waiting
    <2> QED
      BY <1>21, <2>1, <2>4, <2>5 DEF SwitchSettles, Unlock, GivesUp, Ends
  <1>22. CASE SwitchStreams
    <2>1. at = "head" /\ held \in Entries /\ chain # <<>>
      BY <1>22 DEF SwitchStreams
    <2>2. \A x \in Entries : /\ entry'[x].drives = entry[x].drives
                             /\ entry'[x].followUps = entry[x].followUps
      BY <1>22, <2>1 DEF SwitchStreams, Edit, RunsOK, TypeOK, EntryType
    <2> QED
      BY <1>22, <2>1, <2>2, SameShape DEF SwitchStreams, Unlock, GivesUp, Rests
  <1>23. CASE StartSnapshot
    <2>1. CASE table # None /\ ~Idle(table)
      BY <1>23, <2>1, LeaveShape DEF StartSnapshot, Waits
    <2>2. CASE ~(table # None /\ ~Idle(table))
      BY <1>23, <2>2, GoToShape DEF StartSnapshot, CallerKinds
    <2> QED
      BY <2>1, <2>2
  <1>24. CASE EndSnapshot
    BY <1>24, LeaveShape DEF EndSnapshot
  <1>25. CASE StartQueuedFollowUp
    <2>1. CASE Accepting /\ table # None /\ Idle(table) /\ entry[table].followUps # <<>>
      <3> DEFINE r == [entry[table] EXCEPT !.followUps = Tail(@)]
                 q == Launched(r, "running", "boot")
      <3>1. /\ table \in Entries /\ entry[table] \in EntryType /\ chain # <<>>
            /\ Launch(table, r, Head(entry[table].followUps)) /\ at = "idle"
        BY <1>25, <2>1 DEF StartQueuedFollowUp, Waits
      <3>2. ~Driven(table) /\ entry[table].drives = 0 /\ ~marked
        BY <2>1, <3>1, RunOf DEF Driven, EntryType, Accepting
      <3>3. Tail(entry[table].followUps) \in Seq(Tasks)
        BY <2>1, <3>1 DEF EntryType
      <3>4. r \in EntryType /\ r.drives = 0 /\ r.followUps = Tail(entry[table].followUps)
        BY <3>1, <3>2, <3>3 DEF EntryType
      <3> HIDE DEF r
      <3>5. q \in EntryType /\ q.drives = 1 /\ q.followUps = Tail(entry[table].followUps)
        BY <3>4, LaunchedEntry
      <3>6. Edit(table, q) /\ UNCHANGED table
        BY <3>1 DEF Launch
      <3> HIDE DEF q
      <3>7. Begins /\ Waiting' = Tail(Waiting) /\ Waiting = entry[table].followUps
        BY <2>1, <3>1, <3>2, <3>5, <3>6, AtGate, LaunchShape
      <3> QED
        BY <2>1, <3>1, <3>7 DEF Launch, Unlock, GivesUp, StartsNext
    <2>2. CASE ~(Accepting /\ table # None /\ Idle(table) /\ entry[table].followUps # <<>>)
      BY <1>25, <2>2, LeaveShape DEF StartQueuedFollowUp, Waits
    <2> QED
      BY <2>1, <2>2
  <1>26. CASE StartBackgroundNoticeTask
    <2>1. CASE Leave
      BY <1>26, <2>1, LeaveShape DEF StartBackgroundNoticeTask, Waits
    <2>2. CASE ~Leave
      <3> DEFINE r == [entry[table] EXCEPT !.notices = {}]
                 q == Launched(r, "running", "boot")
      <3>1. /\ table \in Entries /\ entry[table] \in EntryType /\ chain # <<>> /\ Accepting
            /\ Launch(table, r, NoTask) /\ at = "idle" /\ Idle(table)
        BY <1>26, <2>2 DEF StartBackgroundNoticeTask, Waits
      <3>2. ~Driven(table) /\ entry[table].drives = 0 /\ ~marked
        BY <3>1, RunOf DEF Driven, EntryType, Accepting
      <3>3. r \in EntryType /\ r.drives = 0 /\ r.followUps = entry[table].followUps
        BY <3>1, <3>2 DEF EntryType
      <3> HIDE DEF r
      <3>4. q \in EntryType /\ q.drives = 1 /\ q.followUps = entry[table].followUps
        BY <3>3, LaunchedEntry
      <3>5. Edit(table, q) /\ UNCHANGED table
        BY <3>1 DEF Launch
      <3> HIDE DEF q
      <3>6. Begins /\ UNCHANGED Waiting
        BY <3>1, <3>2, <3>4, <3>5, AtGate, LaunchShape
      <3> QED
        BY <3>1, <3>6, ConstantsAssumption DEF Launch, Unlock, Record, GivesUp, StartsNone
    <2> QED
      BY <2>1, <2>2
  <1> QED
    BY <1>1, <1>2, <1>3, <1>4, <1>5, <1>6, <1>7, <1>8, <1>9, <1>10, <1>11, <1>12, <1>13,
       <1>14, <1>15, <1>16, <1>17, <1>18, <1>19, <1>20, <1>21, <1>22, <1>23, <1>24, <1>25,
       <1>26 DEF LockStep

\* Beside the lock: nothing but a notice scheduled, the end of the run with what it schedules,
\* an input joining the chain, a recall, and the release of what waits.
Asides == Rests /\ (UNCHANGED chain \/ (Yielded /\ chain' = Append(chain, StartNotice)))
RunEnds ==
    /\ Ends /\ chain = <<>> /\ at = "idle"
    /\ chain' = <<StartFollowUp>> \/ chain' = <<StartNotice>>
Joins(k, t) == Submit(k, t) /\ UNCHANGED <<Waiting, Running>>
Recalls(i) ==
    /\ Record(Waiting[i], "recalled")
    /\ Waiting' = RemoveAt(Waiting, i)
    /\ UNCHANGED <<chain, Running>>
Releases ==
    /\ Waiting' = <<>>
    /\ fate' = [t \in Tasks |-> IF \E i \in 1..Len(Waiting) : Waiting[i] = t
                                THEN "released" ELSE fate[t]]
    /\ UNCHANGED <<chain, Running>>
Besides ==
    /\ UNCHANGED at
    /\ \/ Asides \/ RunEnds \/ Releases
       \/ \E k \in Kinds, t \in Tasks \cup {NoTask} : Joins(k, t)
       \/ \E i \in 1..Len(Waiting) : Recalls(i)

\* A run ends, when nobody holds the lock: a run beside the pull of a switch there is not.
LEMMA DriveEndsShape ==
    ASSUME Steady, RunsOK, DriveOK, NEW e \in Entries, DriveEnds(e)
    PROVE  Besides
  <1>1. Driven(e) /\ entry[e].drives = 1 /\ entry[e].phase = "tail" /\ Yielded
    BY DEF DriveEnds, Driven, RunsOK, PhaseOK
  <1>2. at = "idle" /\ chain = <<>>
    <2>1. at \notin {"load", "snapshot", "refresh", "ready", "check", "hook"}
      BY <1>1 DEF DriveOK, QuietOK, HandOK, Yielded, Turn, Steady
    <2>2. at # "head"
      BY <1>1, RunOf, Holding DEF DriveOK, MutualExclusion, RunsOK, PhaseOK
    <2> QED
      BY <1>1, <2>1, <2>2 DEF Yielded, RunsOK, TypeOK, Points
  <1>3. /\ \A x \in Entries : entry'[x].followUps = entry[x].followUps
        /\ \A x \in Entries : x # e => entry'[x] = entry[x]
        /\ entry'[e].drives = entry[e].drives - 1
    BY DEF DriveEnds, Disposed, Edit, RunsOK, TypeOK, EntryType
  <1>4. Running # {} /\ Running' = {}
    BY <1>1, <1>3 DEF Running, Driven, DriveOK, MutualExclusion
  <1>5. UNCHANGED Waiting
    BY <1>3, Holding DEF DriveEnds, Waiting
  <1>6. chain' = <<StartFollowUp>> \/ chain' = <<StartNotice>>
    BY <1>2 DEF DriveEnds, Behind
  <1> QED
    BY <1>2, <1>4, <1>5, <1>6 DEF DriveEnds, Besides, RunEnds, Ends

\* What a run does besides ending is nothing to the callers.
LEMMA RunShape ==
    ASSUME Steady, RunsOK, DriveOK, NEW e \in 1..made, RunStep(e)
    PROVE  Besides
  <1>0. e \in Entries
    BY MadeEntry DEF RunsOK
  <1>1. /\ UNCHANGED <<table, at, fate>> /\ Yielded
        /\ \A x \in Entries : /\ entry'[x].drives = entry[x].drives
                              /\ entry'[x].followUps = entry[x].followUps
        /\ UNCHANGED chain \/ chain' = Append(chain, StartNotice)
        => Besides
    BY SameShape DEF Besides, Asides, Rests
  <1>2. CASE EngineStarts(e)
    BY <1>0, <1>1, <1>2 DEF EngineStarts, lockVars, Edit, RunsOK, TypeOK, EntryType
  <1>3. CASE EngineDelivers(e)
    BY <1>0, <1>1, <1>3 DEF EngineDelivers, lockVars, Edit, RunsOK, TypeOK, EntryType
  <1>4. CASE EngineExits(e)
    BY <1>0, <1>1, <1>4 DEF EngineExits, lockVars, Edit, RunsOK, TypeOK, EntryType
  <1>5. CASE DriveEnds(e)
    BY <1>0, <1>5, DriveEndsShape
  <1>6. ASSUME NEW n \in Notices, StartBackground(e, n) PROVE Besides
    BY <1>0, <1>1, <1>6 DEF StartBackground, lockVars, Edit, RunsOK, TypeOK, EntryType
  <1>7. ASSUME NEW n \in Notices, BackgroundDone(e, n) PROVE Besides
    BY <1>0, <1>1, <1>7 DEF BackgroundDone, Edit, RunsOK, TypeOK, EntryType
  <1>8. CASE AskApproval(e)
    BY <1>0, <1>1, <1>8 DEF AskApproval, lockVars, Edit, RunsOK, TypeOK, EntryType
  <1> QED
    BY <1>2, <1>3, <1>4, <1>5, <1>6, <1>7, <1>8 DEF RunStep

\* The callers submit, recall, stop and answer.
LEMMA PersonShape ==
    ASSUME RunsOK, PersonStep
    PROVE  Besides
  <1>0. table # None => table \in Entries
    BY Holding
  <1>1. ASSUME NEW k \in Kinds, NEW t \in Tasks \cup {NoTask}, Submit(k, t) PROVE Besides
    <2>1. UNCHANGED <<Waiting, Running>>
      BY <1>1, SameShape DEF Submit
    <2> QED
      BY <1>1, <2>1 DEF Submit, Besides, Joins
  <1>2. CASE DecideApproval
    <2>1. UNCHANGED <<Waiting, Running>>
      BY <1>0, <1>2, SameShape DEF DecideApproval, Edit, RunsOK, TypeOK, EntryType
    <2> QED
      BY <1>2, <2>1 DEF DecideApproval, lockVars, Besides, Asides, Rests
  <1>3. CASE AbortTask
    <2>1. UNCHANGED <<Waiting, Running>>
      BY <1>0, <1>3, SameShape DEF AbortTask, Edit, RunsOK, TypeOK, EntryType
    <2> QED
      BY <1>3, <2>1 DEF AbortTask, lockVars, Besides, Asides, Rests
  <1>4. ASSUME NEW i \in 1..Cardinality(Tasks), RecallFollowUp(i) PROVE Besides
    <2>1. /\ table \in Entries /\ table # None /\ UNCHANGED <<table, chain, at>>
          /\ i \in 1..Len(Waiting) /\ Waiting = entry[table].followUps
          /\ Record(Waiting[i], "recalled")
      BY <1>0, <1>4 DEF RecallFollowUp, lockVars, Waiting
    <2>2. /\ entry'[table].followUps = RemoveAt(entry[table].followUps, i)
          /\ \A x \in Entries : entry'[x].drives = entry[x].drives
      BY <1>4, <2>1 DEF RecallFollowUp, Edit, RunsOK, TypeOK, EntryType
    <2>3. Waiting' = RemoveAt(Waiting, i) /\ UNCHANGED Running
      BY <2>1, <2>2 DEF Waiting, Running, Driven
    <2> QED
      BY <2>1, <2>3 DEF Besides, Recalls
  <1> QED
    BY <1>1, <1>2, <1>3, <1>4 DEF PersonStep

\* What waits goes with the entry.
LEMMA TakeOffShape ==
    ASSUME RunsOK, TakeOffTable, UNCHANGED lockVars
    PROVE  Besides
  <1>1. UNCHANGED Running /\ table' = None /\ Waiting' = <<>>
    BY TakenOff DEF Running, Waiting
  <1>2. CASE table = None
    BY <1>1, <1>2 DEF TakeOffTable, lockVars, Besides, Asides, Rests, Waiting
  <1>3. CASE table # None
    BY <1>1, <1>3 DEF TakeOffTable, lockVars, Besides, Releases, Waiting
  <1> QED
    BY <1>2, <1>3

\* What happens outside the Session is nothing to the callers but a release.
LEMMA OutsideShape ==
    ASSUME RunsOK, OutsideStep
    PROVE  Besides
  <1>0. table # None => table \in Entries
    BY Holding
  <1>1. UNCHANGED <<Waiting, Running, fate, chain, at>> => Besides
    BY DEF Besides, Asides, Rests
  <1>2. ASSUME NEW other \in BOOLEAN, CredentialsChange(other) PROVE Besides
    <2>1. UNCHANGED <<Waiting, Running>>
      BY <1>2, SameShape DEF CredentialsChange, RunsOK, TypeOK, EntryType
    <2> QED
      BY <1>1, <1>2, <2>1 DEF CredentialsChange
  <1>3. CASE GrowsOld
    <2>1. UNCHANGED <<Waiting, Running>>
      BY <1>0, <1>3, SameShape DEF GrowsOld, Edit, RunsOK, TypeOK, EntryType
    <2> QED
      BY <1>1, <1>3, <2>1 DEF GrowsOld, lockVars
  <1>4. CASE SweepIdle
    BY <1>1, <1>4 DEF SweepIdle, Waiting, Running, Driven, lockVars
  <1>5. CASE BeginSessionDeletion
    BY <1>5, TakeOffShape DEF BeginSessionDeletion
  <1>6. CASE DeletionSettles
    BY <1>1, <1>6 DEF DeletionSettles, Waiting, Running, Driven, lockVars
  <1>7. CASE EndSessionDeletion
    BY <1>1, <1>7 DEF EndSessionDeletion, Waiting, Running, Driven, lockVars
  <1>8. CASE Shutdown
    BY <1>8, TakeOffShape DEF Shutdown
  <1> QED
    BY <1>2, <1>3, <1>4, <1>5, <1>6, <1>7, <1>8 DEF OutsideStep

\* Every step has one of the shapes.
LEMMA StepShape ==
    ASSUME Steady, RunsOK, QueueOK, DriveOK, SwiftOK, [Next]_vars
    PROVE  GivesUp \/ KeepsLock \/ Besides
  <1>1. CASE LockStep
    BY <1>1, LockShape
  <1>2. ASSUME NEW e \in 1..made, RunStep(e) PROVE Besides
    BY <1>2, RunShape
  <1>3. CASE PersonStep
    BY <1>3, PersonShape
  <1>4. CASE OutsideStep
    BY <1>4, OutsideShape
  <1>5. CASE UNCHANGED vars
    BY <1>5 DEF vars, Besides, Asides, Rests, Waiting, Running, Driven
  <1> QED
    BY <1>1, <1>2, <1>3, <1>4, <1>5 DEF Next

-----------------------------------------------------------------------------
(* The scheduled operations *)

\* What leaves the head of the chain, and what joins its end.
LEMMA TailScheduled ==
    ASSUME TypeOK, chain # <<>>, chain' = Tail(chain)
    PROVE  /\ InChain(StartFollowUp)' => InChain(StartFollowUp)
           /\ InChain(StartNotice) /\ HeadOp # StartNotice => InChain(StartNotice)'
  <1>1. /\ Len(chain) \in Nat /\ Len(Tail(chain)) = Len(chain) - 1
        /\ \A i \in 1..Len(Tail(chain)) : Tail(chain)[i] = chain[i + 1]
        /\ HeadOp = chain[1]
    BY DEF TypeOK, HeadOp
  <1>2. InChain(StartFollowUp)' => InChain(StartFollowUp)
    BY <1>1 DEF InChain, StartFollowUp, Op
  <1>3. ASSUME NEW i \in 1..Len(chain), chain[i] = StartNotice, i # 1
        PROVE  i - 1 \in 1..Len(Tail(chain)) /\ Tail(chain)[i - 1] = StartNotice
    BY <1>1, <1>3
  <1>4. InChain(StartNotice) /\ HeadOp # StartNotice => InChain(StartNotice)'
    BY <1>1, <1>3 DEF InChain, StartNotice, Op
  <1> QED
    BY <1>2, <1>4

\* What joins the end of the chain leaves the rest of it scheduled.
LEMMA AppendScheduled ==
    ASSUME TypeOK, NEW op \in Operations, chain' = Append(chain, op)
    PROVE  /\ InChain(StartFollowUp)' => InChain(StartFollowUp) \/ op = StartFollowUp
           /\ InChain(StartNotice) \/ op = StartNotice => InChain(StartNotice)'
  <1>1. /\ Len(chain) \in Nat /\ Len(chain') = Len(chain) + 1
        /\ \A i \in 1..Len(chain) : chain'[i] = chain[i]
        /\ chain'[Len(chain) + 1] = op
    BY DEF TypeOK
  <1>2. InChain(StartFollowUp)' => InChain(StartFollowUp) \/ op = StartFollowUp
    BY <1>1 DEF InChain, StartFollowUp, Op
  <1>3. Len(chain) + 1 \in 1..Len(chain')
    BY <1>1
  <1>4. InChain(StartNotice) \/ op = StartNotice => InChain(StartNotice)'
    BY <1>1, <1>3 DEF InChain, StartNotice, Op
  <1> QED
    BY <1>2, <1>4

\* An auto-start is scheduled only by a run's end, when the chain is empty, and has left it
\* before anything else can join.
LEMMA SwiftStep ==
    ASSUME Steady, RunsOK, QueueOK, DriveOK, SwiftOK, [Next]_vars
    PROVE  SwiftOK'
  <1> USE DEF SwiftOK
  <1>1. CASE GivesUp
    <2>1. InChain(StartFollowUp)' => InChain(StartFollowUp)
      BY <1>1, TailScheduled DEF GivesUp, RunsOK
    <2>2. chain = <<StartFollowUp>> => chain' = <<>>
      BY <1>1 DEF GivesUp
    <2>3. chain' = <<>> => ~InChain(StartFollowUp)'
      BY DEF InChain
    <2> QED
      BY <2>1, <2>2, <2>3
  <1>2. CASE KeepsLock
    <2>1. InChain(StartFollowUp)' => InChain(StartFollowUp)
      BY <1>2 DEF KeepsLock, InChain, StartFollowUp, Op
    <2>2. ~InChain(StartFollowUp)
      BY <1>2 DEF KeepsLock, HeadOp
    <2> QED
      BY <2>1, <2>2
  <1>3. Yielded => ~InChain(StartFollowUp)
    BY DEF Yielded
  <1>4. ASSUME UNCHANGED <<chain, at>> PROVE SwiftOK'
    BY <1>4 DEF InChain, StartFollowUp, Op
  <1>5. ASSUME Yielded, NEW op \in Operations, op # StartFollowUp, chain' = Append(chain, op)
        PROVE  SwiftOK'
    BY <1>3, <1>5, AppendScheduled DEF RunsOK
  <1>6. CASE Besides
    <2>1. CASE Asides
      <3>1. StartNotice \in Operations /\ StartNotice # StartFollowUp
        BY DEF StartNotice, StartFollowUp, Op, Operations
      <3> QED
        BY <1>4, <1>5, <1>6, <2>1, <3>1 DEF Asides, Besides
    <2>2. CASE RunEnds
      <3>1. at' = "idle"
        BY <1>6, <2>2 DEF RunEnds, Besides
      <3>2. CASE chain' = <<StartFollowUp>>
        BY <3>1, <3>2 DEF StartFollowUp, Op
      <3>3. CASE chain' = <<StartNotice>>
        <4>1. ~InChain(StartFollowUp)'
          BY <3>3 DEF InChain, StartNotice, StartFollowUp, Op
        <4> QED
          BY <4>1
      <3> QED
        BY <2>2, <3>2, <3>3 DEF RunEnds
    <2>3. CASE Releases
      BY <1>4, <1>6, <2>3 DEF Releases, Besides
    <2>4. ASSUME NEW k \in Kinds, NEW t \in Tasks \cup {NoTask}, Joins(k, t) PROVE SwiftOK'
      <3>1. Op(k, t) \in Operations /\ Op(k, t) # StartFollowUp
        BY <2>4, ConstantsAssumption
        DEF Joins, Submit, Op, Operations, StartFollowUp, TaskKinds, CallerKinds
      <3> QED
        BY <1>5, <2>4, <3>1 DEF Joins, Submit
    <2>5. ASSUME NEW i \in 1..Len(Waiting), Recalls(i) PROVE SwiftOK'
      BY <1>4, <1>6, <2>5 DEF Recalls, Besides
    <2> QED
      BY <1>6, <2>1, <2>2, <2>3, <2>4, <2>5 DEF Besides
  <1> QED
    BY <1>1, <1>2, <1>6, StepShape

-----------------------------------------------------------------------------
(* The inputs *)

\* An input in the chain is waiting and is there once; one behind the run is queued and is
\* there once; and nothing reads queued that is not behind the run.
OwnOK ==
    /\ \A i \in 1..Len(chain) : chain[i].task \in Tasks => fate[chain[i].task] = "waiting"
    /\ \A i, j \in 1..Len(chain) : chain[i].task \in Tasks /\ chain[i].task = chain[j].task => i = j
QueuedOK ==
    /\ \A i \in 1..Len(Waiting) : fate[Waiting[i]] = "queued"
    /\ \A i, j \in 1..Len(Waiting) : Waiting[i] = Waiting[j] => i = j
    /\ \A t \in Tasks : fate[t] = "queued" => \E i \in 1..Len(Waiting) : Waiting[i] = t
TasksOK == OwnOK /\ QueuedOK

\* What waits is a sequence of inputs.
LEMMA WaitingSeq ==
    ASSUME RunsOK
    PROVE  Waiting \in Seq(Tasks)
  BY Holding DEF Waiting, EntryType

\* The lock's holder leaves with what became of its input.
LEMMA GivesUpTasks ==
    ASSUME RunsOK, TasksOK, GivesUp
    PROVE  TasksOK'
  <1>1. /\ Len(chain) \in Nat /\ Len(chain) > 0 /\ Len(chain') = Len(chain) - 1
        /\ \A i \in 1..Len(chain') : chain'[i] = chain[i + 1]
        /\ HeadOp = chain[1]
    BY DEF RunsOK, TypeOK, GivesUp, HeadOp
  <1>2. HeadOp.task \in Tasks =>
          /\ fate[HeadOp.task] = "waiting"
          /\ \A i \in 1..Len(chain') : chain'[i].task # HeadOp.task
    BY <1>1 DEF TasksOK, OwnOK
  <1>3. /\ \A i \in 1..Len(chain') : chain'[i].task \in Tasks => fate[chain'[i].task] = "waiting"
        /\ \A i, j \in 1..Len(chain') :
              chain'[i].task \in Tasks /\ chain'[i].task = chain'[j].task => i = j
    BY <1>1, SMTT(30) DEF TasksOK, OwnOK
  <1>4. /\ Waiting \in Seq(Tasks) /\ Len(Waiting) \in Nat /\ fate \in [Tasks -> Fates]
        /\ \A i \in 1..Len(Waiting) : Waiting[i] \in Tasks /\ fate[Waiting[i]] = "queued"
        /\ \A i, j \in 1..Len(Waiting) : Waiting[i] = Waiting[j] => i = j
        /\ \A t \in Tasks : fate[t] = "queued" => \E i \in 1..Len(Waiting) : Waiting[i] = t
    BY WaitingSeq DEF RunsOK, TypeOK, TasksOK, QueuedOK
  <1>5. ASSUME UNCHANGED <<fate, Waiting>> PROVE TasksOK'
    BY <1>3, <1>4, <1>5 DEF TasksOK, OwnOK, QueuedOK
  <1>6. ASSUME HeadOp.task \in Tasks, NEW what \in {"refused", "started"},
               Record(HeadOp.task, what), UNCHANGED Waiting
        PROVE  TasksOK'
    <2>1. /\ fate'[HeadOp.task] = what
          /\ \A t \in Tasks : t # HeadOp.task => fate'[t] = fate[t]
      BY <1>4, <1>6 DEF Record
    <2>2. OwnOK'
      BY <1>2, <1>3, <2>1 DEF OwnOK
    <2>3. QueuedOK'
      BY <1>2, <1>4, <1>6, <2>1 DEF QueuedOK
    <2> QED
      BY <2>2, <2>3 DEF TasksOK
  <1>7. CASE StartsNext
    <2>1. /\ Waiting # <<>> /\ Waiting' = Tail(Waiting)
          /\ Head(Waiting) \in Tasks /\ Head(Waiting) = Waiting[1] /\ Len(Waiting) > 0
          /\ Len(Waiting') = Len(Waiting) - 1
          /\ \A i \in 1..Len(Waiting') : Waiting'[i] = Waiting[i + 1]
      BY <1>4, <1>7 DEF StartsNext
    <2>2. /\ fate'[Waiting[1]] = "started"
          /\ \A t \in Tasks : t # Waiting[1] => fate'[t] = fate[t]
      BY <1>4, <1>7, <2>1 DEF StartsNext, Record
    <2>3. OwnOK'
      BY <1>3, <1>4, <2>1, <2>2 DEF OwnOK
    <2>4. \A t \in Tasks : fate'[t] = "queued" => \E i \in 1..Len(Waiting') : Waiting'[i] = t
      <3> SUFFICES ASSUME NEW t \in Tasks, fate'[t] = "queued"
                   PROVE  \E i \in 1..Len(Waiting') : Waiting'[i] = t
        OBVIOUS
      <3>1. fate[t] = "queued" /\ t # Waiting[1]
        BY <2>2
      <3>2. PICK i \in 1..Len(Waiting) : Waiting[i] = t
        BY <1>4, <3>1
      <3>3. i # 1 /\ i - 1 \in 1..Len(Waiting') /\ Waiting'[i - 1] = t
        BY <1>4, <2>1, <3>1, <3>2
      <3> QED
        BY <3>3
    <2>5. QueuedOK'
      BY <1>4, <2>1, <2>2, <2>4 DEF QueuedOK
    <2> QED
      BY <2>3, <2>5 DEF TasksOK
  <1>8. CASE Queues
    <2>1. /\ HeadOp.task \in Tasks /\ Len(Waiting') = Len(Waiting) + 1
          /\ Waiting'[Len(Waiting) + 1] = HeadOp.task
          /\ \A i \in 1..Len(Waiting) : Waiting'[i] = Waiting[i]
      BY <1>4, <1>8 DEF Queues
    <2>2. /\ fate'[HeadOp.task] = "queued"
          /\ \A t \in Tasks : t # HeadOp.task => fate'[t] = fate[t]
      BY <1>4, <1>8 DEF Queues, Record
    <2>3. OwnOK'
      BY <1>2, <1>3, <2>2 DEF OwnOK
    <2>4. \A t \in Tasks : fate'[t] = "queued" => \E i \in 1..Len(Waiting') : Waiting'[i] = t
      <3>1. Len(Waiting) + 1 \in 1..Len(Waiting')
        BY <1>4, <2>1
      <3> QED
        BY <1>4, <2>1, <2>2, <3>1
    <2>5. QueuedOK'
      BY <1>2, <1>4, <2>1, <2>2, <2>4, SMTT(30) DEF QueuedOK
    <2> QED
      BY <2>3, <2>5 DEF TasksOK
  <1> QED
    BY <1>5, <1>6, <1>7, <1>8
    DEF GivesUp, Rests, Refuses, StartsOwn, StartsNone, Ends, StartsNext

\* RemoveAt takes one element out and closes the gap.
LEMMA RemoveAtSeq ==
    ASSUME NEW S, NEW q \in Seq(S), NEW i \in 1..Len(q)
    PROVE  /\ Len(RemoveAt(q, i)) = Len(q) - 1
           /\ \A j \in 1..(Len(q) - 1) :
                 /\ j < i => RemoveAt(q, i)[j] = q[j]
                 /\ j >= i => RemoveAt(q, i)[j] = q[j + 1]
  <1> DEFINE a == SubSeq(q, 1, i - 1)
             b == SubSeq(q, i + 1, Len(q))
  <1>1. Len(q) \in Nat
    OBVIOUS
  <1>2. /\ a \in Seq(S) /\ Len(a) = i - 1
        /\ \A j \in 1..(i - 1) : a[j] = q[j]
    BY <1>1
  <1>3. /\ b \in Seq(S) /\ Len(b) = Len(q) - i
        /\ \A j \in 1..(Len(q) - i) : b[j] = q[i + j]
    BY <1>1
  <1>4. RemoveAt(q, i) = a \o b
    BY DEF RemoveAt
  <1> HIDE DEF a, b
  <1>5. /\ Len(a \o b) = Len(a) + Len(b)
        /\ \A j \in 1..(Len(a) + Len(b)) :
              /\ j <= Len(a) => (a \o b)[j] = a[j]
              /\ j > Len(a) => (a \o b)[j] = b[j - Len(a)]
    <2>1. /\ Len(a \o b) = Len(a) + Len(b)
          /\ \A j \in 1..(Len(a) + Len(b)) :
                (a \o b)[j] = IF j <= Len(a) THEN a[j] ELSE b[j - Len(a)]
      BY <1>2, <1>3, ConcatProperties, Zenon
    <2>2. Len(a) \in Nat /\ Len(b) \in Nat
      BY <1>2, <1>3
    <2> QED
      BY <2>1, <2>2
  <1>6. ASSUME NEW j \in 1..(Len(q) - 1), j >= i PROVE (a \o b)[j] = q[j + 1]
    <2>1. j - (i - 1) \in 1..(Len(q) - i) /\ ~(j <= i - 1) /\ i + (j - (i - 1)) = j + 1
      BY <1>1, <1>6
    <2>2. (a \o b)[j] = b[j - (i - 1)]
      BY <1>1, <1>2, <1>3, <1>5, <2>1
    <2> QED
      BY <1>3, <2>1, <2>2
  <1>7. ASSUME NEW j \in 1..(Len(q) - 1), j < i PROVE (a \o b)[j] = q[j]
    BY <1>1, <1>2, <1>3, <1>5, <1>7
  <1>8. Len(a \o b) = Len(q) - 1
    BY <1>1, <1>2, <1>3, <1>5
  <1> QED
    BY <1>4, <1>6, <1>7, <1>8

\* What happens beside the lock.
LEMMA BesidesTasks ==
    ASSUME RunsOK, TasksOK, Besides
    PROVE  TasksOK'
  <1>1. /\ Waiting \in Seq(Tasks) /\ Len(Waiting) \in Nat /\ fate \in [Tasks -> Fates]
        /\ \A i \in 1..Len(Waiting) : Waiting[i] \in Tasks /\ fate[Waiting[i]] = "queued"
        /\ \A i, j \in 1..Len(Waiting) : Waiting[i] = Waiting[j] => i = j
        /\ \A t \in Tasks : fate[t] = "queued" => \E i \in 1..Len(Waiting) : Waiting[i] = t
    BY WaitingSeq DEF RunsOK, TypeOK, TasksOK, QueuedOK
  <1>2. ASSUME UNCHANGED <<fate, Waiting>>,
               NEW op \in {StartFollowUp, StartNotice}, chain' = Append(chain, op)
        PROVE  TasksOK'
    <2>1. /\ Len(chain) \in Nat /\ Len(chain') = Len(chain) + 1
          /\ \A i \in 1..Len(chain) : chain'[i] = chain[i]
          /\ chain'[Len(chain) + 1] = op
      BY <1>2 DEF RunsOK, TypeOK
    <2>2. op.task \notin Tasks
      BY ConstantsAssumption DEF StartFollowUp, StartNotice, Op
    <2>3. OwnOK'
      BY <1>2, <2>1, <2>2 DEF TasksOK, OwnOK
    <2> QED
      BY <1>1, <1>2, <2>3 DEF TasksOK, QueuedOK
  <1>3. CASE Asides
    <2>1. CASE UNCHANGED chain
      BY <1>3, <2>1 DEF Asides, Rests, TasksOK, OwnOK, QueuedOK
    <2> QED
      BY <1>2, <1>3, <2>1 DEF Asides, Rests
  <1>4. CASE RunEnds
    <2>1. \E op \in {StartFollowUp, StartNotice} : chain' = Append(chain, op)
      BY <1>4 DEF RunEnds
    <2> QED
      BY <1>2, <1>4, <2>1 DEF RunEnds, Ends
  <1>5. CASE Releases
    <2>1. \A t \in Tasks : fate[t] = "waiting" => fate'[t] = "waiting"
      BY <1>1, <1>5 DEF Releases
    <2>2. \A t \in Tasks : fate'[t] # "queued"
      BY <1>1, <1>5 DEF Releases
    <2>3. OwnOK'
      BY <1>5, <2>1 DEF Releases, TasksOK, OwnOK
    <2>4. QueuedOK'
      BY <1>5, <2>2 DEF Releases, QueuedOK
    <2> QED
      BY <2>3, <2>4 DEF TasksOK
  <1>6. ASSUME NEW k \in Kinds, NEW t \in Tasks \cup {NoTask}, Joins(k, t) PROVE TasksOK'
    <2>1. /\ Len(chain) \in Nat /\ Len(chain') = Len(chain) + 1
          /\ \A i \in 1..Len(chain) : chain'[i] = chain[i]
          /\ chain'[Len(chain) + 1] = Op(k, t) /\ Op(k, t).task = t
      BY <1>6 DEF Joins, Submit, RunsOK, TypeOK, Op
    <2>2. t \in Tasks =>
            /\ fate[t] = "new" /\ fate'[t] = "waiting"
            /\ \A s \in Tasks : s # t => fate'[s] = fate[s]
      BY <1>1, <1>6, ConstantsAssumption DEF Joins, Submit, Record
    <2>3. t \notin Tasks => UNCHANGED fate
      BY <1>6 DEF Joins, Submit, Record
    <2>4. OwnOK'
      BY <2>1, <2>2, <2>3, SMTT(30) DEF TasksOK, OwnOK
    <2>5. QueuedOK'
      BY <1>1, <1>6, <2>2, <2>3 DEF Joins, QueuedOK
    <2> QED
      BY <2>4, <2>5 DEF TasksOK
  <1>7. ASSUME NEW i \in 1..Len(Waiting), Recalls(i) PROVE TasksOK'
    <2>1. /\ Len(Waiting') \in Nat /\ Len(Waiting') = Len(Waiting) - 1
          /\ \A j \in 1..Len(Waiting') :
                /\ j < i => Waiting'[j] = Waiting[j]
                /\ j >= i => Waiting'[j] = Waiting[j + 1]
      <3>1. Waiting' = RemoveAt(Waiting, i)
        BY <1>7 DEF Recalls
      <3>2. /\ Len(RemoveAt(Waiting, i)) = Len(Waiting) - 1
            /\ \A j \in 1..(Len(Waiting) - 1) :
                  /\ j < i => RemoveAt(Waiting, i)[j] = Waiting[j]
                  /\ j >= i => RemoveAt(Waiting, i)[j] = Waiting[j + 1]
        BY <1>1, RemoveAtSeq
      <3> QED
        BY <1>1, <3>1, <3>2
    <2>2. /\ fate'[Waiting[i]] = "recalled" /\ fate[Waiting[i]] = "queued"
          /\ \A t \in Tasks : t # Waiting[i] => fate'[t] = fate[t]
      BY <1>1, <1>7 DEF Recalls, Record
    <2>3. OwnOK'
      BY <1>1, <1>7, <2>2 DEF Recalls, TasksOK, OwnOK
    <2>4. \A t \in Tasks : fate'[t] = "queued" => \E j \in 1..Len(Waiting') : Waiting'[j] = t
      <3> SUFFICES ASSUME NEW t \in Tasks, fate'[t] = "queued"
                   PROVE  \E j \in 1..Len(Waiting') : Waiting'[j] = t
        OBVIOUS
      <3>1. PICK j \in 1..Len(Waiting) : Waiting[j] = t
        BY <1>1, <2>2
      <3>2. j # i
        BY <2>2, <3>1
      <3>3. CASE j < i
        BY <1>1, <2>1, <3>1, <3>3
      <3>4. CASE j > i
        <4>1. j - 1 \in 1..Len(Waiting') /\ Waiting'[j - 1] = t
          BY <1>1, <2>1, <3>1, <3>4
        <4> QED
          BY <4>1
      <3> QED
        BY <3>2, <3>3, <3>4
    <2>5. \A j \in 1..Len(Waiting') : fate'[Waiting'[j]] = "queued"
      BY <1>1, <2>1, <2>2
    <2>6. \A j, l \in 1..Len(Waiting') : Waiting'[j] = Waiting'[l] => j = l
      <3> SUFFICES ASSUME NEW j \in 1..Len(Waiting'), NEW l \in 1..Len(Waiting'),
                          Waiting'[j] = Waiting'[l]
                   PROVE  j = l
        OBVIOUS
      <3>1. /\ j \in 1..Len(Waiting) /\ j + 1 \in 1..Len(Waiting)
            /\ l \in 1..Len(Waiting) /\ l + 1 \in 1..Len(Waiting)
        BY <1>1, <2>1
      <3>2. CASE j < i /\ l < i
        BY <1>1, <2>1, <3>1, <3>2
      <3>3. CASE j >= i /\ l >= i
        <4>1. Waiting[j + 1] = Waiting[l + 1]
          BY <2>1, <3>3
        <4>2. j + 1 = l + 1
          BY <1>1, <3>1, <4>1
        <4> QED
          BY <4>2
      <3>4. CASE j < i /\ l >= i
        <4>1. j = l + 1
          BY <1>1, <2>1, <3>1, <3>4
        <4> QED
          BY <3>4, <4>1
      <3>5. CASE j >= i /\ l < i
        <4>1. Waiting[j + 1] = Waiting[l]
          BY <2>1, <3>5
        <4>2. j + 1 = l
          BY <1>1, <3>1, <4>1
        <4> QED
          BY <3>5, <4>2
      <3> QED
        BY <3>2, <3>3, <3>4, <3>5
    <2>7. QueuedOK'
      BY <2>4, <2>5, <2>6 DEF QueuedOK
    <2> QED
      BY <2>3, <2>7 DEF TasksOK
  <1> QED
    BY <1>3, <1>4, <1>5, <1>6, <1>7 DEF Besides

\* Every step keeps account of the inputs.
LEMMA TasksStep ==
    ASSUME Steady, RunsOK, QueueOK, DriveOK, SwiftOK, TasksOK, [Next]_vars
    PROVE  TasksOK'
  <1>1. CASE KeepsLock
    BY <1>1 DEF KeepsLock, Rests, StartsNone, TasksOK, OwnOK, QueuedOK
  <1> QED
    BY <1>1, StepShape, GivesUpTasks, BesidesTasks

-----------------------------------------------------------------------------
(* The mailbox *)

\* Each shape is an action of TaskMailbox, or a stutter.
LEMMA MailboxStep ==
    ASSUME Steady, RunsOK, QueueOK, DriveOK, SwiftOK, TasksOK, [Next]_vars
    PROVE  [Mailbox!Next]_(Mailbox!mailbox)
  <1> DEFINE busy == \E e \in Entries : Driven(e)
  <1>1. /\ busy <=> Running # {}
        /\ busy' <=> Running' # {}
    BY DEF Running
  <1>2. ASSUME Rests PROVE UNCHANGED Mailbox!mailbox
    BY <1>1, <1>2 DEF Rests, Mailbox!mailbox, Waiting
  <1>3. ASSUME StartsNone PROVE Mailbox!Occupy
    BY <1>1, <1>3 DEF StartsNone, Begins, Mailbox!Occupy, Waiting
  <1>4. ASSUME GivesUp, HeadOp.task \in Tasks PROVE fate[HeadOp.task] = "waiting"
    <2>1. Len(chain) > 0 /\ Len(chain) \in Nat /\ HeadOp = chain[1]
      BY <1>4 DEF GivesUp, HeadOp, RunsOK, TypeOK
    <2> QED
      BY <1>4, <2>1 DEF TasksOK, OwnOK
  <1>5. CASE GivesUp
    <2>1. CASE Refuses
      <3>1. Mailbox!Refuse(HeadOp.task)
        BY <1>1, <1>4, <1>5, <2>1
        DEF Refuses, Record, Mailbox!Refuse, Mailbox!Becomes, Waiting
      <3> QED
        BY <2>1, <3>1 DEF Refuses, Mailbox!Next
    <2>2. CASE StartsOwn
      <3>1. Mailbox!Start(HeadOp.task)
        BY <1>1, <1>4, <1>5, <2>2
        DEF StartsOwn, Begins, Record, Mailbox!Start, Mailbox!Becomes, Waiting
      <3> QED
        BY <2>2, <3>1 DEF StartsOwn, Mailbox!Next
    <2>3. CASE StartsNext
      <3>1. Head(Waiting) \in Tasks /\ fate[Head(Waiting)] = "queued"
        BY <2>3, WaitingSeq DEF StartsNext, TasksOK, QueuedOK
      <3>2. Mailbox!StartNext
        BY <1>1, <2>3, <3>1
        DEF StartsNext, Begins, Record, Mailbox!StartNext, Mailbox!Becomes, Waiting
      <3> QED
        BY <3>2 DEF Mailbox!Next
    <2>4. CASE Queues
      <3>1. Mailbox!Queue(HeadOp.task)
        BY <1>1, <1>4, <1>5, <2>4
        DEF Queues, Record, Mailbox!Queue, Mailbox!Becomes, Waiting
      <3> QED
        BY <2>4, <3>1 DEF Queues, Mailbox!Next
    <2>5. CASE Ends
      <3>1. Mailbox!Finish
        BY <1>1, <2>5 DEF Ends, Mailbox!Finish, Waiting
      <3> QED
        BY <3>1 DEF Mailbox!Next
    <2> QED
      BY <1>2, <1>3, <1>5, <2>1, <2>2, <2>3, <2>4, <2>5 DEF GivesUp, Mailbox!Next
  <1>6. CASE KeepsLock
    BY <1>2, <1>3, <1>6 DEF KeepsLock, Mailbox!Next
  <1>7. CASE Besides
    <2>1. CASE Asides
      BY <1>2, <2>1 DEF Asides
    <2>2. CASE RunEnds
      <3>1. Mailbox!Finish
        BY <1>1, <2>2 DEF RunEnds, Ends, Mailbox!Finish, Waiting
      <3> QED
        BY <3>1 DEF Mailbox!Next
    <2>3. CASE Releases
      <3>1. Mailbox!Release
        BY <1>1, <2>3 DEF Releases, Mailbox!Release, Waiting
      <3> QED
        BY <3>1 DEF Mailbox!Next
    <2>4. ASSUME NEW k \in Kinds, NEW t \in Tasks \cup {NoTask}, Joins(k, t)
          PROVE  [Mailbox!Next]_(Mailbox!mailbox)
      <3>1. CASE t \in Tasks
        <4>1. Mailbox!Submit(t)
          BY <1>1, <2>4, <3>1, ConstantsAssumption
          DEF Joins, Submit, Record, Mailbox!Submit, Mailbox!Becomes, Waiting
        <4> QED
          BY <3>1, <4>1 DEF Mailbox!Next
      <3>2. CASE t \notin Tasks
        BY <1>2, <2>4, <3>2 DEF Joins, Submit, Record, Rests
      <3> QED
        BY <3>1, <3>2
    <2>5. ASSUME NEW i \in 1..Len(Waiting), Recalls(i) PROVE [Mailbox!Next]_(Mailbox!mailbox)
      <3>1. Waiting[i] \in Tasks /\ fate[Waiting[i]] = "queued"
        BY WaitingSeq DEF TasksOK, QueuedOK
      <3>2. Mailbox!Recall(i)
        BY <1>1, <2>5, <3>1
        DEF Recalls, Record, RemoveAt, Mailbox!Recall, Mailbox!Becomes, Waiting
      <3>3. i \in 1..Len(IF table = None THEN <<>> ELSE entry[table].followUps)
        BY DEF Waiting
      <3> QED
        BY <3>2, <3>3 DEF Mailbox!Next
    <2> QED
      BY <1>7, <2>1, <2>2, <2>3, <2>4, <2>5 DEF Besides
  <1> QED
    BY <1>5, <1>6, <1>7, StepShape
-----------------------------------------------------------------------------
(* The notices *)

\* Until shutdown an auto-start that is scheduled will find a follow-up, and notices never
\* wait behind an idle entry that nothing will look at.
NoticeOK ==
    /\ ~closed
    /\ InChain(StartFollowUp) /\ table # None => Idle(table) /\ entry[table].followUps # <<>>
    /\ table # None /\ Idle(table) /\ entry[table].notices # {} =>
           InChain(StartNotice) \/ InChain(StartFollowUp)

\* Of the table's entry, a step that leaves it idle makes no notice.
NoNewNotice ==
    table' # None =>
        \/ entry'[table'].status # "idle"
        \/ entry'[table'].notices = {}
        \/ /\ UNCHANGED table /\ Idle(table)
           /\ entry'[table].notices = entry[table].notices

\* No auto-start is scheduled while somebody else holds the lock, nor while all waits.
LEMMA NoAutoStart ==
    ASSUME SwiftOK, (chain # <<>> /\ HeadOp # StartFollowUp) \/ Yielded
    PROVE  ~InChain(StartFollowUp)
  BY DEF SwiftOK, HeadOp, Yielded

\* A caller's operation keeps the lock or gives it up, and makes no notice.
LEMMA LockNotice ==
    ASSUME RunsOK, SwiftOK, NoticeOK, NoNewNotice, UNCHANGED closed,
           chain # <<>>, HeadOp.kind \in CallerKinds, chain' = chain \/ chain' = Tail(chain)
    PROVE  NoticeOK'
  <1>1. HeadOp # StartFollowUp /\ HeadOp # StartNotice
    BY DEF StartFollowUp, StartNotice, Op, CallerKinds
  <1>2. ~InChain(StartFollowUp)
    BY <1>1, NoAutoStart
  <1>3. /\ ~InChain(StartFollowUp)'
        /\ InChain(StartNotice) => InChain(StartNotice)'
    <2>1. CASE chain' = chain
      BY <1>2, <2>1 DEF InChain, StartFollowUp, StartNotice, Op
    <2>2. CASE chain' = Tail(chain)
      BY <1>1, <1>2, <2>2, TailScheduled DEF RunsOK
    <2> QED
      BY <2>1, <2>2
  <1> QED
    BY <1>2, <1>3 DEF NoticeOK, NoNewNotice, Idle

\* The operation of a caller that ends or goes on without touching an entry.
LEMMA RefusalNotice ==
    ASSUME RunsOK, SwiftOK, NoticeOK, UNCHANGED <<entry, closed>>,
           table' = None \/ table' = table,
           chain # <<>>, HeadOp.kind \in CallerKinds, chain' = chain \/ chain' = Tail(chain)
    PROVE  NoticeOK'
  <1>1. NoNewNotice
    BY DEF NoNewNotice, Idle
  <1> QED
    BY <1>1, LockNotice

\* A launch leaves the table's entry running.
LEMMA LaunchNotice ==
    ASSUME RunsOK, SwiftOK, NoticeOK, chain # <<>>, HeadOp.kind \in CallerKinds,
           table \in Entries, NEW q \in EntryType, q.status # "idle", Edit(table, q),
           Unlock, UNCHANGED <<table, closed>>
    PROVE  NoticeOK'
  <1>1. NoNewNotice
    BY Edited DEF NoNewNotice, RunsOK, TypeOK
  <1> QED
    BY <1>1, LockNotice DEF Unlock

\* The scheduled start of a follow-up always finds one, unless the entry has gone.
LEMMA FollowUpNotice ==
    ASSUME RunsOK, QueueOK, SwiftOK, NoticeOK, StartQueuedFollowUp
    PROVE  NoticeOK'
  <1>1. /\ chain = <<StartFollowUp>> /\ InChain(StartFollowUp)
    <2>1. chain # <<>> /\ chain[1] = StartFollowUp /\ 1 \in 1..Len(chain)
      BY DEF StartQueuedFollowUp, Waits, HeadOp, RunsOK, TypeOK
    <2> QED
      BY <2>1 DEF InChain, SwiftOK
  <1>2. chain' = <<>> /\ UNCHANGED <<table, closed>>
    BY <1>1 DEF StartQueuedFollowUp, Launch, Leave, Unlock, lifeVars
  <1>3. ~InChain(StartFollowUp)'
    BY <1>2 DEF InChain
  <1>4. CASE table = None
    BY <1>2, <1>3, <1>4 DEF NoticeOK
  <1>5. CASE table # None
    <2> DEFINE r == [entry[table] EXCEPT !.followUps = Tail(@)]
    <2>1. Accepting /\ Idle(table) /\ entry[table].followUps # <<>>
      BY <1>1, <1>5 DEF QueueOK, DeletionOK, NoticeOK, Accepting
    <2>2. /\ table \in Entries /\ entry[table] \in EntryType
          /\ Launch(table, r, Head(entry[table].followUps))
      BY <1>5, <2>1, Holding DEF StartQueuedFollowUp
    <2>3. Tail(entry[table].followUps) \in Seq(Tasks)
      BY <2>1, <2>2 DEF EntryType
    <2>4. r \in EntryType
      BY <2>2, <2>3 DEF EntryType
    <2> HIDE DEF r
    <2>5. entry'[table].status # "idle"
      BY <2>2, <2>4, LaunchedEntry, Edited DEF Launch, RunsOK, TypeOK
    <2> QED
      BY <1>2, <1>3, <2>5 DEF NoticeOK, Idle
  <1> QED
    BY <1>4, <1>5

\* The scheduled look at the notices leaves none behind an idle entry.
LEMMA LookNotice ==
    ASSUME RunsOK, QueueOK, SwiftOK, NoticeOK, StartBackgroundNoticeTask
    PROVE  NoticeOK'
  <1>1. chain # <<>> /\ HeadOp = StartNotice /\ StartNotice # StartFollowUp
    BY DEF StartBackgroundNoticeTask, Waits, StartNotice, StartFollowUp, Op
  <1>2. ~InChain(StartFollowUp)
    BY <1>1, NoAutoStart
  <1>3. chain' = Tail(chain) /\ UNCHANGED <<table, closed>>
    BY DEF StartBackgroundNoticeTask, Launch, Leave, Unlock, lifeVars
  <1>4. ~InChain(StartFollowUp)'
    BY <1>1, <1>2, <1>3, TailScheduled DEF RunsOK
  <1>5. CASE table = None \/ ~Idle(table) \/ entry[table].notices = {}
    <2>1. UNCHANGED entry
      BY <1>5 DEF StartBackgroundNoticeTask, Leave
    <2> QED
      BY <1>3, <1>4, <1>5, <2>1 DEF NoticeOK, Idle
  <1>6. CASE table # None /\ Idle(table) /\ entry[table].notices # {}
    <2> DEFINE r == [entry[table] EXCEPT !.notices = {}]
    <2>1. Accepting /\ entry[table].followUps = <<>>
      BY <1>2, <1>6 DEF QueueOK, DeletionOK, NoStrandedFollowUp, NoticeOK, Accepting
    <2>2. table \in Entries /\ entry[table] \in EntryType /\ Launch(table, r, NoTask)
      BY <1>6, <2>1, Holding DEF StartBackgroundNoticeTask
    <2>3. r \in EntryType
      BY <2>2 DEF EntryType
    <2> HIDE DEF r
    <2>4. entry'[table].status # "idle"
      BY <2>2, <2>3, LaunchedEntry, Edited DEF Launch, RunsOK, TypeOK
    <2> QED
      BY <1>3, <1>4, <2>4 DEF NoticeOK, Idle
  <1> QED
    BY <1>5, <1>6

\* Whatever the lock's holder does, no notice is left behind an idle entry.
LEMMA LockStepNotice ==
    ASSUME Steady, RunsOK, QueueOK, DriveOK, SwiftOK, NoticeOK, LockStep
    PROVE  NoticeOK'
  <1> USE Holding
  <1>0. /\ at # "idle" => chain # <<>> /\ HeadOp.kind \in CallerKinds
        /\ at \notin {"check", "hook"}
        /\ at \in {"refresh", "ready"} => held = table
        /\ Waits => chain # <<>>
    BY DEF QueueOK, HeadOK, DriveOK, HandOK, Waits
  <1>1. CASE RefuseAtGate \/ CheckGoalPlugin \/ GoalPluginMissing
    <2>1. chain # <<>> /\ HeadOp.kind \in CallerKinds
      BY <1>0, <1>1 DEF RefuseAtGate, CheckGoalPlugin, GoalPluginMissing, CallerKinds
    <2>2. /\ UNCHANGED <<entry, closed, table>>
          /\ chain' = chain \/ chain' = Tail(chain)
      BY <1>1
      DEF RefuseAtGate, CheckGoalPlugin, GoalPluginMissing, Leave, GoTo, Unlock, lifeVars
    <2> QED
      BY <2>1, <2>2, RefusalNotice
  <1>2. CASE HitEntry \/ MissEntry \/ SessionNotFound
    <2>1. chain # <<>> /\ HeadOp.kind \in CallerKinds
      BY <1>0, <1>2 DEF HitEntry, MissEntry, SessionNotFound, Ensuring
    <2> QED
      BY <1>2, <2>1, RefusalNotice
      DEF HitEntry, MissEntry, SessionNotFound, StartLoad, Leave, GoTo, Unlock, lifeVars
  <1>3. CASE KeepEntry \/ DiscardStaleEntry \/ RefreshFails
    <2>1. at # "idle"
      BY <1>3 DEF KeepEntry, DiscardStaleEntry, RefreshFails
    <2> QED
      BY <1>0, <1>3, <2>1, RefusalNotice
      DEF KeepEntry, DiscardStaleEntry, RefreshFails, StartLoad, Leave, GoTo, Unlock, lifeVars
  <1>4. CASE LoadFails \/ RefuseReady \/ PreloadDone \/ AskGoalHook \/ GoalHookRefuses
    <2>1. at # "idle"
      BY <1>4 DEF LoadFails, RefuseReady, PreloadDone, AskGoalHook, GoalHookRefuses, ReadyFor
    <2> QED
      BY <1>0, <1>4, <2>1, RefusalNotice
      DEF LoadFails, RefuseReady, PreloadDone, AskGoalHook, GoalHookRefuses, Leave, GoTo,
          Unlock, lifeVars
  <1>5. CASE StartSnapshot \/ EndSnapshot
    <2>1. chain # <<>> /\ HeadOp.kind \in CallerKinds
      BY <1>0, <1>5 DEF StartSnapshot, EndSnapshot, CallerKinds
    <2>2. /\ UNCHANGED <<entry, closed, table>>
          /\ chain' = chain \/ chain' = Tail(chain)
      BY <1>5 DEF StartSnapshot, EndSnapshot, Leave, GoTo, Unlock, lifeVars
    <2> QED
      BY <2>1, <2>2, RefusalNotice
  <1>6. CASE LoadDone
    <2>1. /\ at = "load" /\ made + 1 \in Entries
          /\ table' = made + 1 /\ UNCHANGED <<closed, chain>>
      BY <1>6, ConstantsAssumption DEF RunsOK, TypeOK, LoadDone, Entries, lifeVars
    <2>2. PICK config \in Configs : Edit(made + 1, NewEntry(config))
      BY <1>6 DEF RunsOK, TypeOK, LoadDone, Configs
    <2>3. NewEntry(config) \in EntryType /\ NewEntry(config).notices = {}
      BY DEF NewEntry, EntryType
    <2>4. NoNewNotice
      BY <2>1, <2>2, <2>3, Edited DEF RunsOK, TypeOK, NoNewNotice
    <2> QED
      BY <1>0, <2>1, <2>4, LockNotice
  <1>7. CASE StartTask
    <2>1. at = "ready" /\ held \in Entries /\ entry[held] \in EntryType
      BY <1>7 DEF StartTask, ReadyFor
    <2> QED
      BY <1>0, <1>7, <2>1, LaunchNotice, LaunchedEntry DEF StartTask, Launch, lifeVars
  <1>8. CASE StartGoal
    BY <1>0, <1>8 DEF StartGoal
  <1>9. CASE StartCompact
    <2>1. at = "ready" /\ held \in Entries /\ entry[held] \in EntryType
      BY <1>9 DEF StartCompact, ReadyFor
    <2> QED
      BY <1>0, <1>9, <2>1, LaunchNotice, LaunchedEntry DEF StartCompact, lifeVars
  <1>10. CASE QueueFollowUp
    <2>1. at = "ready" /\ held \in Entries /\ chain # <<>>
      BY <1>10 DEF QueueFollowUp, ReadyFor
    <2>2. \A x \in Entries : /\ entry'[x].status = entry[x].status
                             /\ entry'[x].notices = entry[x].notices
      BY <1>10, <2>1 DEF QueueFollowUp, Edit, RunsOK, TypeOK, EntryType
    <2>3. NoNewNotice
      BY <1>10, <2>2 DEF QueueFollowUp, NoNewNotice, Idle
    <2> QED
      BY <1>0, <1>10, <2>1, <2>3, LockNotice DEF QueueFollowUp, Unlock, lifeVars
  <1>11. CASE PullSwitchHead
    <2>1. at = "ready" /\ held \in Entries /\ chain # <<>>
      BY <1>11 DEF PullSwitchHead, ReadyFor
    <2>2. \A x \in Entries : /\ entry'[x].status = entry[x].status
                             /\ entry'[x].notices = entry[x].notices
      BY <1>11, <2>1 DEF PullSwitchHead, Edit, RunsOK, TypeOK, EntryType
    <2>3. NoNewNotice
      BY <1>11, <2>2 DEF PullSwitchHead, NoNewNotice, Idle
    <2> QED
      BY <1>0, <1>11, <2>1, <2>3, LockNotice DEF PullSwitchHead, lifeVars
  <1>12. CASE SwitchSettles
    <2>1. at = "head" /\ held \in Entries /\ chain # <<>> /\ Idle(held)
      BY <1>12 DEF SwitchSettles, RunsOK, PhaseOK
    <2>2. \A x \in Entries : /\ entry'[x].status = entry[x].status
                             /\ entry'[x].notices = entry[x].notices
      BY <1>12, <2>1 DEF SwitchSettles, Disposed, Edit, RunsOK, TypeOK, EntryType
    <2>3. NoNewNotice
      BY <1>12, <2>2 DEF SwitchSettles, NoNewNotice, Idle
    <2> QED
      BY <1>0, <1>12, <2>1, <2>3, LockNotice DEF SwitchSettles, Unlock, lifeVars
  <1>13. CASE SwitchStreams
    <2>1. at = "head" /\ held \in Entries /\ chain # <<>>
      BY <1>13 DEF SwitchStreams
    <2>2. /\ entry'[held].status = "compacting"
          /\ \A x \in Entries : x # held => entry'[x] = entry[x]
      BY <1>13, <2>1 DEF SwitchStreams, Edit, RunsOK, TypeOK, EntryType
    <2>3. NoNewNotice
      BY <1>13, <2>2 DEF SwitchStreams, NoNewNotice, Idle
    <2> QED
      BY <1>0, <1>13, <2>1, <2>3, LockNotice DEF SwitchStreams, Unlock, lifeVars
  <1>14. CASE StartQueuedFollowUp
    BY <1>14, FollowUpNotice
  <1>15. CASE StartBackgroundNoticeTask
    BY <1>15, LookNotice
  <1> QED
    BY <1>1, <1>2, <1>3, <1>4, <1>5, <1>6, <1>7, <1>8, <1>9, <1>10, <1>11, <1>12, <1>13,
       <1>14, <1>15 DEF LockStep

\* A step that touches neither the chain nor the table, and no status.
Quietly ==
    /\ UNCHANGED <<table, chain, closed>>
    /\ \A x \in Entries : /\ entry'[x].status = entry[x].status
                          /\ entry'[x].notices \subseteq entry[x].notices
                          /\ \/ entry'[x].followUps = entry[x].followUps
                             \/ ~InChain(StartFollowUp)

\* It keeps the notices looked after.
LEMMA QuietNotice ==
    ASSUME RunsOK, NoticeOK, Quietly
    PROVE  NoticeOK'
  <1>1. table # None => table \in Entries
    BY Holding
  <1>2. /\ InChain(StartFollowUp)' <=> InChain(StartFollowUp)
        /\ InChain(StartNotice)' <=> InChain(StartNotice)
    BY DEF Quietly, InChain, StartFollowUp, StartNotice, Op
  <1> QED
    BY <1>1, <1>2 DEF Quietly, NoticeOK, Idle

\* The end of a run schedules what looks at the entry it leaves idle.
LEMMA DriveEndsNotice ==
    ASSUME Steady, RunsOK, QueueOK, DriveOK, SwiftOK, NoticeOK, NEW e \in Entries, DriveEnds(e)
    PROVE  NoticeOK'
  <1>1. /\ Driven(e) /\ UNCHANGED <<table, closed>>
        /\ chain' = chain \o Behind(entry[e])
    BY DEF DriveEnds, Driven, RunsOK, PhaseOK, lifeVars
  <1>2. table # None => table = e
    <2>1. e # table => marked
      BY <1>1 DEF DriveOK, AwayOK, NoticeOK
    <2> QED
      BY <2>1 DEF QueueOK, DeletionOK
  <1>3. /\ entry'[e].followUps = entry[e].followUps
        /\ entry'[e].status = "idle"
    BY DEF DriveEnds, Disposed, Edit, RunsOK, TypeOK, EntryType
  <1>4. chain = <<>>
    <2>1. Besides /\ ~Rests /\ Running' # Running
      <3>1. entry'[e].drives = 0
        BY DEF DriveEnds, Disposed, Edit, RunsOK, TypeOK, EntryType, PhaseOK
      <3> QED
        BY <1>1, <3>1, DriveEndsShape DEF Rests, Running, Driven
    <2> QED
      BY <2>1 DEF Besides, Asides, Releases, Joins, Recalls, RunEnds
  <1>5. CASE entry[e].followUps # <<>>
    <2>1. chain' = <<StartFollowUp>>
      BY <1>1, <1>4, <1>5 DEF Behind
    <2>2. InChain(StartFollowUp)'
      BY <2>1 DEF InChain, StartFollowUp, Op
    <2> QED
      BY <1>1, <1>2, <1>3, <1>5, <2>2 DEF NoticeOK, Idle
  <1>6. CASE entry[e].followUps = <<>>
    <2>1. chain' = <<StartNotice>>
      BY <1>1, <1>4, <1>6 DEF Behind
    <2>2. InChain(StartNotice)' /\ ~InChain(StartFollowUp)'
      BY <2>1 DEF InChain, StartFollowUp, StartNotice, Op
    <2> QED
      BY <1>1, <2>2 DEF NoticeOK
  <1> QED
    BY <1>5, <1>6

\* The end of a background task schedules a look at its notice, unless the run will deliver it.
LEMMA BackgroundDoneNotice ==
    ASSUME RunsOK, SwiftOK, NoticeOK, NEW e \in Entries, NEW n \in Notices, BackgroundDone(e, n)
    PROVE  NoticeOK'
  <1>1. /\ UNCHANGED <<table, closed>> /\ ~InChain(StartFollowUp)
        /\ \A x \in Entries : entry'[x].status = entry[x].status
        /\ \A x \in Entries : x # e => entry'[x] = entry[x]
    BY NoAutoStart
    DEF BackgroundDone, Edit, RunsOK, TypeOK, EntryType, lifeVars
  <1>2. CASE entry[e].phase = "loop"
    <2>1. ~Idle(e) /\ UNCHANGED chain
      BY <1>2 DEF BackgroundDone, RunsOK, PhaseOK
    <2>2. /\ ~InChain(StartFollowUp)'
          /\ InChain(StartNotice)' <=> InChain(StartNotice)
      BY <1>1, <2>1 DEF InChain, StartFollowUp, StartNotice, Op
    <2>3. table # None => table \in Entries
      BY Holding
    <2> QED
      BY <1>1, <2>1, <2>2, <2>3 DEF NoticeOK, Idle
  <1>3. CASE entry[e].phase # "loop"
    <2>1. StartNotice \in Operations /\ StartNotice # StartFollowUp
      BY DEF StartNotice, StartFollowUp, Op, Operations
    <2>2. ~InChain(StartFollowUp)' /\ InChain(StartNotice)'
      BY <1>1, <1>3, <2>1, AppendScheduled DEF BackgroundDone, RunsOK
    <2> QED
      BY <1>1, <2>2 DEF NoticeOK
  <1> QED
    BY <1>2, <1>3

\* The steps of a run.
LEMMA RunNotice ==
    ASSUME Steady, RunsOK, QueueOK, DriveOK, SwiftOK, NoticeOK, NEW e \in 1..made, RunStep(e)
    PROVE  NoticeOK'
  <1>0. e \in Entries
    BY MadeEntry DEF RunsOK
  <1>1. CASE EngineStarts(e) \/ EngineDelivers(e) \/ EngineExits(e) \/ AskApproval(e)
    <2>1. ASSUME EngineStarts(e) PROVE Quietly
      BY <1>0, <2>1
      DEF EngineStarts, Quietly, lockVars, lifeVars, Edit, RunsOK, TypeOK, EntryType
    <2>2. ASSUME EngineDelivers(e) PROVE Quietly
      BY <1>0, <2>2
      DEF EngineDelivers, Quietly, lockVars, lifeVars, Edit, RunsOK, TypeOK, EntryType
    <2>3. ASSUME EngineExits(e) PROVE Quietly
      BY <1>0, <2>3
      DEF EngineExits, Quietly, lockVars, lifeVars, Edit, RunsOK, TypeOK, EntryType
    <2>4. ASSUME AskApproval(e) PROVE Quietly
      BY <1>0, <2>4
      DEF AskApproval, Quietly, lockVars, lifeVars, Edit, RunsOK, TypeOK, EntryType
    <2> QED
      BY <1>1, <2>1, <2>2, <2>3, <2>4, QuietNotice
  <1>2. CASE DriveEnds(e)
    BY <1>0, <1>2, DriveEndsNotice
  <1>3. ASSUME NEW n \in Notices, StartBackground(e, n) PROVE NoticeOK'
    <2>1. Quietly
      BY <1>0, <1>3
      DEF StartBackground, Quietly, lockVars, lifeVars, Edit, RunsOK, TypeOK, EntryType
    <2> QED
      BY <2>1, QuietNotice
  <1>4. ASSUME NEW n \in Notices, BackgroundDone(e, n) PROVE NoticeOK'
    BY <1>0, <1>4, BackgroundDoneNotice
  <1> QED
    BY <1>1, <1>2, <1>3, <1>4 DEF RunStep

\* What the callers do: only a recall touches the follow-ups, and no auto-start is scheduled then.
LEMMA PersonNotice ==
    ASSUME RunsOK, SwiftOK, NoticeOK, PersonStep
    PROVE  NoticeOK'
  <1>0. table # None => table \in Entries
    BY Holding
  <1>1. ASSUME NEW k \in Kinds, NEW t \in Tasks \cup {NoTask}, Submit(k, t) PROVE NoticeOK'
    <2>1. ~InChain(StartFollowUp) /\ UNCHANGED <<entry, table, closed>>
      BY <1>1, NoAutoStart DEF Submit, lifeVars
    <2>2. Op(k, t) \in Operations /\ Op(k, t) # StartFollowUp /\ chain' = Append(chain, Op(k, t))
      BY <1>1, ConstantsAssumption
      DEF Submit, Op, Operations, StartFollowUp, TaskKinds, CallerKinds
    <2>3. ~InChain(StartFollowUp)' /\ (InChain(StartNotice) => InChain(StartNotice)')
      BY <2>1, <2>2, AppendScheduled DEF RunsOK
    <2> QED
      BY <2>1, <2>3 DEF NoticeOK, Idle
  <1>2. CASE DecideApproval \/ AbortTask
    <2>1. ASSUME DecideApproval PROVE Quietly
      BY <1>0, <2>1
      DEF DecideApproval, Quietly, lockVars, lifeVars, Edit, RunsOK, TypeOK, EntryType
    <2>2. ASSUME AbortTask PROVE Quietly
      BY <1>0, <2>2 DEF AbortTask, Quietly, lockVars, lifeVars, Edit, RunsOK, TypeOK, EntryType
    <2> QED
      BY <1>2, <2>1, <2>2, QuietNotice
  <1>3. ASSUME NEW i \in 1..Cardinality(Tasks), RecallFollowUp(i) PROVE NoticeOK'
    <2>1. ~InChain(StartFollowUp)
      BY <1>3, NoAutoStart DEF RecallFollowUp
    <2>2. Quietly
      BY <1>0, <1>3, <2>1
      DEF RecallFollowUp, Quietly, lockVars, lifeVars, Edit, RunsOK, TypeOK, EntryType
    <2> QED
      BY <2>2, QuietNotice
  <1> QED
    BY <1>1, <1>2, <1>3 DEF PersonStep

\* What happens from outside, short of a shutdown, makes no notice.
LEMMA OutsideNotice ==
    ASSUME "shutdown" \notin Events, RunsOK, NoticeOK, OutsideStep
    PROVE  NoticeOK'
  <1>0. table # None => table \in Entries
    BY Holding
  <1>1. ASSUME NEW other \in BOOLEAN, CredentialsChange(other) PROVE NoticeOK'
    <2>1. Quietly
      BY <1>1 DEF CredentialsChange, Quietly, lifeVars, RunsOK, TypeOK, EntryType
    <2> QED
      BY <2>1, QuietNotice
  <1>2. CASE GrowsOld
    <2>1. Quietly
      BY <1>0, <1>2 DEF GrowsOld, Quietly, lockVars, lifeVars, Edit, RunsOK, TypeOK, EntryType
    <2> QED
      BY <2>1, QuietNotice
  <1>3. CASE SweepIdle \/ BeginSessionDeletion
    <2>1. table' = None /\ UNCHANGED closed
      BY <1>3, TakenOff DEF SweepIdle, BeginSessionDeletion, lifeVars
    <2> QED
      BY <2>1 DEF NoticeOK
  <1>4. CASE DeletionSettles \/ EndSessionDeletion
    <2>1. Quietly
      BY <1>4 DEF DeletionSettles, EndSessionDeletion, Quietly, lockVars
    <2> QED
      BY <2>1, QuietNotice
  <1>5. CASE Shutdown
    BY <1>5 DEF Shutdown
  <1> QED
    BY <1>1, <1>2, <1>3, <1>4, <1>5 DEF OutsideStep

\* Every step keeps the notices looked after.
LEMMA NoticeStep ==
    ASSUME Steady, "shutdown" \notin Events, RunsOK, QueueOK, DriveOK, SwiftOK, NoticeOK,
           [Next]_vars
    PROVE  NoticeOK'
  <1>1. CASE LockStep
    BY <1>1, LockStepNotice
  <1>2. ASSUME NEW e \in 1..made, RunStep(e) PROVE NoticeOK'
    BY <1>2, RunNotice
  <1>3. CASE PersonStep
    BY <1>3, PersonNotice
  <1>4. CASE OutsideStep
    BY <1>4, OutsideNotice
  <1>5. CASE UNCHANGED vars
    BY <1>5, QuietNotice DEF Quietly, vars
  <1> QED
    BY <1>1, <1>2, <1>3, <1>4, <1>5 DEF Next

-----------------------------------------------------------------------------
(* The theorems *)

\* Every invariant holds before anything has happened.
LEMMA SteadyInit ==
    ASSUME Init
    PROVE  DriveOK /\ SwiftOK /\ TasksOK
  <1>1. /\ \A e \in Entries : ~Driven(e) /\ entry[e].followUps = <<>>
        /\ chain = <<>> /\ at = "idle" /\ marked = FALSE /\ deletion = "none"
        /\ \A t \in Tasks : fate[t] = "new"
    BY DEF Init, NewEntry, Driven
  <1>2. Waiting = <<>>
    BY <1>1, RunsInit, Holding DEF Waiting
  <1>3. DriveOK
    BY <1>1 DEF DriveOK, ChainOK, HandOK, QuietOK, AwayOK, MutualExclusion
  <1>4. SwiftOK
    BY <1>1 DEF SwiftOK, InChain
  <1>5. TasksOK
    BY <1>1, <1>2 DEF TasksOK, OwnOK, QueuedOK
  <1> QED
    BY <1>3, <1>4, <1>5

\* They always hold.
LEMMA SteadyAlways ==
    ASSUME Steady
    PROVE  Spec => [](DriveOK /\ SwiftOK /\ TasksOK)
  <1>1. Init => DriveOK /\ SwiftOK /\ TasksOK
    BY SteadyInit
  <1>2. RunsOK /\ QueueOK /\ DriveOK /\ SwiftOK /\ TasksOK /\ [Next]_vars
            => (DriveOK /\ SwiftOK /\ TasksOK)'
    BY DriveNext, SwiftStep, TasksStep
  <1> QED
    BY <1>1, <1>2, RunsAlways, QueueAlways, PTL DEF Spec

\* At most one Task, compaction or model switch of the Session is in progress over all
\* its runtimes, as the header of session-manager.ts says, under the conditions of Steady.
THEOREM SessionOneRun ==
    ASSUME Steady
    PROVE  Spec => []MutualExclusion
  <1>1. DriveOK => MutualExclusion
    BY DEF DriveOK
  <1> QED
    BY <1>1, SteadyAlways, PTL

\* No run of the Session is under way while a fork reads its Trace: atIdleBoundary looks at
\* the table's entry only, and no other entry runs.
THEOREM SessionSnapshotIsQuiet ==
    ASSUME Steady
    PROVE  Spec => []SnapshotIsQuiet
  <1>1. DriveOK => SnapshotIsQuiet
    BY DEF DriveOK, QuietOK, SnapshotIsQuiet
  <1> QED
    BY <1>1, SteadyAlways, PTL

\* A follow-up the manager accepted is in the queue of the table's entry until it starts, is
\* recalled or goes with the Session: no reload or eviction leaves it behind.
THEOREM SessionFollowUpKept ==
    ASSUME Steady
    PROVE  Spec => []FollowUpKept
  <1>1. TasksOK => FollowUpKept
    BY DEF TasksOK, QueuedOK, FollowUpKept, Waiting
  <1> QED
    BY <1>1, SteadyAlways, PTL

\* A step that starts a run begins one, and the Session is not being deleted.
LEMMA StartsUnmarked ==
    ASSUME Steady, RunsOK, RunsOK', QueueOK, DriveOK, SwiftOK, [Next]_vars,
           NEW e \in Entries, Starts(e)
    PROVE  ~marked
  <1>1. /\ entry[e].drives \in {0, 1}
        /\ entry'[e].drives \in {0, 1}
    BY DEF RunsOK, PhaseOK
  <1>2. e \notin Running /\ e \in Running'
    BY <1>1 DEF Starts, Running, Driven
  <1>3. Begins
    <2>1. ASSUME GivesUp PROVE Begins
      BY <1>2, <2>1
      DEF GivesUp, Rests, Refuses, StartsOwn, StartsNone, StartsNext, Queues, Ends
    <2>2. ASSUME KeepsLock PROVE Begins
      BY <1>2, <2>2 DEF KeepsLock, Rests, StartsNone
    <2>3. ASSUME Besides PROVE Begins
      BY <1>2, <2>3 DEF Besides, Asides, Rests, RunEnds, Ends, Releases, Joins, Recalls
    <2> QED
      BY <2>1, <2>2, <2>3, StepShape
  <1> QED
    BY <1>3 DEF Begins

\* No run starts on a Session that is being deleted, whoever held the lock when the deletion
\* began (beginSessionDeletion).
THEOREM SessionNoStartWhileDeleting ==
    ASSUME Steady
    PROVE  Spec => NoStartWhileDeleting
  <1>1. RunsOK /\ RunsOK' /\ QueueOK /\ DriveOK /\ SwiftOK /\ [Next]_vars
            => [\A e \in Entries : Starts(e) => ~marked]_vars
    BY StartsUnmarked
  <1> QED
    BY <1>1, RunsAlways, QueueAlways, SteadyAlways, PTL DEF Spec, NoStartWhileDeleting

\* The Session implements its mailbox: inputs start one at a time, a queued one after those
\* accepted before it, and none is lost or started twice, whatever the runs, reloads,
\* evictions, deletions and shutdown in between.
THEOREM SessionKeepsMailbox ==
    ASSUME Steady
    PROVE  Spec => KeepsMailbox
  <1>1. Init => Mailbox!Init
    <2> SUFFICES ASSUME Init PROVE Mailbox!Init
      OBVIOUS
    <2>1. Waiting = <<>>
      <3>1. \A e \in Entries : entry[e].followUps = <<>>
        BY DEF Init, NewEntry
      <3> QED
        BY <3>1, RunsInit, Holding DEF Waiting
    <2>2. (\E e \in Entries : Driven(e)) = FALSE
      BY DEF Init, NewEntry, Driven
    <2> QED
      BY <2>1, <2>2 DEF Init, Mailbox!Init, Waiting
  <1>2. RunsOK /\ QueueOK /\ DriveOK /\ SwiftOK /\ TasksOK /\ [Next]_vars
            => [Mailbox!Next]_(Mailbox!mailbox)
    BY MailboxStep
  <1>3. Spec => Mailbox!Init /\ [][Mailbox!Next]_(Mailbox!mailbox)
    BY <1>1, <1>2, RunsAlways, QueueAlways, SteadyAlways, PTL DEF Spec
  <1> QED
    BY <1>3 DEF KeepsMailbox, Mailbox!Spec

\* The completion notices of background tasks never wait behind an entry without a run that
\* nothing will look at: the end of a run, or of the task, has scheduled the look.  (After a
\* shutdown nothing looks any more.)
THEOREM SessionNoStrandedNotice ==
    ASSUME Steady, "shutdown" \notin Events
    PROVE  Spec => []NoStrandedNotice
  <1>1. Init => NoticeOK
    <2> SUFFICES ASSUME Init PROVE NoticeOK
      OBVIOUS
    <2>1. /\ ~closed /\ ~InChain(StartFollowUp)
          /\ \A e \in Entries : entry[e].notices = {}
      BY DEF Init, NewEntry, InChain
    <2> QED
      BY <2>1, RunsInit, Holding DEF NoticeOK
  <1>2. RunsOK /\ QueueOK /\ DriveOK /\ SwiftOK /\ NoticeOK /\ [Next]_vars => NoticeOK'
    BY NoticeStep
  <1>3. RunsOK /\ NoticeOK => NoStrandedNotice
    BY RunOf, Holding DEF NoticeOK, NoStrandedNotice
  <1> QED
    BY <1>1, <1>2, <1>3, RunsAlways, QueueAlways, SteadyAlways, PTL DEF Spec

-----------------------------------------------------------------------------
(* The inputs of the whole runtime: the goal hook, the network and the deletion's patience *)
(* included, where MutualExclusion is false and a queued input can be left behind.          *)

\* How an input goes: it waits for the lock, and is then refused, started or queued; a queued
\* one is started, recalled or goes with the Session.
Onward(t) ==
    <<fate[t], fate'[t]>> \in
        {<<"new", "waiting">>, <<"waiting", "refused">>, <<"waiting", "started">>,
         <<"waiting", "queued">>, <<"queued", "started">>, <<"queued", "recalled">>,
         <<"queued", "released">>}
MovesOn == \A t \in Tasks : UNCHANGED fate[t] \/ Onward(t)

\* An input begins with a run of its own.
Begun(t) == fate[t] # "started" /\ fate'[t] = "started"
SomeRunStarts == \E e \in Entries : Starts(e)
BeginsAlone ==
    /\ \A t \in Tasks : Begun(t) => SomeRunStarts
    /\ \A s, t \in Tasks : Begun(s) /\ Begun(t) => s = t

\* An input behind the table's entry is queued and is there once.  (Behind an entry that left
\* the table inputs may be left; nothing takes them from there.)
BehindOK ==
    /\ \A i \in 1..Len(Waiting) : fate[Waiting[i]] = "queued"
    /\ \A i, j \in 1..Len(Waiting) : Waiting[i] = Waiting[j] => i = j
InputsOK == OwnOK /\ BehindOK

\* What the lock's holder, and what everybody else, does to the inputs.
Stays == UNCHANGED fate /\ Waiting' \in {Waiting, <<>>}
Settles(what) == HeadOp.task \in Tasks /\ Record(HeadOp.task, what) /\ Waiting' \in {Waiting, <<>>}
TakesNext == Waiting # <<>> /\ Waiting' = Tail(Waiting) /\ Record(Head(Waiting), "started")
Puts ==
    /\ HeadOp.task \in Tasks /\ Record(HeadOp.task, "queued")
    /\ Waiting' \in {Waiting, Append(Waiting, HeadOp.task)}
HolderMoves ==
    /\ chain # <<>> /\ chain' = Tail(chain)
    /\ \/ Stays \/ Settles("refused") \/ Puts
       \/ SomeRunStarts /\ (Settles("started") \/ TakesNext)
Schedules(op) == Stays /\ chain' = Append(chain, op)
Joined(k, t) == Submit(k, t) /\ UNCHANGED Waiting
Recalled(i) == Record(Waiting[i], "recalled") /\ Waiting' = RemoveAt(Waiting, i) /\ UNCHANGED chain
ReleasedAll ==
    /\ Waiting' = <<>> /\ UNCHANGED chain
    /\ fate' = [t \in Tasks |-> IF \E i \in 1..Len(Waiting) : Waiting[i] = t
                                THEN "released" ELSE fate[t]]
OthersMove ==
    \/ Stays /\ UNCHANGED chain
    \/ Schedules(StartFollowUp) \/ Schedules(StartNotice)
    \/ \E k \in Kinds, t \in Tasks \cup {NoTask} : Joined(k, t)
    \/ \E i \in 1..Len(Waiting) : Recalled(i)
    \/ ReleasedAll

\* A refusal, or the end of an operation that carries no input.
LEMMA LeaveMoves ==
    ASSUME RunsOK, chain # <<>>, Leave
    PROVE  HolderMoves
  <1>1. UNCHANGED Waiting
    BY DEF Leave, Waiting
  <1> QED
    BY <1>1 DEF Leave, Unlock, Record, HolderMoves, Stays, Settles

\* A wait.
LEMMA GoToMoves ==
    ASSUME RunsOK, NEW p, NEW e, GoTo(p, e), table' \in {table, None}
    PROVE  OthersMove
  <1>1. Waiting' \in {Waiting, <<>>}
    BY DEF GoTo, Waiting
  <1> QED
    BY <1>1 DEF GoTo, OthersMove, Stays

\* A launch starts a run, on the table's entry or on one that has left it.
LEMMA LaunchMoves ==
    ASSUME RunsOK, NEW e \in Entries, NEW r \in EntryType, r.drives = entry[e].drives, NEW t,
           Launch(e, r, t)
    PROVE  /\ SomeRunStarts /\ Record(t, "started") /\ chain' = Tail(chain)
           /\ r.followUps = entry[e].followUps => UNCHANGED Waiting
           /\ e = table => Waiting' = r.followUps /\ Waiting = entry[table].followUps
  <1> DEFINE q == Launched(r, "running", "boot")
  <1>1. q \in EntryType /\ q.drives = r.drives + 1 /\ q.followUps = r.followUps
    BY LaunchedEntry
  <1>2. Edit(e, q) /\ UNCHANGED table /\ Record(t, "started") /\ chain' = Tail(chain)
    BY DEF Launch, Unlock
  <1> HIDE DEF q
  <1>3. entry'[e] = q /\ \A x \in Entries : x # e => entry'[x] = entry[x]
    BY <1>1, <1>2, Edited DEF RunsOK, TypeOK
  <1>4. SomeRunStarts
    BY <1>1, <1>3 DEF SomeRunStarts, Starts, EntryType
  <1>5. table # None => table \in Entries
    BY Holding
  <1>6. e # None
    BY DEF Entries, None
  <1> QED
    BY <1>1, <1>2, <1>3, <1>4, <1>5, <1>6 DEF Waiting

\* An edit that keeps the queue.
LEMMA EditStays ==
    ASSUME RunsOK, NEW e \in Entries, NEW q, Edit(e, q), q.followUps = entry[e].followUps,
           UNCHANGED table
    PROVE  UNCHANGED Waiting
  <1>1. \A x \in Entries : entry'[x].followUps = entry[x].followUps
    BY DEF Edit, RunsOK, TypeOK
  <1>2. table # None => table \in Entries
    BY Holding
  <1> QED
    BY <1>1, <1>2 DEF Waiting

\* What the lock's holder does is one of these.
LEMMA LockMoves ==
    ASSUME RunsOK, LockStep
    PROVE  HolderMoves \/ OthersMove
  <1> USE Holding
  <1>1. CASE RefuseAtGate
    BY <1>1, LeaveMoves DEF RefuseAtGate, Waits
  <1>2. CASE CheckGoalPlugin
    BY <1>2, GoToMoves DEF CheckGoalPlugin
  <1>3. CASE GoalPluginMissing
    BY <1>3, LeaveMoves DEF GoalPluginMissing
  <1>4. CASE HitEntry
    BY <1>4, GoToMoves DEF HitEntry
  <1>5. CASE MissEntry
    BY <1>5, GoToMoves DEF MissEntry, StartLoad
  <1>6. CASE SessionNotFound
    BY <1>6, LeaveMoves DEF SessionNotFound
  <1>7. CASE KeepEntry
    BY <1>7, GoToMoves DEF KeepEntry
  <1>8. CASE DiscardStaleEntry
    <2>1. CASE StartLoad
      BY <2>1, GoToMoves DEF StartLoad
    <2>2. CASE ~StartLoad
      <3>1. /\ chain # <<>> /\ Unlock /\ Record(HeadOp.task, "refused")
            /\ Waiting' = <<>>
        BY <1>8, <2>2 DEF DiscardStaleEntry, Waiting
      <3> QED
        BY <3>1 DEF Unlock, Record, HolderMoves, Stays, Settles
    <2> QED
      BY <2>1, <2>2
  <1>9. CASE RefreshFails
    BY <1>9, LeaveMoves DEF RefreshFails
  <1>10. CASE LoadDone
    <2>1. made + 1 \in Entries /\ table' = made + 1 /\ UNCHANGED <<chain, fate>>
      BY <1>10, ConstantsAssumption DEF RunsOK, TypeOK, LoadDone, Entries
    <2>2. PICK config \in Configs : Edit(made + 1, NewEntry(config))
      BY <1>10 DEF RunsOK, TypeOK, LoadDone, Configs
    <2>3. NewEntry(config).followUps = <<>>
      BY DEF NewEntry
    <2>4. Waiting' = <<>>
      BY <2>1, <2>2, <2>3 DEF Edit, RunsOK, TypeOK, Waiting
    <2> QED
      BY <2>1, <2>4 DEF OthersMove, Stays
  <1>11. CASE LoadFails
    BY <1>11, LeaveMoves DEF LoadFails
  <1>12. CASE StartTask \/ StartGoal
    <2>1. /\ held \in Entries /\ entry[held] \in EntryType /\ chain # <<>>
          /\ Launch(held, entry[held], HeadOp.task)
      BY <1>12 DEF StartTask, StartGoal, ReadyFor
    <2>2. /\ SomeRunStarts /\ Record(HeadOp.task, "started") /\ chain' = Tail(chain)
          /\ UNCHANGED Waiting
      BY <2>1, LaunchMoves
    <2> QED
      BY <2>1, <2>2 DEF HolderMoves, Settles, Stays, Record
  <1>13. CASE QueueFollowUp
    <2> DEFINE q == [entry[held] EXCEPT !.followUps = Append(@, HeadOp.task), !.aged = FALSE]
    <2>1. /\ held \in Entries /\ chain # <<>> /\ UNCHANGED table
          /\ entry[held] \in EntryType /\ Edit(held, q) /\ chain' = Tail(chain)
          /\ Record(HeadOp.task, "queued")
      BY <1>13 DEF QueueFollowUp, ReadyFor, Unlock
    <2>2. HeadOp \in Operations /\ HeadOp.kind = "queue"
      BY <1>13, <2>1 DEF RunsOK, TypeOK, QueueFollowUp, ReadyFor, HeadOp
    <2>3. HeadOp.task \in Tasks
      BY <2>2 DEF Operations, TaskKinds, CallerKinds
    <2>4. /\ entry'[held].followUps = Append(entry[held].followUps, HeadOp.task)
          /\ \A x \in Entries : x # held => entry'[x] = entry[x]
      BY <2>1 DEF Edit, RunsOK, TypeOK, EntryType
    <2>5. Waiting' \in {Waiting, Append(Waiting, HeadOp.task)}
      BY <2>1, <2>4 DEF Waiting, None, Entries
    <2> QED
      BY <2>1, <2>3, <2>5 DEF HolderMoves, Puts
  <1>14. CASE RefuseReady
    BY <1>14, LeaveMoves DEF RefuseReady
  <1>15. CASE PreloadDone
    BY <1>15, LeaveMoves DEF PreloadDone, ReadyFor
  <1>16. CASE AskGoalHook
    BY <1>16, GoToMoves DEF AskGoalHook
  <1>17. CASE GoalHookRefuses
    BY <1>17, LeaveMoves DEF GoalHookRefuses
  <1>18. CASE StartCompact
    <2>1. /\ held \in Entries /\ entry[held] \in EntryType /\ chain # <<>>
          /\ Edit(held, Launched(entry[held], "compacting", "tail"))
          /\ chain' = Tail(chain) /\ UNCHANGED <<table, fate>>
      BY <1>18 DEF StartCompact, ReadyFor, Unlock
    <2>2. UNCHANGED Waiting
      BY <2>1, LaunchedEntry, EditStays
    <2> QED
      BY <2>1, <2>2 DEF HolderMoves, Stays
  <1>19. CASE PullSwitchHead
    <2> DEFINE q == [entry[held] EXCEPT !.phase = "head", !.drives = @ + 1, !.abort = "armed"]
    <2>1. /\ held \in Entries /\ entry[held] \in EntryType
          /\ Edit(held, q) /\ UNCHANGED <<table, fate, chain>>
      BY <1>19 DEF PullSwitchHead, ReadyFor
    <2>2. q.followUps = entry[held].followUps
      BY <2>1 DEF EntryType
    <2> HIDE DEF q
    <2>3. UNCHANGED Waiting
      BY <2>1, <2>2, EditStays
    <2> QED
      BY <2>1, <2>3 DEF OthersMove, Stays
  <1>20. CASE SwitchSettles \/ SwitchStreams
    <2>1. held \in Entries /\ chain # <<>>
      <3>1. at = "head"
        BY <1>20, Zenon DEF SwitchSettles, SwitchStreams
      <3> QED
        BY <3>1
    <2>2. chain' = Tail(chain) /\ UNCHANGED <<table, fate>>
      <3>1. CASE SwitchSettles
        BY <3>1, Zenon DEF SwitchSettles, Unlock
      <3>2. CASE SwitchStreams
        BY <3>2, Zenon DEF SwitchStreams, Unlock
      <3> QED
        BY <1>20, <3>1, <3>2
    <2>3. \A x \in Entries : entry'[x].followUps = entry[x].followUps
      <3>1. CASE SwitchSettles
        BY <2>1, <3>1 DEF SwitchSettles, Disposed, Edit, RunsOK, TypeOK, EntryType
      <3>2. CASE SwitchStreams
        BY <2>1, <3>2 DEF SwitchStreams, Edit, RunsOK, TypeOK, EntryType
      <3> QED
        BY <1>20, <3>1, <3>2
    <2>4. UNCHANGED Waiting
      BY <2>2, <2>3 DEF Waiting
    <2> QED
      BY <2>1, <2>2, <2>4 DEF HolderMoves, Stays
  <1>21. CASE StartSnapshot
    BY <1>21, LeaveMoves, GoToMoves DEF StartSnapshot, Waits
  <1>22. CASE EndSnapshot
    BY <1>22, LeaveMoves DEF EndSnapshot
  <1>23. CASE StartQueuedFollowUp
    <2>1. CASE Accepting /\ table # None /\ Idle(table) /\ entry[table].followUps # <<>>
      <3> DEFINE r == [entry[table] EXCEPT !.followUps = Tail(@)]
      <3>1. /\ table \in Entries /\ entry[table] \in EntryType /\ chain # <<>>
            /\ Launch(table, r, Head(entry[table].followUps))
        BY <1>23, <2>1 DEF StartQueuedFollowUp, Waits
      <3>2. Tail(entry[table].followUps) \in Seq(Tasks)
        BY <2>1, <3>1 DEF EntryType
      <3>3. /\ r \in EntryType /\ r.drives = entry[table].drives
            /\ r.followUps = Tail(entry[table].followUps)
        BY <3>1, <3>2 DEF EntryType
      <3> HIDE DEF r
      <3>4. /\ SomeRunStarts /\ Record(Head(entry[table].followUps), "started")
            /\ chain' = Tail(chain)
            /\ Waiting' = r.followUps /\ Waiting = entry[table].followUps
        BY <3>1, <3>3, LaunchMoves, Zenon
      <3> QED
        BY <2>1, <3>1, <3>3, <3>4 DEF HolderMoves, TakesNext
    <2>2. CASE ~(Accepting /\ table # None /\ Idle(table) /\ entry[table].followUps # <<>>)
      BY <1>23, <2>2, LeaveMoves DEF StartQueuedFollowUp, Waits
    <2> QED
      BY <2>1, <2>2
  <1>24. CASE StartBackgroundNoticeTask
    <2>1. CASE Leave
      BY <1>24, <2>1, LeaveMoves DEF StartBackgroundNoticeTask, Waits
    <2>2. CASE ~Leave
      <3> DEFINE r == [entry[table] EXCEPT !.notices = {}]
      <3>1. /\ table \in Entries /\ entry[table] \in EntryType /\ chain # <<>>
            /\ Launch(table, r, NoTask)
        BY <1>24, <2>2 DEF StartBackgroundNoticeTask, Waits
      <3>2. /\ r \in EntryType /\ r.drives = entry[table].drives
            /\ r.followUps = entry[table].followUps
        BY <3>1 DEF EntryType
      <3> HIDE DEF r
      <3>3. /\ Record(NoTask, "started") /\ chain' = Tail(chain) /\ UNCHANGED Waiting
        BY <3>1, <3>2, LaunchMoves
      <3> QED
        BY <3>1, <3>3, ConstantsAssumption DEF Record, HolderMoves, Stays
    <2> QED
      BY <2>1, <2>2
  <1> QED
    BY <1>1, <1>2, <1>3, <1>4, <1>5, <1>6, <1>7, <1>8, <1>9, <1>10, <1>11, <1>12, <1>13,
       <1>14, <1>15, <1>16, <1>17, <1>18, <1>19, <1>20, <1>21, <1>22, <1>23, <1>24 DEF LockStep

\* A run's step, of any entry.
LEMMA RunMoves ==
    ASSUME RunsOK, NEW e \in 1..made, RunStep(e)
    PROVE  OthersMove
  <1>0. e \in Entries /\ entry[e] \in EntryType
    BY MadeEntry, Holding DEF RunsOK
  <1>1. ASSUME NEW q, Edit(e, q), q.followUps = entry[e].followUps, UNCHANGED <<table, fate>>,
               \/ UNCHANGED chain
               \/ chain' = Append(chain, StartNotice) \/ chain' = Append(chain, StartFollowUp)
        PROVE  OthersMove
    BY <1>0, <1>1, EditStays DEF OthersMove, Stays, Schedules
  <1>2. CASE EngineStarts(e)
    <2> DEFINE q == [entry[e] EXCEPT !.phase = "loop", !.notices = {}]
    <2>1. Edit(e, q) /\ q.followUps = entry[e].followUps
      BY <1>0, <1>2 DEF EngineStarts, EntryType
    <2> QED
      BY <1>1, <1>2, <2>1 DEF EngineStarts, lockVars
  <1>3. CASE EngineDelivers(e)
    <2> DEFINE q == [entry[e] EXCEPT !.notices = {}]
    <2>1. Edit(e, q) /\ q.followUps = entry[e].followUps
      BY <1>0, <1>3 DEF EngineDelivers, EntryType
    <2> QED
      BY <1>1, <1>3, <2>1 DEF EngineDelivers, lockVars
  <1>4. CASE EngineExits(e)
    <2> DEFINE q == [entry[e] EXCEPT !.phase = "tail"]
    <2>1. Edit(e, q) /\ q.followUps = entry[e].followUps
      BY <1>0, <1>4 DEF EngineExits, EntryType
    <2> QED
      BY <1>1, <1>4, <2>1 DEF EngineExits, lockVars
  <1>5. CASE DriveEnds(e)
    <2> DEFINE r == [entry[e] EXCEPT !.status = "idle", !.phase = "none", !.drives = @ - 1,
                                     !.abort = "null", !.aged = FALSE]
    <2>1. Edit(e, Disposed(r)) /\ Disposed(r).followUps = entry[e].followUps
      BY <1>0, <1>5 DEF DriveEnds, EntryType, Disposed
    <2>2. chain' = Append(chain, StartNotice) \/ chain' = Append(chain, StartFollowUp)
      <3>1. chain \in Seq(Operations) /\ StartNotice \in Operations /\ StartFollowUp \in Operations
        BY DEF RunsOK, TypeOK, StartNotice, StartFollowUp, Op, Operations
      <3>2. chain' = chain \o <<StartNotice>> \/ chain' = chain \o <<StartFollowUp>>
        BY <1>5 DEF DriveEnds, Behind
      <3> QED
        BY <3>1, <3>2, AppendIsConcat
    <2> HIDE DEF r
    <2> QED
      BY <1>1, <1>5, <2>1, <2>2 DEF DriveEnds
  <1>6. ASSUME NEW n \in Notices, StartBackground(e, n) PROVE OthersMove
    <2> DEFINE q == [entry[e] EXCEPT !.work = @ \cup {n}]
    <2>1. Edit(e, q) /\ q.followUps = entry[e].followUps
      BY <1>0, <1>6 DEF StartBackground, EntryType
    <2> QED
      BY <1>1, <1>6, <2>1 DEF StartBackground, lockVars
  <1>7. ASSUME NEW n \in Notices, BackgroundDone(e, n) PROVE OthersMove
    <2> DEFINE q == [entry[e] EXCEPT !.work = @ \ {n}, !.notices = @ \cup {n}]
    <2>1. Edit(e, q) /\ q.followUps = entry[e].followUps
      BY <1>0, <1>7 DEF BackgroundDone, EntryType
    <2> QED
      BY <1>1, <1>7, <2>1 DEF BackgroundDone
  <1>8. CASE AskApproval(e)
    <2> DEFINE q == [entry[e] EXCEPT !.asking = TRUE]
    <2>1. Edit(e, q) /\ q.followUps = entry[e].followUps
      BY <1>0, <1>8 DEF AskApproval, EntryType
    <2> QED
      BY <1>1, <1>8, <2>1 DEF AskApproval, lockVars
  <1> QED
    BY <1>2, <1>3, <1>4, <1>5, <1>6, <1>7, <1>8 DEF RunStep

\* What a person does.
LEMMA PersonMoves ==
    ASSUME RunsOK, PersonStep
    PROVE  OthersMove
  <1>0. table # None => table \in Entries /\ entry[table] \in EntryType
    BY Holding
  <1>1. ASSUME NEW k \in Kinds, NEW t \in Tasks \cup {NoTask}, Submit(k, t) PROVE OthersMove
    <2>1. UNCHANGED Waiting
      BY <1>1 DEF Submit, Waiting
    <2> QED
      BY <1>1, <2>1 DEF Joined, OthersMove
  <1>2. CASE DecideApproval
    <2> DEFINE q == [entry[table] EXCEPT !.asking = FALSE]
    <2>1. /\ table \in Entries /\ Edit(table, q) /\ q.followUps = entry[table].followUps
          /\ UNCHANGED <<table, fate, chain>>
      BY <1>0, <1>2 DEF DecideApproval, EntryType, lockVars
    <2> QED
      BY <2>1, EditStays DEF OthersMove, Stays
  <1>3. CASE AbortTask
    <2> DEFINE q == [entry[table] EXCEPT !.abort = "fired"]
    <2>1. /\ table \in Entries /\ Edit(table, q) /\ q.followUps = entry[table].followUps
          /\ UNCHANGED <<table, fate, chain>>
      BY <1>0, <1>3 DEF AbortTask, EntryType, lockVars
    <2> QED
      BY <2>1, EditStays DEF OthersMove, Stays
  <1>4. ASSUME NEW i \in 1..Cardinality(Tasks), RecallFollowUp(i) PROVE OthersMove
    <2>1. /\ table # None /\ table \in Entries /\ i \in 1..Len(entry[table].followUps)
          /\ Record(entry[table].followUps[i], "recalled")
          /\ UNCHANGED <<table, chain>>
          /\ entry'[table].followUps = RemoveAt(entry[table].followUps, i)
      BY <1>0, <1>4 DEF RecallFollowUp, lockVars, Edit, RunsOK, TypeOK, EntryType
    <2>2. Waiting = entry[table].followUps /\ Waiting' = entry'[table].followUps
      BY <2>1 DEF Waiting
    <2> QED
      BY <2>1, <2>2 DEF Recalled, OthersMove
  <1> QED
    BY <1>1, <1>2, <1>3, <1>4 DEF PersonStep

\* A deletion or a shutdown takes the entry off the table.
LEMMA TakeOffMoves ==
    ASSUME RunsOK, TakeOffTable, UNCHANGED chain
    PROVE  OthersMove
  <1>1. CASE table = None
    BY <1>1 DEF TakeOffTable, Waiting, OthersMove, Stays
  <1>2. CASE table # None
    BY <1>2 DEF TakeOffTable, Waiting, OthersMove, ReleasedAll
  <1> QED
    BY <1>1, <1>2

\* What happens to the Session from outside.
LEMMA OutsideMoves ==
    ASSUME RunsOK, OutsideStep
    PROVE  OthersMove
  <1>0. table # None => table \in Entries /\ entry[table] \in EntryType
    BY Holding
  <1>1. ASSUME NEW other \in BOOLEAN, CredentialsChange(other) PROVE OthersMove
    <2>1. \A x \in Entries : entry'[x].followUps = entry[x].followUps
      BY <1>1 DEF CredentialsChange, RunsOK, TypeOK, EntryType
    <2>2. UNCHANGED <<table, fate, chain>>
      BY <1>1 DEF CredentialsChange
    <2>3. UNCHANGED Waiting
      BY <1>0, <2>1, <2>2 DEF Waiting
    <2> QED
      BY <2>2, <2>3 DEF OthersMove, Stays
  <1>2. CASE GrowsOld
    <2> DEFINE q == [entry[table] EXCEPT !.aged = TRUE]
    <2>1. /\ table \in Entries /\ Edit(table, q) /\ q.followUps = entry[table].followUps
          /\ UNCHANGED <<table, fate, chain>>
      BY <1>0, <1>2 DEF GrowsOld, EntryType, lockVars
    <2> QED
      BY <2>1, EditStays DEF OthersMove, Stays
  <1>3. CASE SweepIdle
    BY <1>3 DEF SweepIdle, lockVars, Waiting, OthersMove, Stays
  <1>4. CASE BeginSessionDeletion \/ Shutdown
    <2>1. TakeOffTable /\ UNCHANGED chain
      BY <1>4, Zenon DEF BeginSessionDeletion, Shutdown, lockVars
    <2> QED
      BY <2>1, TakeOffMoves
  <1>5. CASE DeletionSettles \/ EndSessionDeletion
    <2>1. UNCHANGED <<entry, table, fate, chain>>
      BY <1>5 DEF DeletionSettles, EndSessionDeletion, lockVars
    <2> QED
      BY <2>1 DEF OthersMove, Stays, Waiting
  <1> QED
    BY <1>1, <1>2, <1>3, <1>4, <1>5 DEF OutsideStep

\* Every step is a move.
LEMMA StepMoves ==
    ASSUME RunsOK, [Next]_vars
    PROVE  HolderMoves \/ OthersMove
  <1>1. CASE LockStep
    BY <1>1, LockMoves
  <1>2. ASSUME NEW e \in 1..made, RunStep(e) PROVE OthersMove
    BY <1>2, RunMoves
  <1>3. CASE PersonStep
    BY <1>3, PersonMoves
  <1>4. CASE OutsideStep
    BY <1>4, OutsideMoves
  <1>5. CASE UNCHANGED vars
    BY <1>5 DEF vars, OthersMove, Stays, Waiting
  <1> QED
    BY <1>1, <1>2, <1>3, <1>4, <1>5 DEF Next

\* One input changes its fate: the account of the others stands.
LEMMA OneChanges ==
    ASSUME RunsOK, NEW t \in Tasks, NEW what \in Fates, Record(t, what)
    PROVE  /\ fate'[t] = what /\ \A s \in Tasks : s # t => fate'[s] = fate[s]
           /\ <<fate[t], what>> \in
                {<<"new", "waiting">>, <<"waiting", "refused">>, <<"waiting", "started">>,
                 <<"waiting", "queued">>, <<"queued", "started">>, <<"queued", "recalled">>,
                 <<"queued", "released">>} => MovesOn
           /\ what = "started" => \A s \in Tasks : Begun(s) => s = t
           /\ what # "started" => \A s \in Tasks : ~Begun(s)
  <1>1. fate'[t] = what /\ \A s \in Tasks : s # t => fate'[s] = fate[s]
    BY DEF Record, RunsOK, TypeOK
  <1> QED
    BY <1>1 DEF MovesOn, Onward, Begun

\* What the inputs behind the table's entry are.
LEMMA Behindhand ==
    ASSUME RunsOK, InputsOK
    PROVE  /\ Waiting \in Seq(Tasks) /\ Len(Waiting) \in Nat /\ fate \in [Tasks -> Fates]
           /\ \A i \in 1..Len(Waiting) : Waiting[i] \in Tasks /\ fate[Waiting[i]] = "queued"
           /\ \A i, j \in 1..Len(Waiting) : Waiting[i] = Waiting[j] => i = j
  BY WaitingSeq DEF RunsOK, TypeOK, InputsOK, BehindOK

\* The lock's holder keeps account of the inputs.
LEMMA HolderInputs ==
    ASSUME RunsOK, InputsOK, HolderMoves
    PROVE  InputsOK' /\ MovesOn /\ BeginsAlone
  <1>1. /\ Len(chain) \in Nat /\ Len(chain) > 0 /\ Len(chain') = Len(chain) - 1
        /\ \A i \in 1..Len(chain') : chain'[i] = chain[i + 1]
        /\ HeadOp = chain[1]
    BY DEF RunsOK, TypeOK, HolderMoves, HeadOp
  <1>2. HeadOp.task \in Tasks =>
          /\ fate[HeadOp.task] = "waiting"
          /\ \A i \in 1..Len(chain') : chain'[i].task # HeadOp.task
    BY <1>1 DEF InputsOK, OwnOK
  <1>3. /\ \A i \in 1..Len(chain') : chain'[i].task \in Tasks => fate[chain'[i].task] = "waiting"
        /\ \A i, j \in 1..Len(chain') :
              chain'[i].task \in Tasks /\ chain'[i].task = chain'[j].task => i = j
    BY <1>1, SMTT(30) DEF InputsOK, OwnOK
  <1>4. /\ Waiting \in Seq(Tasks) /\ Len(Waiting) \in Nat /\ fate \in [Tasks -> Fates]
        /\ \A i \in 1..Len(Waiting) : Waiting[i] \in Tasks /\ fate[Waiting[i]] = "queued"
        /\ \A i, j \in 1..Len(Waiting) : Waiting[i] = Waiting[j] => i = j
    BY Behindhand
  <1>5. CASE Stays
    <2>1. InputsOK'
      BY <1>3, <1>4, <1>5 DEF Stays, InputsOK, OwnOK, BehindOK
    <2> QED
      BY <1>5, <2>1 DEF Stays, MovesOn, BeginsAlone, Begun
  <1>6. ASSUME NEW what \in {"refused", "started"}, Settles(what),
               what = "started" => SomeRunStarts
        PROVE  InputsOK' /\ MovesOn /\ BeginsAlone
    <2>1. /\ fate'[HeadOp.task] = what
          /\ \A t \in Tasks : t # HeadOp.task => fate'[t] = fate[t]
          /\ MovesOn
          /\ what = "started" => \A s \in Tasks : Begun(s) => s = HeadOp.task
          /\ what # "started" => \A s \in Tasks : ~Begun(s)
      BY <1>2, <1>6, OneChanges DEF Settles, Fates
    <2>2. OwnOK'
      BY <1>2, <1>3, <1>6, <2>1 DEF OwnOK, Settles
    <2>3. BehindOK'
      BY <1>2, <1>4, <1>6, <2>1 DEF BehindOK, Settles
    <2> QED
      BY <1>6, <2>1, <2>2, <2>3 DEF InputsOK, BeginsAlone
  <1>7. CASE SomeRunStarts /\ TakesNext
    <2>1. /\ Waiting # <<>> /\ Waiting' = Tail(Waiting)
          /\ Head(Waiting) \in Tasks /\ Head(Waiting) = Waiting[1] /\ Len(Waiting) > 0
          /\ Len(Waiting') = Len(Waiting) - 1
          /\ \A i \in 1..Len(Waiting') : Waiting'[i] = Waiting[i + 1]
      BY <1>4, <1>7 DEF TakesNext
    <2>2. fate[Waiting[1]] = "queued" /\ Record(Waiting[1], "started") /\ Waiting[1] \in Tasks
      BY <1>4, <1>7, <2>1 DEF TakesNext
    <2>3. /\ fate'[Waiting[1]] = "started"
          /\ \A t \in Tasks : t # Waiting[1] => fate'[t] = fate[t]
          /\ MovesOn
          /\ \A s \in Tasks : Begun(s) => s = Waiting[1]
      BY <2>2, OneChanges DEF Fates
    <2>4. OwnOK'
      BY <1>3, <2>2, <2>3 DEF OwnOK
    <2>5. BehindOK'
      BY <1>4, <2>1, <2>3 DEF BehindOK
    <2> QED
      BY <1>7, <2>3, <2>4, <2>5 DEF InputsOK, BeginsAlone
  <1>8. CASE Puts
    <2>1. /\ fate'[HeadOp.task] = "queued"
          /\ \A t \in Tasks : t # HeadOp.task => fate'[t] = fate[t]
          /\ MovesOn /\ \A s \in Tasks : ~Begun(s)
      BY <1>2, <1>8, OneChanges DEF Puts, Fates
    <2>2. OwnOK'
      BY <1>2, <1>3, <1>8, <2>1 DEF OwnOK, Puts
    <2>3. BehindOK'
      <3>1. CASE Waiting' = Waiting
        BY <1>4, <2>1, <3>1 DEF BehindOK
      <3>2. CASE Waiting' = Append(Waiting, HeadOp.task)
        <4>1. /\ HeadOp.task \in Tasks /\ Len(Waiting') = Len(Waiting) + 1
              /\ Waiting'[Len(Waiting) + 1] = HeadOp.task
              /\ \A i \in 1..Len(Waiting) : Waiting'[i] = Waiting[i]
          BY <1>4, <1>8, <3>2 DEF Puts
        <4>2. \A i \in 1..Len(Waiting) : Waiting[i] # HeadOp.task
          BY <1>2, <1>4, <4>1
        <4>3. \A i \in 1..Len(Waiting') : i \in 1..Len(Waiting) \/ i = Len(Waiting) + 1
          BY <1>4, <4>1
        <4>4. \A i \in 1..Len(Waiting') : fate'[Waiting'[i]] = "queued"
          BY <1>4, <2>1, <4>1, <4>3
        <4>5. \A i, j \in 1..Len(Waiting') : Waiting'[i] = Waiting'[j] => i = j
          BY <1>4, <4>1, <4>2, <4>3
        <4> QED
          BY <4>4, <4>5 DEF BehindOK
      <3> QED
        BY <1>8, <3>1, <3>2 DEF Puts
    <2> QED
      BY <2>1, <2>2, <2>3 DEF InputsOK, BeginsAlone
  <1> QED
    BY <1>5, <1>6, <1>7, <1>8 DEF HolderMoves

\* And so does everybody else.
LEMMA OthersInputs ==
    ASSUME RunsOK, InputsOK, OthersMove
    PROVE  InputsOK' /\ MovesOn /\ BeginsAlone
  <1>1. /\ Waiting \in Seq(Tasks) /\ Len(Waiting) \in Nat /\ fate \in [Tasks -> Fates]
        /\ \A i \in 1..Len(Waiting) : Waiting[i] \in Tasks /\ fate[Waiting[i]] = "queued"
        /\ \A i, j \in 1..Len(Waiting) : Waiting[i] = Waiting[j] => i = j
    BY Behindhand
  <1>2. ASSUME UNCHANGED fate PROVE MovesOn /\ BeginsAlone
    BY <1>2 DEF MovesOn, BeginsAlone, Begun
  <1>3. ASSUME Stays PROVE BehindOK'
    BY <1>1, <1>3 DEF Stays, BehindOK
  <1>4. CASE Stays /\ UNCHANGED chain
    BY <1>2, <1>3, <1>4 DEF Stays, InputsOK, OwnOK
  <1>5. ASSUME NEW op \in {StartFollowUp, StartNotice}, Schedules(op)
        PROVE  InputsOK' /\ MovesOn /\ BeginsAlone
    <2>1. /\ Len(chain) \in Nat /\ Len(chain') = Len(chain) + 1
          /\ \A i \in 1..Len(chain) : chain'[i] = chain[i]
          /\ chain'[Len(chain) + 1] = op
      BY <1>5 DEF RunsOK, TypeOK, Schedules
    <2>2. op.task \notin Tasks
      BY ConstantsAssumption DEF StartFollowUp, StartNotice, Op
    <2>3. OwnOK'
      BY <1>5, <2>1, <2>2 DEF InputsOK, OwnOK, Schedules, Stays
    <2> QED
      BY <1>2, <1>3, <1>5, <2>3 DEF InputsOK, Schedules, Stays
  <1>6. ASSUME NEW k \in Kinds, NEW t \in Tasks \cup {NoTask}, Joined(k, t)
        PROVE  InputsOK' /\ MovesOn /\ BeginsAlone
    <2>1. /\ Len(chain) \in Nat /\ Len(chain') = Len(chain) + 1
          /\ \A i \in 1..Len(chain) : chain'[i] = chain[i]
          /\ chain'[Len(chain) + 1] = Op(k, t) /\ Op(k, t).task = t
          /\ UNCHANGED Waiting
      BY <1>6 DEF Joined, Submit, RunsOK, TypeOK, Op
    <2>2. CASE t \in Tasks
      <3>1. fate[t] = "new" /\ Record(t, "waiting")
        BY <1>6, <2>2, ConstantsAssumption DEF Joined, Submit
      <3>2. /\ fate'[t] = "waiting" /\ \A s \in Tasks : s # t => fate'[s] = fate[s]
            /\ MovesOn /\ \A s \in Tasks : ~Begun(s)
        BY <2>2, <3>1, OneChanges DEF Fates
      <3>3. OwnOK'
        BY <2>1, <3>1, <3>2 DEF InputsOK, OwnOK
      <3>4. BehindOK'
        BY <1>1, <2>1, <3>1, <3>2 DEF BehindOK
      <3> QED
        BY <3>2, <3>3, <3>4 DEF InputsOK, BeginsAlone
    <2>3. CASE t \notin Tasks
      <3>1. UNCHANGED fate
        BY <1>6, <2>3 DEF Joined, Submit, Record
      <3>2. OwnOK'
        BY <2>1, <2>3, <3>1 DEF InputsOK, OwnOK
      <3>3. BehindOK'
        BY <1>1, <2>1, <3>1 DEF BehindOK
      <3> QED
        BY <1>2, <3>1, <3>2, <3>3 DEF InputsOK
    <2> QED
      BY <2>2, <2>3
  <1>7. ASSUME NEW i \in 1..Len(Waiting), Recalled(i) PROVE InputsOK' /\ MovesOn /\ BeginsAlone
    <2>1. /\ Len(Waiting') = Len(Waiting) - 1
          /\ \A j \in 1..(Len(Waiting) - 1) :
                /\ j < i => Waiting'[j] = Waiting[j]
                /\ j >= i => Waiting'[j] = Waiting[j + 1]
      BY <1>1, <1>7, RemoveAtSeq DEF Recalled
    <2>2. Waiting[i] \in Tasks /\ fate[Waiting[i]] = "queued" /\ Record(Waiting[i], "recalled")
      BY <1>1, <1>7 DEF Recalled
    <2>3. /\ fate'[Waiting[i]] = "recalled"
          /\ \A s \in Tasks : s # Waiting[i] => fate'[s] = fate[s]
          /\ MovesOn /\ \A s \in Tasks : ~Begun(s)
      BY <2>2, OneChanges DEF Fates
    <2>4. OwnOK'
      BY <1>7, <2>2, <2>3 DEF InputsOK, OwnOK, Recalled
    <2> DEFINE from(j) == IF j < i THEN j ELSE j + 1
    <2>5. ASSUME NEW j \in 1..Len(Waiting')
          PROVE  from(j) \in 1..Len(Waiting) /\ from(j) # i /\ Waiting'[j] = Waiting[from(j)]
      BY <1>1, <2>1
    <2>6. \A j, l \in 1..Len(Waiting') : from(j) = from(l) => j = l
      BY <1>1, <2>1
    <2> HIDE DEF from
    <2>7. \A j \in 1..Len(Waiting') : fate'[Waiting'[j]] = "queued"
      BY <1>1, <2>3, <2>5
    <2>8. \A j, l \in 1..Len(Waiting') : Waiting'[j] = Waiting'[l] => j = l
      BY <1>1, <2>5, <2>6
    <2>9. BehindOK'
      BY <2>7, <2>8 DEF BehindOK
    <2> QED
      BY <2>3, <2>4, <2>9 DEF InputsOK, BeginsAlone
  <1>8. CASE ReleasedAll
    <2>1. \A t \in Tasks : \/ fate'[t] = fate[t]
                           \/ fate[t] = "queued" /\ fate'[t] = "released"
      BY <1>1, <1>8 DEF ReleasedAll
    <2>2. OwnOK' /\ BehindOK'
      BY <1>8, <2>1 DEF ReleasedAll, InputsOK, OwnOK, BehindOK
    <2>3. MovesOn /\ BeginsAlone
      BY <2>1 DEF MovesOn, Onward, BeginsAlone, Begun
    <2> QED
      BY <2>2, <2>3 DEF InputsOK
  <1> QED
    BY <1>4, <1>5, <1>6, <1>7, <1>8 DEF OthersMove

\* At the start no input is anywhere.
LEMMA InputsStart == Init => InputsOK
  <1> SUFFICES ASSUME Init PROVE InputsOK
    OBVIOUS
  <1>1. chain = <<>> /\ table \in {0, 1}
    BY DEF Init
  <1>2. 1 \in Entries /\ entry = [e \in Entries |-> NewEntry("current")]
    BY ConstantsAssumption DEF Init, Entries
  <1>3. NewEntry("current").followUps = <<>>
    BY DEF NewEntry
  <1>4. Waiting = <<>>
    BY <1>1, <1>2, <1>3 DEF Waiting, None
  <1> QED
    BY <1>1, <1>4 DEF InputsOK, OwnOK, BehindOK

\* Whatever happens to the Session, and however its operations wait, an input goes on its way
\* once: it is never started, refused, recalled or released after it was one of these, and never
\* goes back to the queue or the lock (startTask, startQueuedFollowUp, recallFollowUp).
THEOREM SessionInputsMoveOn == Spec => [][MovesOn]_vars
  <1>1. Init => InputsOK
    BY InputsStart
  <1>2. RunsOK /\ InputsOK /\ [Next]_vars => InputsOK' /\ MovesOn
    BY StepMoves, HolderInputs, OthersInputs
  <1> QED
    BY <1>1, <1>2, RunsInit, RunsNext, PTL DEF Spec

\* An input begins only with a run that starts in the same turn, and no two begin with one run:
\* also where two runtimes run at once, no input is given to both.
THEOREM SessionInputsBeginAlone == Spec => [][BeginsAlone]_vars
  <1>1. Init => InputsOK
    BY InputsStart
  <1>2. RunsOK /\ InputsOK /\ [Next]_vars => InputsOK' /\ BeginsAlone
    BY StepMoves, HolderInputs, OthersInputs
  <1> QED
    BY <1>1, <1>2, RunsInit, RunsNext, PTL DEF Spec

-----------------------------------------------------------------------------
(* One run at a time, with every operation and every wait: what evicts a runtime from outside *)
(* is kept away instead.                                                                      *)

\* Neither the idle sweep nor a shutdown takes the runtime, a deletion waits for the run it
\* aborted, and does not fail with the row kept.  With any one of these MutualExclusion fails.
Undisturbed == Events \subseteq {"credentials", "delete"}

\* What runs, runs on the table's entry; with none in the table, only where the Session is
\* being deleted or is gone.
TableRunOK ==
    /\ table # None => \A e \in Entries : Driven(e) => e = table
    /\ table = None /\ row /\ ~marked => \A e \in Entries : ~Driven(e)

\* Whoever is about to load, or loads, may find the run that a deletion waits for.
Awaiting == \A e \in Entries : Driven(e) => deletion = "settling" /\ e \in awaited
BeforeOK ==
    /\ at = "check" /\ table = None /\ row => Awaiting
    /\ at = "load" => table = None /\ Awaiting

\* Whoever has an entry in hand has the table's, or one that a deletion took from it; then
\* nothing else runs.
InHandOK ==
    at \in {"refresh", "ready", "hook", "head"} =>
        \/ held = table
        \/ /\ table = None /\ (marked \/ ~row)
           /\ \A e \in Entries : Driven(e) => e = held

\* The marks: nothing is in the table while the Session is marked.
MarksOK ==
    /\ ~closed
    /\ marked <=> deletion # "none"
    /\ marked => table = None
    /\ "delete" \notin Events => row /\ ~marked

\* A fork reads the Trace of a quiet Session, if that is not being deleted.
ForkOK == "delete" \notin Events => SnapshotIsQuiet

ApartOK == TableRunOK /\ BeforeOK /\ InHandOK /\ MarksOK /\ ForkOK /\ MutualExclusion

\* Where a run may start: on the table's entry, or on the one taken from it.
MayRun(e) == e = table \/ (table = None /\ (marked \/ ~row))

\* The lock is given up, with no new run, or with all there is on one entry.
LEMMA UnlockApart ==
    ASSUME RunsOK, ApartOK, at' = "idle", UNCHANGED <<table, lifeVars>>,
           \/ \A x \in Entries : Driven(x)' => Driven(x)
           \/ \E e \in Entries : MayRun(e) /\ \A x \in Entries : Driven(x)' => x = e
    PROVE  ApartOK'
  <1>1. BeforeOK' /\ InHandOK' /\ ForkOK'
    BY DEF BeforeOK, InHandOK, ForkOK, SnapshotIsQuiet
  <1>2. MarksOK'
    BY DEF ApartOK, MarksOK, lifeVars
  <1>3. TableRunOK' /\ MutualExclusion'
    <2>1. CASE \A x \in Entries : Driven(x)' => Driven(x)
      BY <2>1 DEF ApartOK, TableRunOK, MutualExclusion, lifeVars
    <2>2. ASSUME NEW e \in Entries, MayRun(e), \A x \in Entries : Driven(x)' => x = e
          PROVE  TableRunOK' /\ MutualExclusion'
      <3>1. e # None
        BY DEF Entries, None
      <3> QED
        BY <2>2, <3>1 DEF MayRun, TableRunOK, MutualExclusion, lifeVars
    <2> QED
      BY <2>1, <2>2
  <1> QED
    BY <1>1, <1>2, <1>3 DEF ApartOK

\* A refusal.
LEMMA LeaveApart ==
    ASSUME RunsOK, ApartOK, Leave
    PROVE  ApartOK'
  BY UnlockApart DEF Leave, Unlock, Driven

\* A wait, or the next look at the entry in hand.
LEMMA GoToApart ==
    ASSUME RunsOK, ApartOK, NEW p \in {"check", "refresh", "load", "ready", "hook", "snapshot"},
           NEW e, GoTo(p, e),
           IF p = "load" THEN table' = None ELSE table' = table,
           p \in {"refresh", "ready", "hook"} =>
               \/ e = table
               \/ /\ table = None /\ (marked \/ ~row)
                  /\ \A x \in Entries : Driven(x) => x = e,
           p = "check" => ~marked,
           p = "load" => row /\ Awaiting,
           p = "snapshot" => ~marked /\ (row => \A x \in Entries : ~Driven(x))
    PROVE  ApartOK'
  <1>1. /\ UNCHANGED <<entry, lifeVars>> /\ at' = p /\ held' = e
        /\ \A x \in Entries : Driven(x)' <=> Driven(x)
    BY DEF GoTo, Driven
  <1>2. BeforeOK'
    BY <1>1 DEF BeforeOK, Awaiting, ApartOK, TableRunOK, lifeVars
  <1>3. InHandOK'
    BY <1>1 DEF InHandOK, lifeVars
  <1>4. MarksOK'
    BY <1>1 DEF ApartOK, MarksOK, lifeVars
  <1>5. ForkOK'
    BY <1>1 DEF ApartOK, ForkOK, MarksOK, SnapshotIsQuiet, lifeVars
  <1>6. TableRunOK'
    <2>1. CASE p = "load"
      <3>1. ~marked => \A x \in Entries : ~Driven(x)
        BY <2>1 DEF ApartOK, MarksOK, Awaiting
      <3>2. table' = None /\ UNCHANGED <<row, marked>>
        BY <1>1, <2>1 DEF lifeVars
      <3> QED
        BY <1>1, <3>1, <3>2 DEF TableRunOK
    <2>2. CASE p # "load"
      BY <1>1, <2>2 DEF TableRunOK, ApartOK, lifeVars
    <2> QED
      BY <2>1, <2>2
  <1>7. MutualExclusion'
    BY <1>1 DEF ApartOK, MutualExclusion
  <1> QED
    BY <1>2, <1>3, <1>4, <1>5, <1>6, <1>7 DEF ApartOK

\* Nothing starts to run, and neither the table nor the lock's holder moves.
LEMMA BesideApart ==
    ASSUME RunsOK, ApartOK, UNCHANGED <<table, at, held, lifeVars>>,
           \A x \in Entries : Driven(x)' => Driven(x)
    PROVE  ApartOK'
  <1>1. BeforeOK' /\ InHandOK'
    BY DEF ApartOK, BeforeOK, InHandOK, Awaiting, lifeVars
  <1>2. TableRunOK' /\ MarksOK'
    BY DEF ApartOK, TableRunOK, MarksOK, lifeVars
  <1>3. ForkOK' /\ MutualExclusion'
    BY DEF ApartOK, ForkOK, SnapshotIsQuiet, MutualExclusion
  <1> QED
    BY <1>1, <1>2, <1>3 DEF ApartOK

\* Past the wait for the entry, it is one that a run may start on, and nothing else runs.
LEMMA InHand ==
    ASSUME RunsOK, ApartOK, at \in {"ready", "hook"}
    PROVE  /\ held \in Entries /\ entry[held] \in EntryType /\ chain # <<>>
           /\ MayRun(held)
           /\ \A x \in Entries : Driven(x) => x = held
  BY Holding DEF ApartOK, InHandOK, TableRunOK, MayRun, None, Entries

\* All that runs is then on that entry.
LEMMA StartApart ==
    ASSUME RunsOK, ApartOK, NEW e \in Entries, MayRun(e),
           \A x \in Entries : Driven(x) => x = e,
           NEW q \in EntryType, Edit(e, q), Unlock, UNCHANGED <<table, lifeVars>>
    PROVE  ApartOK'
  <1>1. \A x \in Entries : x # e => entry'[x] = entry[x]
    BY Edited DEF RunsOK, TypeOK
  <1>2. \A x \in Entries : Driven(x)' => x = e
    BY <1>1 DEF Driven
  <1> QED
    BY <1>2, UnlockApart DEF Unlock

\* The lock's holder.
LEMMA LockApart ==
    ASSUME Undisturbed, RunsOK, ApartOK, LockStep
    PROVE  ApartOK'
  <1> USE Holding
  <1>0. /\ at \in {"refresh", "ready", "hook"} =>
             \/ held = table
             \/ /\ table = None /\ (marked \/ ~row)
                /\ \A x \in Entries : Driven(x) => x = held
        /\ Accepting => ~marked
    BY DEF ApartOK, InHandOK, Accepting
  <1>1. CASE RefuseAtGate
    BY <1>1, LeaveApart DEF RefuseAtGate
  <1>2. CASE CheckGoalPlugin
    BY <1>0, <1>2, GoToApart DEF CheckGoalPlugin
  <1>3. CASE GoalPluginMissing
    BY <1>3, LeaveApart DEF GoalPluginMissing
  <1>4. CASE HitEntry
    BY <1>4, GoToApart DEF HitEntry
  <1>5. CASE MissEntry
    <2>1. table = None /\ row /\ GoTo("load", None) /\ table' = None
      BY <1>5 DEF MissEntry, StartLoad
    <2>2. at = "check" \/ ~marked
      BY <1>0, <1>5 DEF MissEntry, Ensuring
    <2>3. Awaiting
      BY <2>1, <2>2 DEF ApartOK, BeforeOK, TableRunOK, Awaiting
    <2> QED
      BY <2>1, <2>3, GoToApart
  <1>6. CASE SessionNotFound
    BY <1>6, LeaveApart DEF SessionNotFound
  <1>7. CASE KeepEntry
    BY <1>0, <1>7, GoToApart DEF KeepEntry
  <1>8. CASE DiscardStaleEntry
    <2>1. at = "refresh" /\ ~Driven(held)
      BY <1>8 DEF DiscardStaleEntry, InUse
    <2>2. \A x \in Entries : ~Driven(x)
      BY <1>0, <2>1 DEF ApartOK, TableRunOK, None, Entries
    <2>3. CASE StartLoad
      <3>1. Awaiting
        BY <2>2 DEF Awaiting
      <3> QED
        BY <2>3, <3>1, GoToApart DEF StartLoad
    <2>4. CASE ~StartLoad
      <3>1. /\ at' = "idle" /\ table' = None /\ UNCHANGED lifeVars
            /\ \A x \in Entries : ~Driven(x)'
        BY <1>8, <2>2, <2>4 DEF DiscardStaleEntry, Unlock, Driven
      <3>2. BeforeOK' /\ InHandOK' /\ ForkOK'
        BY <3>1 DEF BeforeOK, InHandOK, ForkOK, SnapshotIsQuiet
      <3>3. MarksOK'
        BY <3>1 DEF ApartOK, MarksOK, lifeVars
      <3>4. TableRunOK' /\ MutualExclusion'
        BY <3>1 DEF TableRunOK, MutualExclusion
      <3> QED
        BY <3>2, <3>3, <3>4 DEF ApartOK
    <2> QED
      BY <2>3, <2>4
  <1>9. CASE RefreshFails
    BY <1>9, LeaveApart DEF RefreshFails
  <1>10. CASE LoadDone
    <2>1. /\ made + 1 \in Entries /\ table' = made + 1 /\ held' = made + 1 /\ at' = "ready"
          /\ at = "load" /\ ~marked /\ UNCHANGED lifeVars /\ made + 1 # None
      BY <1>10, ConstantsAssumption DEF RunsOK, TypeOK, LoadDone, Entries, None
    <2>2. PICK config \in Configs : Edit(made + 1, NewEntry(config))
      BY <1>10 DEF RunsOK, TypeOK, LoadDone, Configs
    <2>3. NewEntry(config) \in EntryType /\ NewEntry(config).drives = 0
      BY DEF NewEntry, EntryType
    <2>4. \A x \in Entries : ~Driven(x)
      BY <2>1 DEF ApartOK, BeforeOK, Awaiting, MarksOK
    <2>5. \A x \in Entries : ~Driven(x)'
      BY <2>1, <2>2, <2>3, <2>4, Edited DEF RunsOK, TypeOK, Driven
    <2>6. BeforeOK' /\ InHandOK' /\ ForkOK'
      BY <2>1 DEF BeforeOK, InHandOK, ForkOK, SnapshotIsQuiet
    <2>7. MarksOK'
      BY <2>1 DEF ApartOK, MarksOK, lifeVars
    <2>8. TableRunOK' /\ MutualExclusion'
      BY <2>5 DEF TableRunOK, MutualExclusion
    <2> QED
      BY <2>6, <2>7, <2>8 DEF ApartOK
  <1>11. CASE LoadFails
    BY <1>11, LeaveApart DEF LoadFails
  <1>12. CASE StartTask \/ StartGoal
    <2>1. at \in {"ready", "hook"} /\ Launch(held, entry[held], HeadOp.task)
      BY <1>12 DEF StartTask, StartGoal, ReadyFor
    <2>2. /\ held \in Entries /\ entry[held] \in EntryType /\ MayRun(held)
          /\ \A x \in Entries : Driven(x) => x = held
      BY <2>1, InHand
    <2>3. Launched(entry[held], "running", "boot") \in EntryType
      BY <2>2, LaunchedEntry
    <2> QED
      BY <2>1, <2>2, <2>3, StartApart DEF Launch
  <1>13. CASE QueueFollowUp
    <2>1. at = "ready" /\ held \in Entries /\ entry[held] \in EntryType
      BY <1>13 DEF QueueFollowUp, ReadyFor
    <2>2. \A x \in Entries : entry'[x].drives = entry[x].drives
      BY <1>13, <2>1 DEF QueueFollowUp, Edit, RunsOK, TypeOK, EntryType
    <2> QED
      BY <1>13, <2>2, UnlockApart DEF QueueFollowUp, Unlock, Driven
  <1>14. CASE RefuseReady
    BY <1>14, LeaveApart DEF RefuseReady
  <1>15. CASE PreloadDone
    BY <1>15, LeaveApart DEF PreloadDone
  <1>16. CASE AskGoalHook
    BY <1>0, <1>16, GoToApart DEF AskGoalHook, ReadyFor
  <1>17. CASE GoalHookRefuses
    BY <1>17, LeaveApart DEF GoalHookRefuses
  <1>18. CASE StartCompact
    <2>1. /\ at = "ready" /\ Edit(held, Launched(entry[held], "compacting", "tail"))
          /\ Unlock /\ UNCHANGED <<table, lifeVars>>
      BY <1>18 DEF StartCompact, ReadyFor
    <2>2. /\ held \in Entries /\ entry[held] \in EntryType /\ MayRun(held)
          /\ \A x \in Entries : Driven(x) => x = held
      BY <2>1, InHand
    <2>3. Launched(entry[held], "compacting", "tail") \in EntryType
      BY <2>2, LaunchedEntry
    <2> QED
      BY <2>1, <2>2, <2>3, StartApart
  <1>19. CASE PullSwitchHead
    <2>1. at = "ready" /\ at' = "head" /\ UNCHANGED <<held, table, lifeVars>>
      BY <1>19 DEF PullSwitchHead, ReadyFor
    <2>2. /\ held \in Entries /\ entry[held] \in EntryType /\ MayRun(held)
          /\ \A x \in Entries : Driven(x) => x = held
      BY <2>1, InHand
    <2>3. \A x \in Entries : x # held => entry'[x] = entry[x]
      BY <1>19, <2>2 DEF PullSwitchHead, Edit, RunsOK, TypeOK
    <2>4. \A x \in Entries : Driven(x)' => x = held
      BY <2>2, <2>3 DEF Driven
    <2>5. BeforeOK' /\ ForkOK'
      BY <2>1 DEF BeforeOK, ForkOK, SnapshotIsQuiet
    <2>6. InHandOK'
      BY <2>1, <2>2, <2>4 DEF InHandOK, MayRun, lifeVars
    <2>7. MarksOK'
      BY <2>1 DEF ApartOK, MarksOK, lifeVars
    <2>8. TableRunOK' /\ MutualExclusion'
      <3>1. held # None
        BY <2>2 DEF Entries, None
      <3> QED
        BY <2>1, <2>2, <2>4, <3>1 DEF TableRunOK, MutualExclusion, MayRun, lifeVars
    <2> QED
      BY <2>5, <2>6, <2>7, <2>8 DEF ApartOK
  <1>20. CASE SwitchSettles \/ SwitchStreams
    <2>1. at = "head"
      BY <1>20, Zenon DEF SwitchSettles, SwitchStreams
    <2>2. held \in Entries /\ Driven(held)
      BY <2>1, RunOf
    <2>3. at' = "idle" /\ UNCHANGED <<table, lifeVars>>
      <3>1. CASE SwitchSettles
        BY <3>1, Zenon DEF SwitchSettles, Unlock
      <3>2. CASE SwitchStreams
        BY <3>2, Zenon DEF SwitchStreams, Unlock
      <3> QED
        BY <1>20, <3>1, <3>2
    <2>4. \A x \in Entries : x # held => entry'[x] = entry[x]
      <3>1. CASE SwitchSettles
        BY <2>2, <3>1 DEF SwitchSettles, Edit, RunsOK, TypeOK
      <3>2. CASE SwitchStreams
        BY <2>2, <3>2 DEF SwitchStreams, Edit, RunsOK, TypeOK
      <3> QED
        BY <1>20, <3>1, <3>2
    <2>5. \A x \in Entries : Driven(x)' => Driven(x)
      BY <2>2, <2>4 DEF Driven
    <2> QED
      BY <2>3, <2>5, UnlockApart
  <1>21. CASE StartSnapshot
    <2>1. CASE table # None /\ ~Idle(table)
      BY <1>21, <2>1, LeaveApart DEF StartSnapshot
    <2>2. CASE ~(table # None /\ ~Idle(table))
      <3>1. Waits /\ ~marked /\ GoTo("snapshot", None) /\ UNCHANGED table
        BY <1>0, <1>21, <2>2 DEF StartSnapshot
      <3>2. row => \A x \in Entries : ~Driven(x)
        <4>1. at = "idle" => (table # None => (Driven(table) <=> ~Idle(table)))
          BY RunOf
        <4> QED
          BY <2>2, <3>1, <4>1 DEF ApartOK, TableRunOK, Waits
      <3> QED
        BY <3>1, <3>2, GoToApart
    <2> QED
      BY <2>1, <2>2
  <1>22. CASE EndSnapshot
    BY <1>22, LeaveApart DEF EndSnapshot
  <1>23. ASSUME NEW r \in EntryType, NEW t, table # None, Launch(table, r, t) PROVE ApartOK'
    <2>1. Launched(r, "running", "boot") \in EntryType
      BY LaunchedEntry
    <2>2. \A x \in Entries : Driven(x) => x = table
      BY <1>23 DEF ApartOK, TableRunOK
    <2>3. table \in Entries /\ MayRun(table)
      BY <1>23 DEF MayRun
    <2> QED
      BY <1>23, <2>1, <2>2, <2>3, StartApart DEF Launch
  <1>24. CASE StartQueuedFollowUp
    <2>1. CASE Accepting /\ table # None /\ Idle(table) /\ entry[table].followUps # <<>>
      <3> DEFINE r == [entry[table] EXCEPT !.followUps = Tail(@)]
      <3>1. table \in Entries /\ entry[table] \in EntryType
        BY <2>1
      <3>2. Tail(entry[table].followUps) \in Seq(Tasks)
        BY <2>1, <3>1 DEF EntryType
      <3>3. r \in EntryType
        BY <3>1, <3>2 DEF EntryType
      <3>4. Launch(table, r, Head(entry[table].followUps))
        BY <1>24, <2>1 DEF StartQueuedFollowUp
      <3> HIDE DEF r
      <3> QED
        BY <1>23, <2>1, <3>3, <3>4
    <2>2. CASE ~(Accepting /\ table # None /\ Idle(table) /\ entry[table].followUps # <<>>)
      BY <1>24, <2>2, LeaveApart DEF StartQueuedFollowUp
    <2> QED
      BY <2>1, <2>2
  <1>25. CASE StartBackgroundNoticeTask
    <2>1. CASE Leave
      BY <2>1, LeaveApart
    <2>2. CASE ~Leave
      <3> DEFINE r == [entry[table] EXCEPT !.notices = {}]
      <3>1. table # None /\ Launch(table, r, NoTask)
        BY <1>25, <2>2 DEF StartBackgroundNoticeTask
      <3>2. r \in EntryType
        BY <3>1 DEF EntryType
      <3> HIDE DEF r
      <3> QED
        BY <1>23, <3>1, <3>2
    <2> QED
      BY <2>1, <2>2
  <1> QED
    BY <1>1, <1>2, <1>3, <1>4, <1>5, <1>6, <1>7, <1>8, <1>9, <1>10, <1>11, <1>12, <1>13,
       <1>14, <1>15, <1>16, <1>17, <1>18, <1>19, <1>20, <1>21, <1>22, <1>24, <1>25 DEF LockStep

\* A run's step starts nothing.
LEMMA RunApart ==
    ASSUME RunsOK, ApartOK, NEW e \in 1..made, RunStep(e)
    PROVE  ApartOK'
  <1>0. e \in Entries
    BY MadeEntry DEF RunsOK
  <1>1. CASE DriveEnds(e)
    <2>1. UNCHANGED <<table, at, held, lifeVars>>
      BY <1>1, Zenon DEF DriveEnds
    <2>2. entry[e].phase = "tail" /\ \A x \in Entries : x # e => entry'[x] = entry[x]
      BY <1>0, <1>1 DEF DriveEnds, Edit, RunsOK, TypeOK
    <2>3. Driven(e)
      BY <1>0, <2>2 DEF RunsOK, PhaseOK, Driven
    <2>4. \A x \in Entries : Driven(x)' => Driven(x)
      BY <2>2, <2>3 DEF Driven
    <2> QED
      BY <2>1, <2>4, BesideApart
  <1>2. ASSUME UNCHANGED <<table, at, held, lifeVars>>,
               \A x \in Entries : entry'[x].drives = entry[x].drives
        PROVE  ApartOK'
    BY <1>2, BesideApart DEF Driven
  <1>3. CASE EngineStarts(e)
    BY <1>0, <1>2, <1>3 DEF EngineStarts, lockVars, Edit, RunsOK, TypeOK, EntryType
  <1>4. CASE EngineDelivers(e)
    BY <1>0, <1>2, <1>4 DEF EngineDelivers, lockVars, Edit, RunsOK, TypeOK, EntryType
  <1>5. CASE EngineExits(e)
    BY <1>0, <1>2, <1>5 DEF EngineExits, lockVars, Edit, RunsOK, TypeOK, EntryType
  <1>6. ASSUME NEW n \in Notices, StartBackground(e, n) PROVE ApartOK'
    BY <1>0, <1>2, <1>6 DEF StartBackground, lockVars, Edit, RunsOK, TypeOK, EntryType
  <1>7. ASSUME NEW n \in Notices, BackgroundDone(e, n) PROVE ApartOK'
    BY <1>0, <1>2, <1>7 DEF BackgroundDone, Edit, RunsOK, TypeOK, EntryType
  <1>8. CASE AskApproval(e)
    BY <1>0, <1>2, <1>8 DEF AskApproval, lockVars, Edit, RunsOK, TypeOK, EntryType
  <1> QED
    BY <1>1, <1>3, <1>4, <1>5, <1>6, <1>7, <1>8 DEF RunStep

\* Neither does a person, beside the lock.
LEMMA PersonApart ==
    ASSUME RunsOK, ApartOK, PersonStep
    PROVE  ApartOK'
  <1>1. /\ UNCHANGED <<table, at, held, lifeVars>>
        /\ \A x \in Entries : entry'[x].drives = entry[x].drives
    <2>0. table # None => table \in Entries
      BY Holding
    <2>1. ASSUME NEW k \in Kinds, NEW t \in Tasks \cup {NoTask}, Submit(k, t)
          PROVE  /\ UNCHANGED <<table, at, held, lifeVars>>
                 /\ \A x \in Entries : entry'[x].drives = entry[x].drives
      BY <2>1 DEF Submit
    <2>2. CASE DecideApproval
      BY <2>0, <2>2 DEF DecideApproval, lockVars, Edit, RunsOK, TypeOK, EntryType
    <2>3. CASE AbortTask
      BY <2>0, <2>3 DEF AbortTask, lockVars, Edit, RunsOK, TypeOK, EntryType
    <2>4. ASSUME NEW i \in 1..Cardinality(Tasks), RecallFollowUp(i)
          PROVE  /\ UNCHANGED <<table, at, held, lifeVars>>
                 /\ \A x \in Entries : entry'[x].drives = entry[x].drives
      BY <2>0, <2>4 DEF RecallFollowUp, lockVars, Edit, RunsOK, TypeOK, EntryType
    <2> QED
      BY <2>1, <2>2, <2>3, <2>4 DEF PersonStep
  <1> QED
    BY <1>1, BesideApart DEF Driven

\* What may happen from outside: new credentials, and a deletion.
LEMMA OutsideApart ==
    ASSUME Undisturbed, RunsOK, ApartOK, OutsideStep
    PROVE  ApartOK'
  <1>0. "sweep" \notin Events /\ "shutdown" \notin Events
        /\ "deleteFails" \notin Events /\ "settleTimeout" \notin Events
    BY DEF Undisturbed
  <1>1. ASSUME NEW other \in BOOLEAN, CredentialsChange(other) PROVE ApartOK'
    <2>1. \A x \in Entries : entry'[x].drives = entry[x].drives
      BY <1>1 DEF CredentialsChange, RunsOK, TypeOK, EntryType
    <2> QED
      BY <1>1, <2>1, BesideApart DEF CredentialsChange, Driven
  <1>2. CASE GrowsOld \/ SweepIdle \/ Shutdown
    BY <1>0, <1>2 DEF GrowsOld, SweepIdle, Shutdown
  <1>3. CASE BeginSessionDeletion
    <2>1. /\ table' = None /\ marked' = TRUE /\ deletion' = "settling" /\ row /\ ~closed
          /\ deletion = "none" /\ "delete" \in Events
          /\ awaited' = {x \in Entries : x = table /\ Driven(x)}
          /\ UNCHANGED <<at, held, row, closed>>
          /\ \A x \in Entries : Driven(x)' <=> Driven(x)
      BY <1>3, TakenOff DEF BeginSessionDeletion, lockVars
    <2>2. ~marked
      BY <2>1 DEF ApartOK, MarksOK
    <2>3. MarksOK' /\ ForkOK'
      BY <2>1 DEF MarksOK, ForkOK
    <2>4. TableRunOK' /\ MutualExclusion'
      BY <2>1 DEF ApartOK, TableRunOK, MutualExclusion
    <2>5. \A x \in Entries : Driven(x) => x = table
      BY <2>1, <2>2 DEF ApartOK, TableRunOK
    <2>6. BeforeOK'
      BY <2>1, <2>5 DEF BeforeOK, Awaiting
    <2>7. InHandOK'
      BY <2>1, <2>2, <2>5 DEF ApartOK, InHandOK
    <2> QED
      BY <2>3, <2>4, <2>6, <2>7 DEF ApartOK
  <1>4. CASE DeletionSettles
    <2>1. /\ deletion = "settling" /\ deletion' = "removing" /\ \A x \in awaited : ~Driven(x)
          /\ UNCHANGED <<entry, table, at, held, row, marked, closed>>
      BY <1>0, <1>4 DEF DeletionSettles, lockVars
    <2>2. \A x \in Entries : Driven(x)' <=> Driven(x)
      BY <2>1 DEF Driven
    <2>3. Awaiting => \A x \in Entries : ~Driven(x)
      BY <2>1 DEF Awaiting
    <2>4. BeforeOK'
      BY <2>1, <2>2, <2>3 DEF ApartOK, BeforeOK, Awaiting
    <2>5. InHandOK' /\ MarksOK'
      BY <2>1, <2>2 DEF ApartOK, InHandOK, MarksOK
    <2>6. TableRunOK' /\ ForkOK' /\ MutualExclusion'
      BY <2>1, <2>2 DEF ApartOK, TableRunOK, ForkOK, SnapshotIsQuiet, MutualExclusion
    <2> QED
      BY <2>4, <2>5, <2>6 DEF ApartOK
  <1>5. CASE EndSessionDeletion
    <2>1. /\ deletion = "removing" /\ deletion' = "none" /\ marked' = FALSE /\ row' = FALSE
          /\ UNCHANGED <<entry, table, at, held, closed>>
      BY <1>0, <1>5 DEF EndSessionDeletion, lockVars
    <2>2. \A x \in Entries : Driven(x)' <=> Driven(x)
      BY <2>1 DEF Driven
    <2>3. "delete" \in Events /\ table = None
      BY <2>1 DEF ApartOK, MarksOK
    <2>4. Awaiting => \A x \in Entries : ~Driven(x)
      BY <2>1 DEF Awaiting
    <2>5. BeforeOK'
      BY <2>1, <2>2, <2>4 DEF ApartOK, BeforeOK, Awaiting
    <2>6. InHandOK' /\ MarksOK' /\ ForkOK'
      BY <2>1, <2>2, <2>3 DEF ApartOK, InHandOK, MarksOK, ForkOK
    <2>7. TableRunOK' /\ MutualExclusion'
      BY <2>1, <2>2, <2>3 DEF ApartOK, TableRunOK, MutualExclusion
    <2> QED
      BY <2>5, <2>6, <2>7 DEF ApartOK
  <1> QED
    BY <1>1, <1>2, <1>3, <1>4, <1>5 DEF OutsideStep

\* So the invariant holds, where nothing but a deletion that runs its course takes a runtime.
LEMMA ApartHolds == ASSUME Undisturbed PROVE Spec => [](RunsOK /\ ApartOK)
  <1>1. Init => ApartOK
    <2> SUFFICES ASSUME Init PROVE ApartOK
      OBVIOUS
    <2>1. \A e \in Entries : ~Driven(e)
      BY DEF Init, Driven, NewEntry
    <2> QED
      BY <2>1 DEF Init, ApartOK, TableRunOK, BeforeOK, InHandOK, MarksOK, ForkOK,
                  SnapshotIsQuiet, MutualExclusion
  <1>2. RunsOK /\ ApartOK /\ [Next]_vars => ApartOK'
    <2> SUFFICES ASSUME RunsOK, ApartOK, [Next]_vars PROVE ApartOK'
      OBVIOUS
    <2>1. ASSUME NEW e \in 1..made, RunStep(e) PROVE ApartOK'
      BY <2>1, RunApart
    <2>2. CASE UNCHANGED vars
      BY <2>2, BesideApart DEF vars, lifeVars, Driven
    <2> QED
      BY <2>1, <2>2, LockApart, PersonApart, OutsideApart DEF Next
  <1> QED
    BY <1>1, <1>2, RunsInit, RunsNext, PTL DEF Spec

\* With goals, network refreshes and every other operation, one Task, compaction or model switch
\* is in progress at a time over all runtimes, if nothing takes a runtime from the table but a
\* deletion that waits for its run and succeeds (startGoal, ensureEntry, beginSessionDeletion).
THEOREM SessionOneRunUndisturbed == ASSUME Undisturbed PROVE Spec => []MutualExclusion
  <1>1. ApartOK => MutualExclusion
    BY DEF ApartOK
  <1> QED
    BY <1>1, ApartHolds, PTL

\* And a fork never reads the Trace of a Session at work, if that is not deleted either.
THEOREM SessionForkUndisturbed ==
    ASSUME Events \subseteq {"credentials"} PROVE Spec => []SnapshotIsQuiet
  <1>1. Undisturbed /\ "delete" \notin Events
    BY DEF Undisturbed
  <1>2. ApartOK => SnapshotIsQuiet
    BY <1>1 DEF ApartOK, ForkOK
  <1> QED
    BY <1>1, <1>2, ApartHolds, PTL

=============================================================================
