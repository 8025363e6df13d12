------------------------------ MODULE Scheduler ------------------------------
(***************************************************************************)
(* The schedule runner of packages/server/src/runtime/scheduler.ts with    *)
(* the file cache of schedule-store.ts, the run state of                   *)
(* db/repos/schedules.ts and the routes of http/routes/schedules.ts, seen  *)
(* from ONE task of one Agent: its file, which people edit, its row of run *)
(* state, its queued fire, and the passes that look at it, which overlap:  *)
(* the periodic tick, a write route, a listing, a delete route.            *)
(*                                                                         *)
(* An action is the code between two awaits.  Time is counted in steps; a  *)
(* pass may take any number of them.                                       *)
(***************************************************************************)
EXTENDS Naturals

CONSTANTS
    Tick,                     \* the pass of the timer
    Requests,                 \* the requests that may be in flight at once
    Kinds,                    \* what they are (see RequestKinds)
    Definitions,              \* the definitions the file may carry
    Events,                   \* the outside events that may happen (see AllEvents)
    NoFile, Unparsable,       \* no file; a file that does not parse
    NoRow, NoFire, None,
    MaxTime                   \* bound: where the clock stops

RequestKinds == {"write", "list", "delete"}
AllEvents == {"edit", "stop", "sessionDeleted", "failures"}

\* What parseScheduleFile accepts.  A period of 0 is a one-shot, an end of 0 is none,
\* and the target a bound Session or a new one for each fire.
ScheduleDefinition ==
    {d \in [start : Nat \ {0}, period : Nat, end : Nat, enabled : BOOLEAN,
            target : {"bound", "new"}] : d.end = 0 \/ d.end > d.start}
Files == Definitions \cup {NoFile, Unparsable}

ASSUME ConstantsAssumption ==
    /\ Tick \notin Requests
    /\ None \notin Requests \cup {Tick}
    /\ Kinds \subseteq RequestKinds
    /\ \A d \in Definitions : d \in ScheduleDefinition
    /\ Events \subseteq AllEvents
    /\ NoFile # Unparsable
    /\ {NoFile, Unparsable} \cap Definitions = {}
    /\ MaxTime \in Nat

VARIABLES
    now,      \* the clock
    file,     \* schedule/<name>.toml
    row,      \* its schedule_state row, or NoRow
    pending,  \* its queued fire, or NoFire: in memory only
    scan,     \* the directory scan in flight that listings share
    pass,     \* where each pass is, and what it has in hand
    session,  \* the bound Session: idle, busy or deleted
    up,       \* the server runs
    since,    \* when it was started last
    sent,     \* the fires that were sent
    resent    \* some fire was sent more than once

vars == <<now, file, row, pending, scan, pass, session, up, since, sent, resent>>
ghosts == <<sent, resent>>
outside == <<now, session, up, since>>

-----------------------------------------------------------------------------

Passes == Requests \cup {Tick}

\* A due time of a definition, consumed and on its way to a Session.
Fires == [def : Definitions, slot : Nat]

Row(d) == [def |-> d, last |-> 0, fired |-> FALSE, missed |-> FALSE, invalid |-> FALSE]

\* A pass: what it is, where it waits, the definition and the fire it has in hand,
\* the Session the fire goes to, and what follows the sending or archiving: the
\* cleanup (again: after archiveIfSettled was asked once more), or nothing.
Pass(kind, at, d) ==
    [kind |-> kind, at |-> at, def |-> d, fire |-> NoFire, to |-> "bound",
     then |-> "cleanup"]
Off == Pass("none", "off", NoFile)

\* latestSlotAt, once start_at has come.
LatestSlot(d) ==
    IF d.period = 0 THEN d.start
    ELSE d.start + ((now - d.start) \div d.period) * d.period

\* isSettledStatus(scheduleStatus(...)): done, missed or expired, and not invalid.
Settled(d, r) ==
    /\ ~r.invalid
    /\ \/ d.period = 0 /\ (r.fired \/ r.missed)
       \/ d.end # 0 /\ now > d.end

\* registerOrSync: insert, reset on a new start_at, revalidate on another change.
Fresh(d) == row = NoRow \/ row.def.start # d.start
Synced(d) ==
    IF Fresh(d) THEN Row(d)
    ELSE IF row.def # d THEN [row EXCEPT !.def = d, !.invalid = FALSE] ELSE row

\* registerEntry: what is due already when the task becomes known is not made up.
Registered(d) ==
    IF ~Fresh(d) \/ now < d.start THEN Synced(d)
    ELSE IF d.period = 0 THEN [Row(d) EXCEPT !.missed = TRUE]
    ELSE [Row(d) EXCEPT !.last = LatestSlot(d)]

\* evaluateEntry's decision, on a row that was just registered.
Due(d, r) ==
    /\ d.enabled /\ ~r.invalid
    /\ ~(d.period = 0 /\ (r.fired \/ r.missed))
    /\ now >= d.start
    /\ d.end = 0 \/ LatestSlot(d) <= d.end
    /\ LatestSlot(d) > r.last

-----------------------------------------------------------------------------

At(p, point) == pass[p].at = point
Edit(p, q) == pass' = [pass EXCEPT ![p] = q]
Move(p, point) == Edit(p, [pass[p] EXCEPT !.at = point])
End(p) == Edit(p, Off)

GoOn(p) == IF pass[p].then = "off" THEN End(p) ELSE Move(p, "cleanup")

\* archiveIfSettled: the pass archives the task first, or goes straight on.
Archivable(d, r, fire) == r # NoRow /\ Settled(d, r) /\ fire = NoFire
ArchiveIfSettled(p, d, r, fire, next) ==
    IF Archivable(d, r, fire)
    THEN Edit(p, [pass[p] EXCEPT !.at = "archive", !.then = next])
    ELSE GoOn(p)

\* ScheduleFileCache.list: a pass joins the scan in flight, a forced one waits for it.
Listed(p, q, forced) ==
    IF scan.at = "none"
    THEN /\ scan' = [at |-> "started", saw |-> NoFile]
         /\ Edit(p, [q EXCEPT !.at = "join"])
    ELSE /\ Edit(p, [q EXCEPT !.at = IF forced THEN "wait" ELSE "join"])
         /\ UNCHANGED scan

-----------------------------------------------------------------------------
(* Passes begin *)

StartTick ==
    /\ up /\ At(Tick, "off")
    /\ Listed(Tick, Pass("tick", "join", NoFile), FALSE)
    /\ UNCHANGED <<file, row, pending, outside, ghosts>>

StartList(p) ==
    /\ up /\ "list" \in Kinds /\ At(p, "off")
    /\ Listed(p, Pass("list", "join", NoFile), FALSE)
    /\ UNCHANGED <<file, row, pending, outside, ghosts>>

\* upsert's checks: a one-shot needs a future start, an end_at a future end.
StartWrite(p, d) ==
    /\ up /\ "write" \in Kinds /\ At(p, "off")
    /\ d.period = 0 => d.start > now
    /\ d.end = 0 \/ d.end > now
    /\ Edit(p, Pass("write", "write", d))
    /\ UNCHANGED <<file, row, pending, scan, outside, ghosts>>

WriteFile(p) ==
    /\ At(p, "write")
    /\ file' = pass[p].def
    /\ Move(p, "written")
    /\ UNCHANGED <<row, pending, scan, outside, ghosts>>

\* upsert registers with no baseline of its own, and reconcileAgent lists by force.
RegisterWritten(p) ==
    /\ At(p, "written")
    /\ row' = Synced(pass[p].def)
    /\ Listed(p, pass[p], TRUE)
    /\ UNCHANGED <<file, pending, outside, ghosts>>

StartDelete(p) ==
    /\ up /\ "delete" \in Kinds /\ At(p, "off")
    /\ file # NoFile
    /\ file' = NoFile
    /\ Edit(p, Pass("delete", "deleted", NoFile))
    /\ UNCHANGED <<row, pending, scan, outside, ghosts>>

DropEntry(p) ==
    /\ At(p, "deleted")
    /\ row' = NoRow
    /\ pending' = NoFire
    /\ End(p)
    /\ UNCHANGED <<file, scan, outside, ghosts>>

ScanReads ==
    /\ scan.at = "started"
    /\ scan' = [at |-> "read", saw |-> file]
    /\ UNCHANGED <<file, row, pending, pass, outside, ghosts>>

\* Mutant: who waited for the scan is not looked at again.
ScanEndsForgetting ==
    /\ scan.at = "read"
    /\ scan' = [at |-> "none", saw |-> NoFile]
    /\ pass' = [p \in Passes |->
                  IF At(p, "join") THEN [pass[p] EXCEPT !.at = "evaluate", !.def = scan.saw]
                  ELSE pass[p]]
    /\ UNCHANGED <<file, row, pending, outside, ghosts>>

\* The scan is over: who joined it goes on with what it read, and the first of those
\* that waited for it scans again.
ScanEnds ==
    /\ scan.at = "read"
    /\ LET waiting == {p \in Passes : At(p, "wait")}
       IN \E first \in IF waiting = {} THEN {None} ELSE waiting :
            /\ scan' = [at |-> IF waiting = {} THEN "none" ELSE "started", saw |-> NoFile]
            /\ pass' = [p \in Passes |->
                          IF At(p, "join") THEN [pass[p] EXCEPT !.at = "evaluate",
                                                                !.def = scan.saw]
                          ELSE IF p = first THEN [pass[p] EXCEPT !.at = "join"]
                          ELSE pass[p]]
    /\ UNCHANGED <<file, row, pending, outside, ghosts>>

-----------------------------------------------------------------------------
(* registerEntry, evaluateEntry, dispatch *)

Reads(p) == At(p, "evaluate") /\ pass[p].def \in Definitions

\* There is no such file, or it does not parse.
SkipFile(p) ==
    /\ At(p, "evaluate")
    /\ pass[p].def \notin Definitions
    /\ Move(p, "cleanup")
    /\ UNCHANGED <<file, row, pending, scan, outside, ghosts>>

\* Mutant: a reconcile pass leaves the archiving to the sends.
NotDueUnarchived(p) ==
    /\ Reads(p)
    /\ pass[p].kind = "list" \/ ~Due(pass[p].def, Registered(pass[p].def))
    /\ row' = Registered(pass[p].def)
    /\ Move(p, "cleanup")
    /\ UNCHANGED <<file, pending, scan, outside, ghosts>>

\* A listing only registers; a reconcile finds nothing due.  Either archives.
NotDue(p) ==
    /\ Reads(p)
    /\ pass[p].kind = "list" \/ ~Due(pass[p].def, Registered(pass[p].def))
    /\ row' = Registered(pass[p].def)
    /\ ArchiveIfSettled(p, pass[p].def, row', pending, "cleanup")
    /\ UNCHANGED <<file, pending, scan, outside, ghosts>>

\* The slot is consumed, whatever becomes of the fire.
Consumed(d) == [Registered(d) EXCEPT !.last = LatestSlot(d)]
NextFire(p) == [def |-> pass[p].def, slot |-> LatestSlot(pass[p].def)]

Dispatch(p, target) ==
    /\ Reads(p)
    /\ pass[p].kind # "list"
    /\ Due(pass[p].def, Registered(pass[p].def))
    /\ pass[p].def.target = target

SessionMissing(p) ==
    /\ Dispatch(p, "bound")
    /\ session = "deleted"
    /\ row' = [Consumed(pass[p].def) EXCEPT !.invalid = TRUE]
    /\ Move(p, "cleanup")
    /\ UNCHANGED <<file, pending, scan, outside, ghosts>>

\* At most one fire waits; further slots are consumed and do not stack.
QueueFire(p) ==
    /\ Dispatch(p, "bound")
    /\ session = "busy"
    /\ row' = Consumed(pass[p].def)
    /\ pending' = IF pending = NoFire THEN NextFire(p) ELSE pending
    /\ Move(p, "cleanup")
    /\ UNCHANGED <<file, scan, outside, ghosts>>

\* startTask, or createSession first, is called at once and awaited.
FireNow(p) ==
    /\ \/ Dispatch(p, "bound") /\ session = "idle"
       \/ Dispatch(p, "new")
    /\ row' = Consumed(pass[p].def)
    /\ Edit(p, [pass[p] EXCEPT !.at = "send", !.fire = NextFire(p),
                               !.to = pass[p].def.target, !.then = "again"])
    /\ UNCHANGED <<file, pending, scan, outside, ghosts>>

-----------------------------------------------------------------------------
(* send and archiveIfSettled *)

\* A new Session is nobody else's; a bound one may be busy again, or gone.
CanSend(p) == pass[p].to = "new" \/ session = "idle"

\* The fire was sent: markFired, then archiveIfSettled.
Sent(p) ==
    /\ At(p, "send")
    /\ CanSend(p)
    /\ row' = IF row = NoRow THEN NoRow
              ELSE [row EXCEPT !.fired = @ \/ pass[p].def.period = 0]
    /\ session' = IF pass[p].to = "new" THEN session ELSE "busy"
    /\ sent' = sent \cup {pass[p].fire}
    /\ resent' = (resent \/ pass[p].fire \in sent)
    /\ ArchiveIfSettled(p, pass[p].def, row', pending, pass[p].then)
    /\ UNCHANGED <<now, file, pending, scan, up, since>>

\* startTask (or createSession) throws: recorded, the slot stays consumed.
SendFails(p) ==
    /\ At(p, "send")
    /\ ~CanSend(p) \/ "failures" \in Events
    /\ IF pass[p].then = "off" THEN End(p)
       ELSE ArchiveIfSettled(p, pass[p].def, row, pending, "cleanup")
    /\ UNCHANGED <<file, row, pending, scan, outside, ghosts>>

\* archiveScheduleFile moves what is there now, or finds it gone.
ArchiveMoves(p) ==
    /\ At(p, "archive")
    /\ file' = NoFile
    /\ Move(p, "archived")
    /\ UNCHANGED <<row, pending, scan, outside, ghosts>>

ArchiveFails(p) ==
    /\ At(p, "archive")
    /\ "failures" \in Events
    /\ IF pass[p].then = "again"
       THEN ArchiveIfSettled(p, pass[p].def, row, pending, "cleanup")
       ELSE GoOn(p)
    /\ UNCHANGED <<file, row, pending, scan, outside, ghosts>>

ArchiveDone(p) ==
    /\ At(p, "archived")
    /\ row' = NoRow
    /\ GoOn(p)
    /\ UNCHANGED <<file, pending, scan, outside, ghosts>>

-----------------------------------------------------------------------------
(* cleanupMissing and drainQueue *)

\* Mutant: the run state of a file that is gone is kept.
CleanupKeepsRow(p) ==
    /\ At(p, "cleanup")
    /\ IF pass[p].kind = "list" THEN End(p) ELSE Move(p, "drain")
    /\ UNCHANGED <<file, row, pending, scan, outside, ghosts>>

\* Rows that the pass's own listing does not name are deleted.
Cleanup(p) ==
    /\ At(p, "cleanup")
    /\ IF pass[p].def = NoFile /\ row # NoRow
       THEN row' = NoRow /\ pending' = NoFire
       ELSE UNCHANGED <<row, pending>>
    /\ IF pass[p].kind = "list" THEN End(p) ELSE Move(p, "drain")
    /\ UNCHANGED <<file, scan, outside, ghosts>>

\* Mutant: it comes to the fire without having taken it.
DrainUncopied(p) ==
    /\ At(p, "drain")
    /\ IF pending = NoFire THEN End(p) ELSE Move(p, "turn")
    /\ UNCHANGED <<file, row, pending, scan, outside, ghosts>>

\* drainQueue takes a copy of the queue, and comes to our fire in its turn.
Drain(p) ==
    /\ At(p, "drain")
    /\ IF pending = NoFire THEN End(p)
       ELSE Edit(p, [pass[p] EXCEPT !.at = "turn", !.fire = pending])
    /\ UNCHANGED <<file, row, pending, scan, outside, ghosts>>

DrainTurn(p) ==
    /\ At(p, "turn")
    /\ IF row = NoRow \/ row.invalid
       THEN pending' = NoFire /\ End(p)
       ELSE UNCHANGED pending /\ Move(p, "read")
    /\ UNCHANGED <<file, row, scan, outside, ghosts>>

Enabled == file \in Definitions /\ file.enabled

\* Mutant: a task that was switched off keeps its queued fire.
DrainDropsKept(p) ==
    /\ At(p, "read")
    /\ ~Enabled \/ session = "deleted"
    /\ UNCHANGED <<pending, row>>
    /\ End(p)
    /\ UNCHANGED <<file, scan, outside, ghosts>>

\* The file is gone, unreadable or switched off; or the Session is deleted.
DrainDrops(p) ==
    /\ At(p, "read")
    /\ ~Enabled \/ session = "deleted"
    /\ pending' = NoFire
    /\ row' = IF Enabled /\ row # NoRow THEN [row EXCEPT !.invalid = TRUE] ELSE row
    /\ End(p)
    /\ UNCHANGED <<file, scan, outside, ghosts>>

DrainWaits(p) ==
    /\ At(p, "read")
    /\ Enabled /\ session = "busy"
    /\ End(p)
    /\ UNCHANGED <<file, row, pending, scan, outside, ghosts>>

\* Mutant: the fire that is sent stays in the queue.
DrainSendsKept(p) ==
    /\ At(p, "read")
    /\ Enabled /\ session = "idle"
    /\ Edit(p, [pass[p] EXCEPT !.at = "send", !.def = file, !.to = "bound",
                               !.then = "off"])
    /\ UNCHANGED <<file, row, pending, scan, outside, ghosts>>

\* The definition of now, the Session and the place in the queue of then.
DrainSends(p) ==
    /\ At(p, "read")
    /\ Enabled /\ session = "idle"
    /\ pending' = NoFire
    /\ Edit(p, [pass[p] EXCEPT !.at = "send", !.def = file, !.to = "bound",
                               !.then = "off"])
    /\ UNCHANGED <<file, row, scan, outside, ghosts>>

-----------------------------------------------------------------------------
(* What happens outside *)

Passing == now < MaxTime /\ now' = now + 1
ClockTicks ==
    /\ Passing
    /\ UNCHANGED <<file, row, pending, scan, pass, session, up, since, ghosts>>

\* A person, or the Agent itself, edits, adds or removes the file.
HandEdit ==
    /\ "edit" \in Events
    /\ file' \in Files \ {file}
    /\ UNCHANGED <<row, pending, scan, pass, outside, ghosts>>

\* The bound Session's own Tasks begin and end; it may be deleted.
SessionBusy ==
    /\ up /\ session = "idle"
    /\ session' = "busy"
    /\ UNCHANGED <<now, file, row, pending, scan, pass, up, since, ghosts>>

SessionIdle ==
    /\ session = "busy"
    /\ session' = "idle"
    /\ UNCHANGED <<now, file, row, pending, scan, pass, up, since, ghosts>>

SessionDeleted ==
    /\ up /\ "sessionDeleted" \in Events
    /\ session # "deleted"
    /\ session' = "deleted"
    /\ UNCHANGED <<now, file, row, pending, scan, pass, up, since, ghosts>>

\* The process ends, in the middle of anything; the file and the row remain.
Stop ==
    /\ up /\ "stop" \in Events
    /\ up' = FALSE
    /\ pass' = [p \in Passes |-> Off]
    /\ scan' = [at |-> "none", saw |-> NoFile]
    /\ pending' = NoFire
    /\ session' = IF session = "busy" THEN "idle" ELSE session
    /\ UNCHANGED <<now, file, row, since, ghosts>>

Start ==
    /\ ~up
    /\ up' = TRUE
    /\ since' = now
    /\ UNCHANGED <<now, file, row, pending, scan, pass, session, ghosts>>

-----------------------------------------------------------------------------

Init ==
    /\ now = 0
    /\ file \in Files
    /\ row = NoRow
    /\ pending = NoFire
    /\ scan = [at |-> "none", saw |-> NoFile]
    /\ pass = [p \in Passes |-> Off]
    /\ session = "idle"
    /\ up = TRUE
    /\ since = 0
    /\ sent = {}
    /\ resent = FALSE

\* A pass goes on by itself.
PassStep(p) ==
    \/ WriteFile(p) \/ RegisterWritten(p) \/ DropEntry(p)
    \/ SkipFile(p) \/ NotDue(p) \/ SessionMissing(p) \/ QueueFire(p) \/ FireNow(p)
    \/ Sent(p) \/ SendFails(p) \/ ArchiveMoves(p) \/ ArchiveFails(p) \/ ArchiveDone(p)
    \/ Cleanup(p) \/ Drain(p) \/ DrainTurn(p)
    \/ DrainDrops(p) \/ DrainWaits(p) \/ DrainSends(p)

ScanStep == ScanReads \/ ScanEnds

RequestStep(p) ==
    \/ StartList(p) \/ StartDelete(p)
    \/ \E d \in Definitions : StartWrite(p, d)

OutsideStep ==
    \/ ClockTicks \/ HandEdit
    \/ SessionBusy \/ SessionIdle \/ SessionDeleted
    \/ Stop \/ Start

Next ==
    \/ StartTick \/ ScanStep
    \/ \E p \in Passes : PassStep(p)
    \/ \E p \in Requests : RequestStep(p)
    \/ OutsideStep

Spec == Init /\ [][Next]_vars

\* The timer ticks, disk reads and writes end, and startTask answers.
FairSpec ==
    /\ Spec
    /\ WF_vars(StartTick)
    /\ WF_vars(ScanStep)
    /\ \A p \in Passes : WF_vars(PassStep(p))

-----------------------------------------------------------------------------
(* Properties *)

Points == {"off", "write", "written", "deleted", "join", "wait", "evaluate", "send",
           "archive", "archived", "cleanup", "drain", "turn", "read"}

\* The types of the variables; a pass that sends has a fire in hand.
TypeOK ==
    /\ now \in 0..MaxTime /\ since \in 0..MaxTime
    /\ file \in Files
    /\ row \in {NoRow} \cup [def : Definitions, last : Nat, fired : BOOLEAN,
                            missed : BOOLEAN, invalid : BOOLEAN]
    /\ pending \in Fires \cup {NoFire}
    /\ scan \in [at : {"none", "started", "read"}, saw : Files]
    /\ pass \in [Passes -> [kind : RequestKinds \cup {"tick", "none"}, at : Points,
                            def : Files, fire : Fires \cup {NoFire},
                            to : {"bound", "new"}, then : {"cleanup", "again", "off"}]]
    /\ session \in {"idle", "busy", "deleted"}
    /\ up \in BOOLEAN /\ resent \in BOOLEAN
    /\ sent \subseteq Fires

\* A due time of a definition is sent at most once, however often its file is edited
\* and restored, listed and ticked over, and the server restarted (markSlot in
\* evaluateEntry; the baseline of registerEntry; the removal in drainQueue).
SentOnce == ~resent

\* A pass never waits for a scan that is not in flight: a forced listing that was
\* chained behind one gets a scan of its own (ScheduleFileCache.list).
ScanAwaited == \A p \in Passes : pass[p].at \in {"join", "wait"} => scan.at # "none"

\* A queued fire does not wait for ever once its Session is no longer busy.
QueueDrains == <>[](session # "busy") => (pending # NoFire ~> pending = NoFire)

\* A file that stays away takes its run state and its queued fire along: no pass that
\* read it before brings them back for good (cleanupMissing).
StateGoes == <>[](up /\ file = NoFile) => <>[](row = NoRow /\ pending = NoFire)

\* A settled task does not stay in schedule/ while the server runs.
SettledLeave ==
    ~<>[](/\ up /\ session # "busy"
          /\ file \in Definitions /\ row # NoRow /\ Settled(file, row))

\* A one-shot counts as fired only once its own time has come: a new start_at is a
\* new task instance (registerOrSync).
DoneWhenDue == row # NoRow /\ row.fired => row.def.start <= now

Dispatches(p) ==
    /\ At(p, "evaluate") /\ ~(pass'[p].at = "evaluate")
    /\ pass'[p].at = "send" \/ pending' \notin {pending, NoFire}

\* A time that went by while the server was stopped is not made up for.
NotMadeUp == [][\A p \in Passes : Dispatches(p) => LatestSlot(pass[p].def) >= since]_vars

=============================================================================
