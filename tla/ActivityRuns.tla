---------------------------- MODULE ActivityRuns ----------------------------
(***************************************************************************)
(* The runs of one Activity (packages/server/src/activities/generation.ts):*)
(* an agent's Session, a media helper, the server itself or a caller of    *)
(* openDeterministic works on an attempt, and what it made goes into the   *)
(* draft at once or once an author accepts it.  The Activity's lock, the   *)
(* Project's admission, the timer, Stop, the time limit, a stopping or     *)
(* crashing server and the deletion of the Project meet here.              *)
(*                                                                         *)
(* An action is the code between two awaits; an await during which the     *)
(* lock keeps everything away that could matter is no step of its own.     *)
(***************************************************************************)
EXTENDS Naturals

CONSTANTS
    Runs,         \* the attempts
    Kinds,        \* what each of them may be (see AllKinds)
    Contents,     \* what the draft may hold
    Blank,        \* what a new one holds
    NoRun,
    MaxRestarts   \* bound: crashes, stops and hot swaps of the server

\* place: who works, an agent's Session, the server instead of one (work), a media helper or
\* model run here, or the caller of openDeterministic.  use: what becomes of the result: the
\* run applies it, it is offered for acceptance (while the draft is unchanged), or nothing.
AllKinds == [place : {"session", "work"}, use : {"apply", "offer", "none"}]
            \cup [place : {"helper"}, use : {"offer"}]
            \cup [place : {"caller"}, use : {"offer", "none"}]

ASSUME RunsAssumption ==
    /\ Kinds \in [Runs -> SUBSET AllKinds]
    /\ NoRun \notin Runs
    /\ Blank \in Contents
    /\ MaxRestarts \in Nat

VARIABLES
    app,       \* "up", "exiting" or "swapping" (stopped), "drained"
    restarts,
    project,   \* "here", "deleting" (admission sealed), "removing", "gone"
    archived,  \* of the Activity
    torn,      \* history: the runs a crash caught between their change and their end
    draft,     \* its content; the revision is a hash of it, so it comes back with the content
    taken,     \* history: the results that went into the draft, and the content each replaced
    hold,      \* who holds the Activity's lock, and at which point of its operation
    entered,   \* the starts admitted that have not got the lock yet, or hold it
    asked,     \* the acceptances, likewise
    seen,      \* the draft a start or an acceptance waiting for the lock is meant for
    status,    \* activity_runs.status; "none" before the row, "gone" behind it
    kind,      \* the kind of each run
    input,     \* the draft it was started from (ActivityRun.inputRevision)
    kept,      \* there is a candidate
    session,   \* its Session: none, idle, busy with the run's Task or with a user's
    work,      \* its work outside a Session
    told,      \* its controller, or the Task its Session is busy with, was aborted
    waiting,   \* the runs a runAndAccept waits for
    pass       \* the runs the timer's pass has still to look at

env == <<app, restarts, project, archived, torn>>
book == <<draft, taken>>
requests == <<entered, asked, seen>>
about == <<kind, input, kept>>
effort == <<session, work, told>>
vars == <<env, book, hold, requests, status, about, effort, waiting, pass>>

-----------------------------------------------------------------------------

Ends == {"succeeded", "failed", "cancelled", "conflict", "interrupted"}
Statuses == {"none", "running", "gone"} \cup Ends
StartPoints == {"checking", "staging", "creating", "launching"}
Points == StartPoints \cup {"boundary", "collecting", "settled", "applied", "accepting"}

NoKind == [place |-> "none", use |-> "none"]
Free == [at |-> "free", run |-> NoRun]
At(point, r) == hold = [at |-> point, run |-> r]

Up == app = "up"
Stopping == app \in {"exiting", "swapping"}
Alive == Up \/ Stopping
Active == {r \in Runs : status[r] = "running"}
Place(r) == kind[r].place
Local(r) == Place(r) \in {"work", "helper"}
LocalRuns == {r \in Runs : Local(r) /\ work[r] \notin {"none", "over"}}
Busy == {r \in Runs : session[r] \in {"agent", "user"}}

Init ==
    /\ app = "up" /\ restarts = 0
    /\ project = "here" /\ archived = FALSE
    /\ torn = {}
    /\ draft = Blank /\ taken = {}
    /\ hold = Free
    /\ entered = {} /\ asked = {} /\ seen = [r \in Runs |-> Blank]
    /\ status = [r \in Runs |-> "none"]
    /\ kind = [r \in Runs |-> NoKind]
    /\ input = [r \in Runs |-> Blank]
    /\ kept = [r \in Runs |-> FALSE]
    /\ session = [r \in Runs |-> "none"]
    /\ work = [r \in Runs |-> "none"]
    /\ told = [r \in Runs |-> FALSE]
    /\ waiting = {} /\ pass = {}

-----------------------------------------------------------------------------
(* What the operations are made of. *)

\* finish: the row if there is one still, and whoever waits for the run.
Finish(r, end) ==
    /\ status' = [status EXCEPT ![r] = IF @ = "gone" THEN @ ELSE end]
    /\ waiting' = waiting \ {r}
NotFinished == UNCHANGED <<status, waiting>>

\* Every run of a set has its controller aborted, or its Session's Task.
Abort(runs) == told' = [r \in Runs |-> told[r] \/ r \in runs]

Take(point, r) == hold = Free /\ hold' = [at |-> point, run |-> r]
Advance(from, to, r) == At(from, r) /\ hold' = [at |-> to, run |-> r]
Release(r) == hold.run = r /\ hold' = Free

\* Any content may follow, the one there is (a pin, an edit that changes nothing) and an
\* earlier one (an edit undone, a snapshot restored) included.
Change == draft' \in Contents

TakeResult(r) == Change /\ taken' = taken \cup {[by |-> r, over |-> draft]}

-----------------------------------------------------------------------------
(* Starting a run. *)

StillWorking == UNCHANGED <<env, book, asked, about, effort, pass>>

\* start, up to the lock: admitted by ProjectActivityWork.
Enter(r) ==
    /\ Up /\ project = "here"
    /\ status[r] = "none" /\ r \notin entered
    /\ entered' = entered \cup {r}
    /\ seen' = [seen EXCEPT ![r] = draft]
    /\ \E k \in Kinds[r] : k.place # "caller" /\ kind' = [kind EXCEPT ![r] = k]
    /\ NotFinished /\ UNCHANGED <<env, book, hold, asked, input, kept, effort, pass>>

\* Refused: stopping, archived, another revision.
Refused(r) ==
    /\ Alive /\ hold = Free /\ r \in entered
    /\ Stopping \/ archived \/ seen[r] # draft
    /\ entered' = entered \ {r}
    /\ seen' = [seen EXCEPT ![r] = Blank]
    /\ NotFinished /\ StillWorking /\ UNCHANGED hold

StartChecks(r) ==
    /\ Up /\ ~archived
    /\ r \in entered /\ seen[r] = draft
    /\ Take("checking", r)
    /\ seen' = [seen EXCEPT ![r] = Blank]
    /\ NotFinished /\ StillWorking /\ UNCHANGED entered

\* Refused by what the kind checks, by a stop meanwhile, or by the run at work.
StartRefused(r) ==
    /\ Alive /\ At("checking", r)
    /\ Release(r)
    /\ entered' = entered \ {r}
    /\ NotFinished /\ StillWorking /\ UNCHANGED seen

\* Mutant: the run at work is not looked for once more behind the checks.
StartOpensUnchecked(r) ==
    /\ Up
    /\ Advance("checking", "staging", r)
    /\ status' = [status EXCEPT ![r] = "running"]
    /\ input' = [input EXCEPT ![r] = draft]
    /\ UNCHANGED <<env, book, requests, kind, kept, effort, waiting, pass>>

\* hasActive and open, with no await between them.
StartOpens(r) ==
    /\ Up /\ Active = {}
    /\ Advance("checking", "staging", r)
    /\ status' = [status EXCEPT ![r] = "running"]
    /\ input' = [input EXCEPT ![r] = draft]
    /\ UNCHANGED <<env, book, requests, kind, kept, effort, waiting, pass>>

\* Whatever fails once the run is open, the server stopping included, ends it.
StartFails(r) ==
    /\ Alive
    /\ hold.at \in {"staging", "creating", "launching"} /\ Release(r)
    /\ Finish(r, IF Up THEN "failed" ELSE "interrupted")
    /\ entered' = entered \ {r}
    /\ StillWorking /\ UNCHANGED seen

\* Staged, the server works on it: workLocally.
StartsWork(r) ==
    /\ Up /\ Local(r)
    /\ At("staging", r) /\ Release(r)
    /\ work' = [work EXCEPT ![r] = "working"]
    /\ entered' = entered \ {r}
    /\ NotFinished /\ UNCHANGED <<env, book, asked, seen, about, session, told, pass>>

CreatesSession(r) ==
    /\ Up /\ Place(r) = "session"
    /\ Advance("staging", "creating", r)
    /\ NotFinished /\ StillWorking /\ UNCHANGED <<entered, seen>>

SessionCreated(r) ==
    /\ Up
    /\ Advance("creating", "launching", r)
    /\ session' = [session EXCEPT ![r] = "idle"]
    /\ NotFinished /\ UNCHANGED <<env, book, requests, about, work, told, pass>>

\* startTask: refused (StartFails) by a Session manager that stops for good, not by one that
\* is only handed to the next App, and by a Session its user got to first.
TaskStarts(r) ==
    /\ Up \/ app = "swapping"
    /\ At("launching", r) /\ Release(r)
    /\ session[r] = "idle"
    /\ session' = [session EXCEPT ![r] = "agent"]
    /\ entered' = entered \ {r}
    /\ NotFinished /\ UNCHANGED <<env, book, asked, seen, about, work, told, pass>>

\* openDeterministic, for a caller that does the work.  With its folder not made the caller
\* gets the exception and no run: the row reads running and nobody works on it.
CallerOpens(r) ==
    /\ Up /\ project # "gone" /\ ~archived
    /\ hold = Free
    /\ status[r] = "none" /\ r \notin entered /\ Active = {}
    /\ \E k \in Kinds[r] : k.place = "caller" /\ kind' = [kind EXCEPT ![r] = k]
    /\ status' = [status EXCEPT ![r] = "running"]
    /\ input' = [input EXCEPT ![r] = draft]
    /\ \E begun \in {"working", "over"} : work' = [work EXCEPT ![r] = begun]
    /\ UNCHANGED <<env, book, hold, requests, kept, session, told, waiting, pass>>

-----------------------------------------------------------------------------
(* Working. *)

Unheard == NotFinished /\ UNCHANGED <<env, book, hold, requests, about, pass>>

\* Outside: the Task of a Session ends; a user resumes the Session, unless the timer is
\* settling the run with the Session's own lock held (atIdleBoundary).
TaskEnds(r) ==
    /\ r \in Busy
    /\ session' = [session EXCEPT ![r] = "idle"]
    /\ told' = [told EXCEPT ![r] = FALSE]
    /\ Unheard /\ UNCHANGED work

UserResumes(r) ==
    /\ Up /\ project = "here"
    /\ session[r] = "idle" /\ status[r] = "running"
    /\ hold.run = r => hold.at \in {"launching", "boundary"}
    /\ session' = [session EXCEPT ![r] = "user"]
    /\ Unheard /\ UNCHANGED <<work, told>>

\* The helper, the model or the server's own code returns, aborted or not.
WorkReturns(r) ==
    /\ Alive /\ Local(r) /\ work[r] = "working"
    /\ \E outcome \in {"ok", "bad"} : work' = [work EXCEPT ![r] = outcome]
    /\ Unheard /\ UNCHANGED <<session, told>>

Forget(r) ==
    /\ work' = [work EXCEPT ![r] = "over"]
    /\ told' = [told EXCEPT ![r] = FALSE]

\* It waits for the lock, and is heard only if the run still runs.
WorkUnheard(r) ==
    /\ Alive /\ hold = Free
    /\ work[r] \in {"ok", "bad"}
    /\ \/ status[r] # "running"
       \/ (Stopping \/ told[r]) /\ (work[r] = "ok" \/ Place(r) = "work")
    /\ Forget(r)
    /\ Unheard /\ UNCHANGED session

WorkFails(r) ==
    /\ Alive /\ hold = Free
    /\ work[r] = "bad" /\ status[r] = "running"
    /\ Place(r) = "helper" \/ (Up /\ ~told[r])
    /\ Finish(r, IF Stopping THEN "interrupted" ELSE "failed")
    /\ Forget(r)
    /\ UNCHANGED <<env, book, hold, requests, about, session, pass>>

\* Mutant: what comes back is settled whatever became of the run.
WorkSettlesLate(r) ==
    /\ Up /\ work[r] = "ok"
    /\ Take("collecting", r)
    /\ NotFinished /\ UNCHANGED <<env, book, requests, about, effort, pass>>

\* Local audio asks for the Project's admission before the lock, a helper behind it: both are
\* folded into the second, which the deletion waits for less.
WorkSettles(r) ==
    /\ Up /\ work[r] = "ok" /\ status[r] = "running" /\ ~told[r]
    /\ Take("collecting", r)
    /\ NotFinished /\ UNCHANGED <<env, book, requests, about, effort, pass>>

\* settleDeterministic: heard if the run still runs and the server does not stop.
CallerSettles(r) ==
    /\ Place(r) = "caller" /\ work[r] = "working"
    /\ hold = Free
    /\ \/ (~Up \/ status[r] # "running") /\ NotFinished /\ UNCHANGED kept
       \/ Up /\ status[r] = "running" /\ Finish(r, "failed") /\ UNCHANGED kept
       \/ /\ Up /\ status[r] = "running" /\ Finish(r, "succeeded")
          /\ kept' = [kept EXCEPT ![r] = kind[r].use = "offer"]
    /\ work' = [work EXCEPT ![r] = "over"]
    /\ UNCHANGED <<env, book, hold, requests, kind, input, session, told, pass>>

-----------------------------------------------------------------------------
(* The timer. *)

PassBegins ==
    /\ Up /\ pass = {} /\ Active # {}
    /\ pass' = Active
    /\ NotFinished /\ UNCHANGED <<env, book, hold, requests, about, effort>>

Looked(r) == UNCHANGED <<env, book, requests, about>> /\ pass' = pass \ {r}

\* Nothing to do for this run in this pass.
LookPasses(r) ==
    /\ Alive /\ r \in pass /\ hold = Free
    /\ Stopping \/ status[r] # "running" \/ session[r] # "idle"
    /\ Looked(r) /\ NotFinished /\ UNCHANGED <<hold, effort>>

\* Mutant: the limit is only looked at for a run that has a Session.
StopsSessionAtLimit(r) ==
    /\ Up /\ r \in pass /\ hold = Free
    /\ status[r] = "running" /\ r \in Busy
    /\ Finish(r, "failed")
    /\ Abort({r})
    /\ Looked(r) /\ UNCHANGED <<hold, session, work>>

\* stopAtTimeLimit: the limit of its kind, or the admin's, has passed.
StopsAtLimit(r) ==
    /\ Up /\ r \in pass /\ hold = Free
    /\ status[r] = "running" /\ Place(r) # "caller" /\ session[r] # "idle"
    /\ Finish(r, "failed")
    /\ Abort({r} \cap (LocalRuns \cup Busy))
    /\ Looked(r) /\ UNCHANGED <<hold, session, work>>

\* The Session reads idle: on to its own lock, behind which it may not be any more.
FindsIdle(r) ==
    /\ Up /\ r \in pass
    /\ status[r] = "running" /\ session[r] = "idle"
    /\ Take("boundary", r)
    /\ NotFinished /\ UNCHANGED <<env, book, requests, about, effort, pass>>

BoundaryRefused(r) ==
    /\ Alive /\ At("boundary", r)
    /\ session[r] # "idle" \/ app = "exiting"
    /\ Release(r)
    /\ Looked(r) /\ NotFinished /\ UNCHANGED effort

Settles(r) ==
    /\ Alive /\ session[r] = "idle"
    /\ Advance("boundary", "collecting", r)
    /\ NotFinished /\ UNCHANGED <<env, book, requests, about, effort, pass>>

-----------------------------------------------------------------------------
(* Settling a run, the lock held: by the timer, or by the work done here. *)

LetGo(r) ==
    /\ Release(r)
    /\ IF Local(r) THEN Forget(r) ELSE UNCHANGED <<work, told>>
    /\ pass' = pass \ {r}
    /\ UNCHANGED <<env, book, requests, about, session>>

\* The candidate is saved before what is left of collect.
CollectKeeps(r) ==
    /\ Alive /\ kind[r].use # "none"
    /\ Advance("collecting", "settled", r)
    /\ kept' = [kept EXCEPT ![r] = TRUE]
    /\ NotFinished /\ UNCHANGED <<env, book, requests, kind, input, effort, pass>>

\* Mutant: a settlement that may not publish waits for the Project's deletion, with the lock,
\* and the deletion for the starts and acceptances that wait for the lock.
CollectFailsHere(r) ==
    /\ Alive /\ hold.at \in {"collecting", "settled"}
    /\ hold.at = "settled" => project = "here"
    /\ Finish(r, "failed")
    /\ LetGo(r)

CollectFails(r) ==
    /\ Alive /\ hold.at \in {"collecting", "settled"}
    /\ Finish(r, "failed")
    /\ LetGo(r)

\* A result nobody takes into the draft: the run's end is all there is to it.
CollectEnds(r) ==
    /\ Alive /\ hold.at = "collecting" /\ kind[r].use = "none"
    /\ Finish(r, "succeeded")
    /\ LetGo(r)

\* The server stops: left as it is, for the drain to interrupt (a helper's is not).
GivesWay(r) ==
    /\ Stopping /\ hold.at \in {"collecting", "settled"} /\ Place(r) # "helper"
    /\ NotFinished
    /\ LetGo(r)

\* Past the last look at the stop, and admitted once more by ProjectActivityWork.
MayPublish(r) == (Up \/ (Stopping /\ Place(r) = "helper")) /\ project = "here"

\* Mutant: the draft is not compared with the one the run started from.
AppliesBlindly(r) ==
    /\ MayPublish(r) /\ kind[r].use = "apply"
    /\ Advance("settled", "applied", r)
    /\ TakeResult(r)
    /\ NotFinished /\ UNCHANGED <<env, requests, about, effort, pass>>

\* settlement.apply, a change of the draft like any other (ActivityService.change).
Applies(r) ==
    /\ MayPublish(r) /\ kind[r].use = "apply" /\ input[r] = draft
    /\ Advance("settled", "applied", r)
    /\ TakeResult(r)
    /\ NotFinished /\ UNCHANGED <<env, requests, about, effort, pass>>

ApplyEnds(r) ==
    /\ Alive /\ hold.at = "applied"
    /\ Finish(r, "succeeded")
    /\ LetGo(r)

\* succeedIfDraftUnchanged.
Offers(r) ==
    /\ MayPublish(r) /\ kind[r].use = "offer" /\ input[r] = draft
    /\ hold.at = "settled"
    /\ Finish(r, "succeeded")
    /\ LetGo(r)

Conflicts(r) ==
    /\ MayPublish(r) /\ input[r] # draft
    /\ hold.at = "settled"
    /\ Finish(r, "conflict")
    /\ LetGo(r)

-----------------------------------------------------------------------------
(* What people do. *)

\* Mutants: its end is not one of the ends; only what is worked here is stopped, not a Task.
CancelMisspelt(r) ==
    /\ Up /\ hold = Free /\ status[r] = "running"
    /\ Finish(r, "canceled")
    /\ Abort({r} \cap (LocalRuns \cup Busy))
    /\ UNCHANGED <<env, book, hold, requests, about, session, work, pass>>
CancelLocal(r) ==
    /\ Up /\ hold = Free /\ status[r] = "running"
    /\ Finish(r, "cancelled")
    /\ Abort({r} \cap LocalRuns)
    /\ UNCHANGED <<env, book, hold, requests, about, session, work, pass>>

Cancel(r) ==
    /\ Up /\ hold = Free /\ status[r] = "running"
    /\ Finish(r, "cancelled")
    /\ Abort({r} \cap (LocalRuns \cup Busy))
    /\ UNCHANGED <<env, book, hold, requests, about, session, work, pass>>

People == NotFinished /\ UNCHANGED <<app, restarts, project, torn, about, effort, pass>>

\* An author's edit, of the draft as it is: one of an older draft is refused.
Edit ==
    /\ Alive /\ project = "here" /\ ~archived
    /\ hold = Free
    /\ Change
    /\ People /\ UNCHANGED <<taken, archived, hold, requests>>

\* Mutant: archiveActivity does not take the lock.
ArchiveUnlocked ==
    /\ Alive /\ project = "here" /\ ~archived /\ Active = {}
    /\ archived' = TRUE
    /\ People /\ UNCHANGED <<book, hold, requests>>

Archive ==
    /\ Alive /\ project = "here" /\ ~archived /\ Active = {}
    /\ hold = Free
    /\ archived' = TRUE
    /\ People /\ UNCHANGED <<book, hold, requests>>

\* accept: an author's, on the draft the browser shows, or runAndAccept's, on the one it read.
AskAccept(r) ==
    /\ Up /\ project = "here"
    /\ status[r] = "succeeded" /\ kind[r].use = "offer" /\ r \notin asked
    /\ asked' = asked \cup {r}
    /\ \E revision \in {input[r], draft} : seen' = [seen EXCEPT ![r] = revision]
    /\ People /\ UNCHANGED <<archived, book, hold, entered>>

Acceptable(r) ==
    /\ Up /\ ~archived
    /\ status[r] = "succeeded" /\ kind[r].use = "offer" /\ kept[r] /\ input[r] = seen[r]

AcceptRefused(r) ==
    /\ Alive /\ hold = Free /\ r \in asked /\ ~Acceptable(r)
    /\ asked' = asked \ {r}
    /\ seen' = [seen EXCEPT ![r] = Blank]
    /\ People /\ UNCHANGED <<archived, book, hold, entered>>

AcceptTakes(r) ==
    /\ r \in asked /\ Acceptable(r)
    /\ Take("accepting", r)
    /\ seen' = [seen EXCEPT ![r] = Blank]
    /\ People /\ UNCHANGED <<archived, book, entered, asked>>

\* The change compares revisions once more; the one asked for is the run's own.
AcceptApplies(r) ==
    /\ Alive /\ project = "here" /\ input[r] = draft
    /\ At("accepting", r) /\ Release(r)
    /\ TakeResult(r)
    /\ asked' = asked \ {r}
    /\ People /\ UNCHANGED <<archived, entered, seen>>

\* Another draft, the Project's deletion, or what the kind refuses.
AcceptFails(r) ==
    /\ Alive /\ At("accepting", r)
    /\ Release(r)
    /\ asked' = asked \ {r}
    /\ People /\ UNCHANGED <<archived, book, entered, seen>>

\* runAndAccept: settled, and the look it takes now and then besides.  Mutant: a run whose row
\* is gone tells it nothing.
WaitFor(r) ==
    /\ Up /\ status[r] = "running" /\ Place(r) # "caller" /\ r \notin waiting
    /\ waiting' = waiting \cup {r}
    /\ UNCHANGED <<env, book, hold, requests, status, about, effort, pass>>

WaiterLooks(r) ==
    /\ r \in waiting /\ status[r] # "running"
    /\ waiting' = waiting \ {r}
    /\ UNCHANGED <<env, book, hold, requests, status, about, effort, pass>>

-----------------------------------------------------------------------------
(* The server stops, crashes and starts; the Project is deleted. *)

\* stop: for good (the Session manager then aborts every Task too) or for a hot swap.
Stop(how) ==
    /\ Up /\ restarts < MaxRestarts
    /\ app' = how
    /\ Abort(LocalRuns \cup IF how = "exiting" THEN Busy ELSE {})
    /\ NotFinished
    /\ UNCHANGED <<restarts, project, archived, torn, book, hold, requests, about, session, work, pass>>

InterruptAll ==
    /\ status' = [r \in Runs |-> IF r \in Active THEN "interrupted" ELSE status[r]]
    /\ waiting' = waiting \ Active

\* Mutant: the remaining runs are interrupted while operations are under way.
DrainedAtOnce ==
    /\ Stopping
    /\ app' = "drained"
    /\ InterruptAll
    /\ UNCHANGED <<restarts, project, archived, torn, book, hold, requests, about, effort, pass>>

\* Every operation under way has ended: finishRemaining.
Drained ==
    /\ Stopping
    /\ hold = Free /\ entered = {} /\ asked = {} /\ pass = {} /\ LocalRuns = {}
    /\ app' = "drained"
    /\ InterruptAll
    /\ UNCHANGED <<restarts, project, archived, torn, book, hold, requests, about, effort, pass>>

\* The next App, in this process or another.
Boot ==
    /\ app = "drained" /\ restarts < MaxRestarts
    /\ app' = "up" /\ restarts' = restarts + 1
    /\ NotFinished
    /\ UNCHANGED <<project, archived, torn, book, hold, requests, about, effort, pass>>

\* The process dies and another starts: setup interrupts what still reads running.
Crash ==
    /\ Alive /\ restarts < MaxRestarts
    /\ app' = "up" /\ restarts' = restarts + 1
    /\ project' = IF project = "gone" THEN "gone" ELSE "here"
    /\ torn' = IF hold.at = "applied" THEN torn \cup {hold.run} ELSE torn
    /\ hold' = Free
    /\ entered' = {} /\ asked' = {} /\ seen' = [r \in Runs |-> Blank]
    /\ status' = [r \in Runs |-> IF r \in Active THEN "interrupted" ELSE status[r]]
    /\ session' = [r \in Runs |-> IF r \in Busy THEN "idle" ELSE session[r]]
    /\ work' = [r \in Runs |-> IF work[r] = "none" THEN "none" ELSE "over"]
    /\ told' = [r \in Runs |-> FALSE]
    /\ waiting' = {} /\ pass' = {}
    /\ UNCHANGED <<archived, book, about>>

Deletion == UNCHANGED <<app, restarts, archived, torn, book, hold, requests, about, session, work, pass>>

\* destroy seals the admission, waits for what it admitted, then stops what works.
DeleteProject ==
    /\ Alive /\ project = "here"
    /\ project' = "deleting"
    /\ NotFinished /\ Deletion /\ UNCHANGED told

\* Mutant: what was admitted is not waited for.
RemoveAtOnce ==
    /\ Alive /\ project = "deleting"
    /\ project' = "removing"
    /\ Abort(LocalRuns \cup Busy)
    /\ NotFinished /\ Deletion

RemoveBegins ==
    /\ Alive /\ project = "deleting"
    /\ entered = {} /\ asked = {}
    /\ project' = "removing"
    /\ Abort(LocalRuns \cup Busy)
    /\ NotFinished /\ Deletion

\* The wait for what was stopped is capped: the rows may go before it has ended.
RemoveEnds ==
    /\ Alive /\ project = "removing"
    /\ project' = "gone"
    /\ status' = [r \in Runs |-> IF status[r] = "none" THEN "none" ELSE "gone"]
    /\ Deletion /\ UNCHANGED <<told, waiting>>

-----------------------------------------------------------------------------

Starting(r) ==
    \/ Refused(r) \/ StartChecks(r) \/ StartRefused(r) \/ StartOpens(r) \/ StartFails(r)
    \/ StartsWork(r) \/ CreatesSession(r) \/ SessionCreated(r) \/ TaskStarts(r)

Working(r) ==
    \/ WorkUnheard(r) \/ WorkFails(r) \/ WorkSettles(r) \/ CallerSettles(r)

Settling(r) ==
    \/ CollectKeeps(r) \/ CollectFails(r) \/ CollectEnds(r) \/ GivesWay(r)
    \/ Applies(r) \/ ApplyEnds(r) \/ Offers(r) \/ Conflicts(r)

Looking(r) ==
    \/ LookPasses(r) \/ StopsAtLimit(r) \/ FindsIdle(r) \/ BoundaryRefused(r) \/ Settles(r)

Accepting(r) ==
    \/ AcceptRefused(r) \/ AcceptTakes(r) \/ AcceptApplies(r) \/ AcceptFails(r)

Outside(r) ==
    \/ Enter(r) \/ CallerOpens(r) \/ TaskEnds(r) \/ UserResumes(r)
    \/ WorkReturns(r) \/ Cancel(r) \/ AskAccept(r) \/ WaitFor(r) \/ WaiterLooks(r)

Server ==
    \/ Edit \/ Archive \/ PassBegins
    \/ Stop("exiting") \/ Stop("swapping") \/ Drained \/ Boot \/ Crash
    \/ DeleteProject \/ RemoveBegins \/ RemoveEnds

Next ==
    \/ Server
    \/ \E r \in Runs :
        \/ Starting(r) \/ Working(r) \/ Settling(r)
        \/ Looking(r) \/ Accepting(r) \/ Outside(r)

Spec == Init /\ [][Next]_vars

\* The next of a run's own steps, each behind the lock, its Session's or the Activity's.
Turn(r) == Starting(r) \/ Working(r) \/ StopsAtLimit(r) \/ Settles(r) \/ Accepting(r)

\* The lock is a queue, so whoever waits for it gets it (SF); what is aborted returns; a
\* caller's work is bounded by its own timeouts, a run's by its limit; the timer looks every
\* second; and no user resumes a Session between the look and its lock for ever.
Fairness ==
    /\ WF_vars(PassBegins) /\ WF_vars(Drained) /\ WF_vars(RemoveBegins) /\ WF_vars(RemoveEnds)
    /\ SF_vars(\E r \in Runs : LookPasses(r) \/ FindsIdle(r))
    /\ \A r \in Runs :
        /\ SF_vars(Turn(r))
        /\ WF_vars(Settling(r)) /\ WF_vars(told[r] /\ WorkReturns(r))
        /\ WF_vars(BoundaryRefused(r)) /\ WF_vars(WaiterLooks(r))

FairSpec == Spec /\ Fairness

-----------------------------------------------------------------------------
(* Properties. *)

TypeOK ==
    /\ app \in {"up", "exiting", "swapping", "drained"} /\ restarts \in 0..MaxRestarts
    /\ project \in {"here", "deleting", "removing", "gone"} /\ archived \in BOOLEAN
    /\ draft \in Contents /\ taken \subseteq [by : Runs, over : Contents]
    /\ hold \in [at : Points, run : Runs] \cup {Free}
    /\ entered \subseteq Runs /\ asked \subseteq Runs
    /\ pass \subseteq Runs /\ torn \subseteq Runs
    /\ seen \in [Runs -> Contents] /\ input \in [Runs -> Contents]
    /\ status \in [Runs -> Statuses] /\ kind \in [Runs -> AllKinds \cup {NoKind}]
    /\ kept \in [Runs -> BOOLEAN]
    /\ session \in [Runs -> {"none", "idle", "agent", "user"}]
    /\ work \in [Runs -> {"none", "working", "ok", "bad", "over"}]
    /\ told \in [Runs -> BOOLEAN]
    /\ waiting \subseteq Runs

\* "This activity already has a running generation": two starts whose checks, staging and
\* Session creation overlap in time never both open a run, and no run is opened, nor works
\* on, in an Activity its author has deleted from view.
OneRunning ==
    /\ \A r, s \in Active : r = s
    /\ archived => Active = {}

\* Two writers of the draft: whatever a run's result replaces, applied when the run ends or
\* accepted long after, is the content that run was started from.  So an edit made while it
\* worked, or before its acceptance, is never overwritten while it stands.  (A result may go
\* in again once an author has put that content back.)
NoLostEdit == \A t \in taken : input[t.by] = t.over

\* The history and the draft agree: a run whose result went into the draft reads succeeded, or
\* is about to, however the stop, the limit, a cancellation or the deletion of its Project
\* raced with its settlement; only a crash between the two leaves it reading interrupted.
TakenIsRecorded ==
    \A t \in taken :
        \/ status[t.by] \in {"succeeded", "gone"} \/ t.by \in torn
        \/ status[t.by] = "running" /\ At("applied", t.by)

\* A run that was ended by Stop, by its limit or by its own result leaves nothing of its own
\* at work that was not told to stop.
NoneLeftWorking ==
    \A r \in Runs : status[r] \in {"succeeded", "failed", "cancelled", "conflict"} =>
        /\ session[r] = "agent" => told[r]
        /\ Local(r) /\ work[r] = "working" => told[r]

\* Behind a drained stop nothing reads running, and nothing that was under way can write any
\* more when the successor starts.
DrainedIsQuiet ==
    app = "drained" => Active = {} /\ hold = Free /\ entered = {} /\ pass = {}

\* A Project that is gone has no run left and gets none: neither from a start that was
\* admitted before the deletion, nor from a settlement that was under way.
GoneIsEmpty ==
    project = "gone" =>
        (\A r \in Runs : status[r] \in {"none", "gone"}) /\ entered = {} /\ asked = {}

\* The promise to the author (RunLedger): a run has one end, and whatever comes later, a late
\* answer of a helper, a second Stop, a limit, a settlement or a restart, finds it ended; the
\* draft only changes by edits and by results that fit it.
Ledger == INSTANCE RunLedger
KeepsLedger == Ledger!Spec

\* Nobody works on the row, and no limit reaches it, until Stop or a restart does.
Stranded(r) == Place(r) = "caller" /\ work[r] = "over"

\* Every run ends, whoever works on it and whatever the user does with its Session, unless
\* its folder could not be made behind its row; and so does every wait for one, also where the
\* run went with its Project.
RunsEnd ==
    \A r \in Runs :
        /\ status[r] = "running" /\ ~Stranded(r) ~> status[r] # "running"
        /\ r \in waiting ~> r \notin waiting

\* Every start and every acceptance is answered: whoever holds the Activity's lock meanwhile,
\* another run's start, acceptance or settlement, no order of that lock, the Project's
\* admission and the Session's own lock leaves them, or the deletion, waiting for each other.
RequestsAnswered ==
    \A r \in Runs : r \in entered \cup asked ~> r \notin entered \cup asked
=============================================================================
