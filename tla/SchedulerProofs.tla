--------------------------- MODULE SchedulerProofs ---------------------------
(* Theorems about Scheduler, for all definitions, requests, events and     *)
(* times.                                                                  *)
EXTENDS Scheduler, TLAPS

-----------------------------------------------------------------------------
(* The inductive invariant *)

Rows == [def : Definitions, last : Nat, fired : BOOLEAN, missed : BOOLEAN,
         invalid : BOOLEAN]
PassRecords == [kind : RequestKinds \cup {"tick", "none"}, at : Points,
                def : Files, fire : Fires \cup {NoFire},
                to : {"bound", "new"}, then : {"cleanup", "again", "off"}]

\* A pass that sends or drains has a fire in hand, one that writes a definition.
HandOK(q) ==
    /\ q \in PassRecords
    /\ q.at \in {"send", "turn", "read"} => q.fire \in Fires
    /\ q.at \in {"write", "written"} => q.def \in Definitions

Listing == {"join", "wait"}

PassesOK ==
    /\ pass \in [Passes -> PassRecords]
    /\ \A p \in Passes : HandOK(pass[p])

ScanOK == scan \in [at : {"none", "started", "read"}, saw : Files]

\* The variables other than the passes and the scan.
RestOK ==
    /\ now \in 0..MaxTime /\ since \in 0..MaxTime
    /\ file \in Files
    /\ row \in {NoRow} \cup Rows
    /\ pending \in Fires \cup {NoFire}
    /\ session \in {"idle", "busy", "deleted"}
    /\ up \in BOOLEAN /\ resent \in BOOLEAN
    /\ sent \subseteq Fires

SchedulerOK == PassesOK /\ ScanOK /\ RestOK /\ ScanAwaited

-----------------------------------------------------------------------------
(* Times and rows *)

\* Products of naturals are naturals.
LEMMA ProductNat == \A a, b \in Nat : a * b \in Nat
  OBVIOUS

\* The fields of a definition.
LEMMA DefinitionFields ==
    ASSUME NEW d \in Definitions
    PROVE  /\ d.start \in Nat \ {0} /\ d.period \in Nat /\ d.end \in Nat
           /\ d.enabled \in BOOLEAN /\ d.target \in {"bound", "new"}
           /\ d \in Files
  <1>1. d \in ScheduleDefinition
    BY ConstantsAssumption
  <1> QED
    BY <1>1 DEF ScheduleDefinition, Files

\* The latest due time of a task that has started is a time (latestSlotAt).
LEMMA LatestSlotNat ==
    ASSUME now \in Nat, NEW d \in Definitions, now >= d.start
    PROVE  LatestSlot(d) \in Nat
  <1>1. d.start \in Nat /\ d.period \in Nat /\ now - d.start \in Nat
    BY DefinitionFields
  <1>2. CASE d.period = 0
    BY <1>1, <1>2 DEF LatestSlot
  <1>3. CASE d.period # 0
    <2>1. (now - d.start) \div d.period \in Nat
      BY <1>1, <1>3
    <2>2. ((now - d.start) \div d.period) * d.period \in Nat
      BY <2>1, <1>1, ProductNat
    <2> QED
      BY <2>2, <1>1, <1>3 DEF LatestSlot
  <1> QED
    BY <1>2, <1>3

\* A definition registered afresh makes a row.
LEMMA RowTyped ==
    ASSUME NEW d \in Definitions
    PROVE  Row(d) \in Rows
  BY DEF Row, Rows

\* Registration makes a row of the definition, whatever the row was.
LEMMA SyncedTyped ==
    ASSUME row \in {NoRow} \cup Rows, NEW d \in Definitions
    PROVE  Synced(d) \in Rows
  <1>1. CASE Fresh(d)
    BY <1>1, RowTyped DEF Synced
  <1>2. CASE ~Fresh(d)
    <2>1. row \in Rows
      BY <1>2 DEF Fresh
    <2> QED
      BY <1>2, <2>1 DEF Synced, Rows
  <1> QED
    BY <1>1, <1>2

\* So does a registration over an older row.
LEMMA RegisteredTyped ==
    ASSUME row \in {NoRow} \cup Rows, now \in Nat, NEW d \in Definitions
    PROVE  Registered(d) \in Rows
  <1>1. CASE ~Fresh(d) \/ now < d.start
    BY <1>1, SyncedTyped DEF Registered
  <1>2. CASE ~(~Fresh(d) \/ now < d.start)
    <2>1. d.start \in Nat
      BY DefinitionFields
    <2>2. LatestSlot(d) \in Nat
      BY <1>2, <2>1, LatestSlotNat
    <2>3. Row(d) \in Rows
      BY RowTyped
    <2> QED
      BY <1>2, <2>2, <2>3 DEF Registered, Rows
  <1> QED
    BY <1>1, <1>2

\* What is dispatched is a fire, and the row it is consumed in stays a row.
LEMMA DispatchTyped ==
    ASSUME row \in {NoRow} \cup Rows, now \in Nat, NEW p, NEW t, Dispatch(p, t)
    PROVE  /\ pass[p].def \in Definitions
           /\ Consumed(pass[p].def) \in Rows
           /\ NextFire(p) \in Fires
  <1>1. pass[p].def \in Definitions /\ now >= pass[p].def.start
    BY DEF Dispatch, Reads, Due
  <1>2. LatestSlot(pass[p].def) \in Nat
    BY <1>1, LatestSlotNat
  <1>3. Registered(pass[p].def) \in Rows
    BY <1>1, RegisteredTyped
  <1>4. Consumed(pass[p].def) \in Rows
    BY <1>2, <1>3 DEF Consumed, Rows
  <1>5. NextFire(p) \in Fires
    BY <1>1, <1>2 DEF NextFire, Fires
  <1> QED
    BY <1>1, <1>4, <1>5

-----------------------------------------------------------------------------
(* Passes and the scan *)

\* A pass that has ended holds nothing and waits for no scan.
LEMMA OffTyped == HandOK(Off) /\ Off.at \notin Listing
  BY DEF Off, Pass, HandOK, PassRecords, Points, Files, Listing

\* One pass goes on, to a place where it does not wait for the scan.
LEMMA EditKeeps ==
    ASSUME PassesOK, ScanAwaited, NEW p \in Passes, NEW q, HandOK(q),
           q.at \notin Listing, Edit(p, q), UNCHANGED scan
    PROVE  PassesOK' /\ ScanAwaited'
  <1>1. PassesOK'
    BY DEF PassesOK, HandOK, Edit
  <1>2. ScanAwaited'
    BY DEF PassesOK, ScanAwaited, Edit, Listing
  <1> QED
    BY <1>1, <1>2

\* The same for a pass that moves with what it has in hand.
LEMMA MoveKeeps ==
    ASSUME PassesOK, ScanAwaited, NEW p \in Passes,
           NEW point \in {"written", "archived", "cleanup", "drain"},
           point = "written" => pass[p].def \in Definitions,
           Move(p, point), UNCHANGED scan
    PROVE  PassesOK' /\ ScanAwaited'
  <1> DEFINE q == [pass[p] EXCEPT !.at = point]
  <1>1. pass[p] \in PassRecords
    BY DEF PassesOK
  <1>2. HandOK(q) /\ q.at \notin Listing
    BY <1>1 DEF HandOK, PassRecords, Points, Listing
  <1>3. Edit(p, q)
    BY DEF Move
  <1> QED
    BY <1>2, <1>3, EditKeeps

\* A pass ends.
LEMMA EndKeeps ==
    ASSUME PassesOK, ScanAwaited, NEW p \in Passes, End(p), UNCHANGED scan
    PROVE  PassesOK' /\ ScanAwaited'
  BY OffTyped, EditKeeps DEF End

\* A pass goes on to its next definition, or ends.
LEMMA GoOnKeeps ==
    ASSUME PassesOK, ScanAwaited, NEW p \in Passes, GoOn(p), UNCHANGED scan
    PROVE  PassesOK' /\ ScanAwaited'
  BY EndKeeps, MoveKeeps DEF GoOn

\* A pass archives a settled definition before it goes on.
LEMMA ArchiveIfSettledKeeps ==
    ASSUME PassesOK, ScanAwaited, NEW p \in Passes, NEW d, NEW r, NEW f,
           NEW next \in {"cleanup", "again", "off"},
           ArchiveIfSettled(p, d, r, f, next), UNCHANGED scan
    PROVE  PassesOK' /\ ScanAwaited'
  <1>1. CASE Archivable(d, r, f)
    <2> DEFINE q == [pass[p] EXCEPT !.at = "archive", !.then = next]
    <2>1. pass[p] \in PassRecords
      BY DEF PassesOK
    <2>2. HandOK(q) /\ q.at \notin Listing
      BY <2>1 DEF HandOK, PassRecords, Points, Listing
    <2>3. Edit(p, q)
      BY <1>1 DEF ArchiveIfSettled
    <2> QED
      BY <2>2, <2>3, EditKeeps
  <1>2. CASE ~Archivable(d, r, f)
    BY <1>2, GoOnKeeps DEF ArchiveIfSettled
  <1> QED
    BY <1>1, <1>2

\* A pass that lists waits for a scan that is in flight (ScheduleFileCache.list).
LEMMA ListedKeeps ==
    ASSUME PassesOK, ScanOK, ScanAwaited, NEW p \in Passes, NEW q \in PassRecords,
           NEW forced, Listed(p, q, forced)
    PROVE  PassesOK' /\ ScanOK' /\ ScanAwaited'
  <1>1. PICK r \in PassRecords : r.at \in Listing /\ Edit(p, r)
    <2>1. [q EXCEPT !.at = "join"] \in PassRecords
      BY DEF PassRecords, Points
    <2>2. [q EXCEPT !.at = "wait"] \in PassRecords
      BY DEF PassRecords, Points
    <2>3. [q EXCEPT !.at = "join"].at = "join" /\ [q EXCEPT !.at = "wait"].at = "wait"
      BY DEF PassRecords
    <2>4. Edit(p, [q EXCEPT !.at = "join"]) \/ Edit(p, [q EXCEPT !.at = "wait"])
      BY DEF Listed
    <2> QED
      BY <2>1, <2>2, <2>3, <2>4 DEF Listing
  <1>2. HandOK(r)
    BY <1>1 DEF HandOK, Listing
  <1>3. PassesOK'
    BY <1>1, <1>2 DEF PassesOK, HandOK, Edit
  <1>4. ScanOK' /\ scan'.at # "none"
    BY DEF Listed, ScanOK, Files
  <1>5. ScanAwaited'
    BY <1>4 DEF ScanAwaited
  <1> QED
    BY <1>3, <1>4, <1>5

\* A pass is a record of its kind, place and definition.
LEMMA PassTyped ==
    ASSUME NEW k \in RequestKinds \cup {"tick", "none"}, NEW a \in Points, NEW d \in Files
    PROVE  Pass(k, a, d) \in PassRecords
  BY DEF Pass, PassRecords

-----------------------------------------------------------------------------
(* The steps *)

\* The invariant is the type invariant, what passes have in hand, and ScanAwaited.
LEMMA SchedulerOKTyped == SchedulerOK <=> TypeOK /\ PassesOK /\ ScanAwaited
  BY DEF SchedulerOK, TypeOK, PassesOK, ScanOK, RestOK, Rows, PassRecords

\* The first step of a tick or of a request.
LEMMA StartsKeep ==
    ASSUME SchedulerOK, StartTick \/ \E p \in Requests : RequestStep(p)
    PROVE  SchedulerOK'
  <1> USE DEF SchedulerOK
  <1>1. ASSUME NEW p \in Passes, NEW k \in {"tick", "list"},
               Listed(p, Pass(k, "join", NoFile), FALSE),
               UNCHANGED <<file, row, pending, outside, ghosts>>
        PROVE  SchedulerOK'
    <2>1. Pass(k, "join", NoFile) \in PassRecords
      BY PassTyped DEF RequestKinds, Points, Files
    <2>2. PassesOK' /\ ScanOK' /\ ScanAwaited'
      BY <1>1, <2>1, ListedKeeps
    <2> QED
      BY <1>1, <2>2 DEF RestOK, outside, ghosts
  <1>2. CASE StartTick
    BY <1>1, <1>2 DEF StartTick, Passes
  <1>3. ASSUME NEW p \in Requests, RequestStep(p)
        PROVE  SchedulerOK'
    <2>1. p \in Passes
      BY DEF Passes
    <2>2. CASE StartList(p)
      BY <1>1, <2>1, <2>2 DEF StartList
    <2>3. CASE StartDelete(p)
      <3>1. HandOK(Pass("delete", "deleted", NoFile))
        BY DEF HandOK, Pass, PassRecords, RequestKinds, Points, Files
      <3>2. Pass("delete", "deleted", NoFile).at \notin Listing
        BY DEF Pass, Listing
      <3>3. PassesOK' /\ ScanAwaited'
        BY <2>1, <2>3, <3>1, <3>2, EditKeeps DEF StartDelete
      <3> QED
        BY <2>3, <3>3 DEF StartDelete, ScanOK, RestOK, Files, outside, ghosts
    <2>4. ASSUME NEW d \in Definitions, StartWrite(p, d)
          PROVE  SchedulerOK'
      <3>1. HandOK(Pass("write", "write", d))
        BY DEF HandOK, Pass, PassRecords, RequestKinds, Points, Files
      <3>2. Pass("write", "write", d).at \notin Listing
        BY DEF Pass, Listing
      <3>3. PassesOK' /\ ScanAwaited'
        BY <2>1, <2>4, <3>1, <3>2, EditKeeps DEF StartWrite
      <3> QED
        BY <2>4, <3>3 DEF StartWrite, ScanOK, RestOK, outside, ghosts
    <2> QED
      BY <1>3, <2>2, <2>3, <2>4 DEF RequestStep
  <1> QED
    BY <1>2, <1>3

\* A scan that ends releases everyone who joined it, and is followed by another
\* one if someone waits for that.
LEMMA ScanKeeps ==
    ASSUME SchedulerOK, ScanStep
    PROVE  SchedulerOK'
  <1> USE DEF SchedulerOK
  <1>1. CASE ScanReads
    <2>1. ScanOK' /\ scan'.at # "none"
      BY <1>1 DEF ScanReads, ScanOK, RestOK
    <2>2. PassesOK' /\ ScanAwaited'
      BY <1>1, <2>1 DEF ScanReads, PassesOK, ScanAwaited
    <2> QED
      BY <1>1, <2>1, <2>2 DEF ScanReads, RestOK, outside, ghosts
  <1>2. CASE ScanEnds
    <2> DEFINE waiting == {p \in Passes : At(p, "wait")}
    <2>1. PICK first \in IF waiting = {} THEN {None} ELSE waiting :
            pass' = [p \in Passes |->
                       IF At(p, "join") THEN [pass[p] EXCEPT !.at = "evaluate",
                                                             !.def = scan.saw]
                       ELSE IF p = first THEN [pass[p] EXCEPT !.at = "join"]
                       ELSE pass[p]]
      BY <1>2 DEF ScanEnds
    <2>2. scan.saw \in Files
      BY DEF ScanOK
    <2>3. ASSUME NEW p \in Passes
          PROVE  HandOK(pass'[p])
      <3>1. pass[p] \in PassRecords /\ HandOK(pass[p])
        BY DEF PassesOK
      <3>2. CASE At(p, "join")
        <4>1. pass'[p] = [pass[p] EXCEPT !.at = "evaluate", !.def = scan.saw]
          BY <2>1, <3>2
        <4> QED
          BY <4>1, <3>1, <2>2 DEF HandOK, PassRecords, Points
      <3>3. CASE ~At(p, "join") /\ p = first
        <4>1. pass'[p] = [pass[p] EXCEPT !.at = "join"]
          BY <2>1, <3>3
        <4> QED
          BY <4>1, <3>1 DEF HandOK, PassRecords, Points
      <3>4. CASE ~At(p, "join") /\ p # first
        BY <2>1, <3>1, <3>4
      <3> QED
        BY <3>2, <3>3, <3>4
    <2>4. PassesOK'
      BY <2>1, <2>3 DEF PassesOK, HandOK
    <2>5. scan' = [at |-> IF waiting = {} THEN "none" ELSE "started", saw |-> NoFile]
      BY <1>2 DEF ScanEnds
    <2>6. ScanOK'
      BY <2>5 DEF ScanOK, Files
    <2>7. ScanAwaited'
      <3>1. CASE waiting # {}
        BY <2>5, <3>1 DEF ScanAwaited
      <3>2. CASE waiting = {}
        <4>1. ASSUME NEW p \in Passes
              PROVE  pass'[p].at \notin Listing
          <5>1. pass[p] \in PassRecords /\ pass[p].at # "wait"
            BY <3>2 DEF PassesOK, At
          <5>2. CASE At(p, "join")
            <6>1. pass'[p] = [pass[p] EXCEPT !.at = "evaluate", !.def = scan.saw]
              BY <2>1, <5>2
            <6> QED
              BY <6>1, <5>1 DEF PassRecords, Listing
          <5>3. CASE ~At(p, "join") /\ p # first
            BY <2>1, <5>1, <5>3 DEF At, Listing
          <5>4. CASE ~At(p, "join") /\ p = first
            <6>1. first = None
              BY <2>1, <3>2
            <6>2. pass'[p] = [pass[p] EXCEPT !.at = "join"]
              BY <2>1, <5>4
            <6> QED
              BY <6>1, <6>2, <5>4, ConstantsAssumption DEF Passes
          <5> QED
            BY <5>2, <5>3, <5>4
        <4> QED
          BY <4>1 DEF ScanAwaited, Listing
      <3> QED
        BY <3>1, <3>2
    <2> QED
      BY <1>2, <2>4, <2>6, <2>7 DEF ScanEnds, RestOK, outside, ghosts
  <1> QED
    BY <1>1, <1>2 DEF ScanStep

\* A pass goes on: writing, registering, deciding, sending, archiving, draining.
LEMMA PassKeeps ==
    ASSUME SchedulerOK, NEW p \in Passes, PassStep(p)
    PROVE  SchedulerOK'
  <1> USE DEF SchedulerOK
  <1>1. /\ pass[p] \in PassRecords
        /\ HandOK(pass[p])
        /\ now \in Nat /\ row \in {NoRow} \cup Rows
    BY DEF PassesOK, RestOK
  <1>2. ASSUME NEW k \in {"again", "cleanup", "off"}, NEW d, NEW r, NEW f,
               ArchiveIfSettled(p, d, r, f, k), UNCHANGED scan
        PROVE  PassesOK' /\ ScanOK' /\ ScanAwaited'
    BY <1>2, ArchiveIfSettledKeeps DEF ScanOK
  <1>3. CASE WriteFile(p)
    <2>1. pass[p].def \in Definitions
      BY <1>1, <1>3 DEF WriteFile, At, HandOK
    <2>2. PassesOK' /\ ScanAwaited'
      BY <1>3, <2>1, MoveKeeps DEF WriteFile
    <2> QED
      BY <1>3, <2>1, <2>2 DEF WriteFile, ScanOK, RestOK, Files, outside, ghosts
  <1>4. CASE RegisterWritten(p)
    <2>1. Synced(pass[p].def) \in Rows
      BY <1>1, <1>4, SyncedTyped DEF RegisterWritten, At, HandOK
    <2>2. PassesOK' /\ ScanOK' /\ ScanAwaited'
      BY <1>1, <1>4, ListedKeeps DEF RegisterWritten
    <2> QED
      BY <1>4, <2>1, <2>2 DEF RegisterWritten, RestOK, outside, ghosts
  <1>5. CASE DropEntry(p)
    BY <1>5, EndKeeps DEF DropEntry, ScanOK, RestOK, outside, ghosts
  <1>6. CASE SkipFile(p)
    BY <1>6, MoveKeeps DEF SkipFile, ScanOK, RestOK, outside, ghosts
  <1>7. CASE NotDue(p)
    <2>1. Registered(pass[p].def) \in Rows
      BY <1>1, <1>7, RegisteredTyped DEF NotDue, Reads
    <2>2. PassesOK' /\ ScanOK' /\ ScanAwaited'
      BY <1>2, <1>7 DEF NotDue
    <2> QED
      BY <1>7, <2>1, <2>2 DEF NotDue, RestOK, outside, ghosts
  <1>8. CASE SessionMissing(p)
    <2>1. [Consumed(pass[p].def) EXCEPT !.invalid = TRUE] \in Rows
      BY <1>1, <1>8, DispatchTyped DEF SessionMissing, Rows
    <2>2. PassesOK' /\ ScanAwaited'
      BY <1>8, MoveKeeps DEF SessionMissing
    <2> QED
      BY <1>8, <2>1, <2>2 DEF SessionMissing, ScanOK, RestOK, outside, ghosts
  <1>9. CASE QueueFire(p)
    <2>1. Consumed(pass[p].def) \in Rows /\ NextFire(p) \in Fires
      BY <1>1, <1>9, DispatchTyped DEF QueueFire
    <2>2. PassesOK' /\ ScanAwaited'
      BY <1>9, MoveKeeps DEF QueueFire
    <2> QED
      BY <1>9, <2>1, <2>2 DEF QueueFire, ScanOK, RestOK, outside, ghosts
  <1>10. CASE FireNow(p)
    <2> DEFINE q == [pass[p] EXCEPT !.at = "send", !.fire = NextFire(p),
                                    !.to = pass[p].def.target, !.then = "again"]
    <2>1. /\ pass[p].def \in Definitions
          /\ Consumed(pass[p].def) \in Rows
          /\ NextFire(p) \in Fires
      BY <1>1, <1>10, DispatchTyped DEF FireNow
    <2>2. pass[p].def.target \in {"bound", "new"}
      BY <2>1, DefinitionFields
    <2>3. HandOK(q) /\ q.at \notin Listing
      BY <1>1, <2>1, <2>2 DEF HandOK, PassRecords, Points, Listing
    <2>4. PassesOK' /\ ScanAwaited'
      BY <1>10, <2>3, EditKeeps DEF FireNow
    <2> QED
      BY <1>10, <2>1, <2>4 DEF FireNow, ScanOK, RestOK, outside, ghosts
  <1>11. CASE Sent(p)
    <2>1. pass[p].fire \in Fires /\ pass[p].then \in {"again", "cleanup", "off"}
      BY <1>1, <1>11 DEF Sent, At, HandOK, PassRecords
    <2>2. PassesOK' /\ ScanOK' /\ ScanAwaited'
      BY <1>2, <1>11, <2>1 DEF Sent
    <2>3. row' \in {NoRow} \cup Rows
      <3>1. CASE row = NoRow
        BY <1>11, <3>1 DEF Sent
      <3>2. CASE row # NoRow
        <4>1. row \in Rows /\ row.fired \in BOOLEAN
          BY <1>1, <3>2 DEF Rows
        <4>2. (row.fired \/ pass[p].def.period = 0) \in BOOLEAN
          BY <4>1
        <4>3. row' = [row EXCEPT !.fired = (row.fired \/ pass[p].def.period = 0)]
          BY <1>11, <3>2 DEF Sent
        <4> QED
          BY <4>1, <4>2, <4>3 DEF Rows
      <3> QED
        BY <3>1, <3>2
    <2>4. session' \in {"idle", "busy", "deleted"}
      BY <1>11 DEF Sent, RestOK
    <2>5. sent' \subseteq Fires /\ resent' \in BOOLEAN
      BY <1>11, <2>1 DEF Sent, RestOK
    <2> QED
      BY <1>11, <2>2, <2>3, <2>4, <2>5 DEF Sent, RestOK
  <1>12. CASE SendFails(p)
    BY <1>2, <1>12, EndKeeps DEF SendFails, ScanOK, RestOK, outside, ghosts
  <1>13. CASE ArchiveMoves(p)
    BY <1>13, MoveKeeps DEF ArchiveMoves, ScanOK, RestOK, Files, outside, ghosts
  <1>14. CASE ArchiveFails(p)
    BY <1>2, <1>14, GoOnKeeps DEF ArchiveFails, ScanOK, RestOK, outside, ghosts
  <1>15. CASE ArchiveDone(p)
    BY <1>15, GoOnKeeps DEF ArchiveDone, ScanOK, RestOK, outside, ghosts
  <1>16. CASE Cleanup(p)
    <2>1. PassesOK' /\ ScanAwaited'
      BY <1>16, EndKeeps, MoveKeeps DEF Cleanup
    <2> QED
      BY <1>16, <2>1 DEF Cleanup, ScanOK, RestOK, outside, ghosts
  <1>17. CASE Drain(p)
    <2>1. CASE pending = NoFire
      BY <1>17, <2>1, EndKeeps DEF Drain, ScanOK, RestOK, outside, ghosts
    <2>2. CASE pending # NoFire
      <3> DEFINE q == [pass[p] EXCEPT !.at = "turn", !.fire = pending]
      <3>1. HandOK(q) /\ q.at \notin Listing
        BY <1>1, <2>2 DEF HandOK, PassRecords, Points, Listing, RestOK
      <3>2. PassesOK' /\ ScanAwaited'
        BY <1>17, <2>2, <3>1, EditKeeps DEF Drain
      <3> QED
        BY <1>17, <3>2 DEF Drain, ScanOK, RestOK, outside, ghosts
    <2> QED
      BY <2>1, <2>2
  <1>18. CASE DrainTurn(p)
    <2>1. CASE row = NoRow \/ row.invalid
      BY <1>18, <2>1, EndKeeps DEF DrainTurn, ScanOK, RestOK, outside, ghosts
    <2>2. CASE ~(row = NoRow \/ row.invalid)
      <3> DEFINE q == [pass[p] EXCEPT !.at = "read"]
      <3>1. pass[p].fire \in Fires
        BY <1>1, <1>18 DEF DrainTurn, At, HandOK
      <3>2. HandOK(q) /\ q.at \notin Listing
        BY <1>1, <3>1 DEF HandOK, PassRecords, Points, Listing
      <3>3. PassesOK' /\ ScanAwaited'
        BY <1>18, <2>2, <3>2, EditKeeps DEF DrainTurn, Move
      <3> QED
        BY <1>18, <2>2, <3>3 DEF DrainTurn, ScanOK, RestOK, outside, ghosts
    <2> QED
      BY <2>1, <2>2
  <1>19. CASE DrainDrops(p)
    <2>1. row' \in {NoRow} \cup Rows
      BY <1>1, <1>19 DEF DrainDrops, Rows
    <2> QED
      BY <1>19, <2>1, EndKeeps DEF DrainDrops, ScanOK, RestOK, outside, ghosts
  <1>20. CASE DrainWaits(p)
    BY <1>20, EndKeeps DEF DrainWaits, ScanOK, RestOK, outside, ghosts
  <1>21. CASE DrainSends(p)
    <2> DEFINE q == [pass[p] EXCEPT !.at = "send", !.def = file, !.to = "bound",
                                    !.then = "off"]
    <2>1. pass[p].fire \in Fires /\ file \in Files
      BY <1>1, <1>21 DEF DrainSends, At, HandOK, RestOK
    <2>2. HandOK(q) /\ q.at \notin Listing
      BY <1>1, <2>1 DEF HandOK, PassRecords, Points, Listing
    <2>3. PassesOK' /\ ScanAwaited'
      BY <1>21, <2>2, EditKeeps DEF DrainSends
    <2> QED
      BY <1>21, <2>3 DEF DrainSends, ScanOK, RestOK, outside, ghosts
  <1> QED
    BY <1>3, <1>4, <1>5, <1>6, <1>7, <1>8, <1>9, <1>10, <1>11, <1>12, <1>13, <1>14,
       <1>15, <1>16, <1>17, <1>18, <1>19, <1>20, <1>21 DEF PassStep

\* The clock, the editor, the Session, and the end and the start of the server.
LEMMA OutsideKeeps ==
    ASSUME SchedulerOK, OutsideStep
    PROVE  SchedulerOK'
  <1> USE DEF SchedulerOK, RestOK, ghosts
  <1>1. CASE UNCHANGED <<pass, scan>> /\ RestOK'
    BY <1>1 DEF PassesOK, ScanOK, ScanAwaited
  <1>2. CASE ClockTicks
    <2>1. now' \in 0..MaxTime
      BY <1>2, ConstantsAssumption DEF ClockTicks, Passing
    <2> QED
      BY <1>1, <1>2, <2>1 DEF ClockTicks
  <1>3. CASE HandEdit
    BY <1>1, <1>3 DEF HandEdit, outside
  <1>4. CASE SessionBusy \/ SessionIdle \/ SessionDeleted
    BY <1>1, <1>4 DEF SessionBusy, SessionIdle, SessionDeleted
  <1>5. CASE Stop
    <2>1. PassesOK'
      BY <1>5, OffTyped DEF Stop, PassesOK, HandOK
    <2>2. ScanAwaited'
      BY <1>5, OffTyped DEF Stop, ScanAwaited, Listing
    <2> QED
      BY <1>5, <2>1, <2>2 DEF Stop, ScanOK, Files
  <1>6. CASE Start
    BY <1>1, <1>6 DEF Start
  <1> QED
    BY <1>2, <1>3, <1>4, <1>5, <1>6 DEF OutsideStep

-----------------------------------------------------------------------------
(* Theorems *)

\* The lemmas together: the invariant always holds.
LEMMA SchedulerAlways == Spec => []SchedulerOK
  <1>1. Init => SchedulerOK
    <2> SUFFICES ASSUME Init PROVE SchedulerOK
      OBVIOUS
    <2>1. PassesOK
      BY OffTyped DEF Init, PassesOK, HandOK
    <2>2. ScanAwaited
      BY OffTyped DEF Init, ScanAwaited, Listing
    <2>3. 0 \in 0..MaxTime
      BY ConstantsAssumption
    <2> QED
      BY <2>1, <2>2, <2>3 DEF Init, SchedulerOK, ScanOK, RestOK, Files
  <1>2. SchedulerOK /\ [Next]_vars => SchedulerOK'
    <2> SUFFICES ASSUME SchedulerOK, [Next]_vars PROVE SchedulerOK'
      OBVIOUS
    <2>1. CASE UNCHANGED vars
      BY <2>1 DEF vars, SchedulerOK, PassesOK, ScanOK, RestOK, ScanAwaited
    <2>2. CASE Next
      BY <2>2, StartsKeep, ScanKeeps, PassKeeps, OutsideKeeps DEF Next
    <2> QED
      BY <2>1, <2>2
  <1> QED
    BY <1>1, <1>2, PTL DEF Spec

\* Every variable keeps its type, whatever passes overlap and whatever happens
\* outside; in particular what is sent is always a fire that was dispatched.
THEOREM SchedulerTypeCorrect == Spec => []TypeOK
  <1>1. SchedulerOK => TypeOK
    BY SchedulerOKTyped
  <1> QED
    BY <1>1, SchedulerAlways, PTL

\* No pass is left waiting for a directory scan that is over, for any number of
\* requests that list at once, forced or not (ScheduleFileCache.list).
THEOREM ScansAreAwaited == Spec => []ScanAwaited
  <1>1. SchedulerOK => ScanAwaited
    BY DEF SchedulerOK
  <1> QED
    BY <1>1, SchedulerAlways, PTL

-----------------------------------------------------------------------------
(* A due time is sent once.  Two things are asked for.  No request writes: a      *)
(* write registers its definition without a baseline (upsert), and its pass       *)
(* drains the queue beside the tick.  And a start_at belongs to one period: a     *)
(* task that is taken away, and comes back with the same start_at and a longer    *)
(* period, has a baseline before a time that was sent, and an edit back to the    *)
(* first period finds that time due.                                              *)

OnePeriod == \A d, e \in Definitions : d.start = e.start => d.period = e.period

Holding == {"send", "turn", "read"}

\* A request lists or deletes, and never dispatches or drains.
RequestOK(q) ==
    \/ q.kind = "none" /\ q.at = "off"
    \/ q.kind = "delete" /\ q.at = "deleted"
    \/ q.kind = "list" /\ q.at \in {"join", "evaluate", "archive", "archived", "cleanup"}

PlaceOK(p, q) ==
    IF p = Tick THEN q.at \notin {"write", "written", "wait", "deleted"} ELSE RequestOK(q)
PlacesOK == \A p \in Passes : PlaceOK(p, pass[p])

\* The fires that were dispatched, whatever became of them.
InHand(f) == pass[Tick].at \in Holding /\ f = pass[Tick].fire
Queued(f) == pending # NoFire /\ f = pending
Dispatched(f) == f \in sent \/ Queued(f) \/ InHand(f)

\* The time has come, and the row of its task, if there is one, says it is consumed.
Recorded(f) ==
    /\ f.def.start <= now
    /\ f.slot <= LatestSlot(f.def)
    /\ row # NoRow /\ row.def.start = f.def.start => row.missed \/ f.slot <= row.last
RecordedOK == \A f \in Fires : Dispatched(f) => Recorded(f)

MissedOK == row # NoRow /\ row.missed => row.def.period = 0

\* The fire that waits, the one in hand and those that were sent are different ones,
\* but for the fire the tick has copied and not yet taken.
SeparateOK ==
    /\ \A f \in Fires : f \in sent => ~Queued(f) /\ ~InHand(f)
    /\ pass[Tick].at = "send" => ~Queued(pass[Tick].fire)
    /\ pass[Tick].at \in {"turn", "read"} => pending \in {NoFire, pass[Tick].fire}

OnceOK == PlacesOK /\ RecordedOK /\ MissedOK /\ SeparateOK /\ ~resent

\* The quotient and the product of latestSlotAt.
LEMMA QuotientBounds ==
    ASSUME NEW a \in Nat, NEW p \in Nat \ {0}
    PROVE  (a \div p) * p <= a /\ a < (a \div p) * p + p
  OBVIOUS

\* A product grows with its factor.
LEMMA ProductGrows ==
    ASSUME NEW j \in Nat, NEW k \in Nat, NEW p \in Nat, j <= k
    PROVE  j * p <= k * p
  OBVIOUS

\* The last multiple of a period never goes back.
LEMMA MultipleGrows ==
    ASSUME NEW a \in Nat, NEW p \in Nat \ {0}
    PROVE  (a \div p) * p <= ((a + 1) \div p) * p
  <1> DEFINE j == a \div p
             k == (a + 1) \div p
  <1>1. j \in Nat /\ k \in Nat
    OBVIOUS
  <1>2. j * p <= a /\ a + 1 < k * p + p
    BY QuotientBounds
  <1>3. ASSUME k + 1 <= j PROVE FALSE
    <2>1. (k + 1) * p <= j * p
      BY <1>1, <1>3, ProductGrows
    <2>2. (k + 1) * p = k * p + p
      BY <1>1
    <2>3. k * p \in Nat /\ j * p \in Nat
      BY <1>1
    <2> QED
      BY <1>2, <2>1, <2>2, <2>3
  <1>4. j <= k
    BY <1>1, <1>3
  <1> QED
    BY <1>1, <1>4, ProductGrows

\* The latest due time of a definition never goes back (latestSlotAt).
LEMMA LatestSlotGrows ==
    ASSUME now \in Nat, NEW d \in Definitions, d.start <= now, now' = now + 1
    PROVE  LatestSlot(d) <= LatestSlot(d)'
  <1>1. d.start \in Nat /\ d.period \in Nat /\ now - d.start \in Nat
    BY DefinitionFields
  <1>2. CASE d.period = 0
    BY <1>1, <1>2 DEF LatestSlot
  <1>3. CASE d.period # 0
    <2> DEFINE a == now - d.start
    <2>1. (a \div d.period) * d.period <= ((a + 1) \div d.period) * d.period
      BY <1>1, <1>3, MultipleGrows
    <2>2. a \div d.period \in Nat /\ (a + 1) \div d.period \in Nat
      BY <1>1, <1>3
    <2>3. /\ (a \div d.period) * d.period \in Nat
          /\ ((a + 1) \div d.period) * d.period \in Nat
      BY <1>1, <2>2, ProductNat
    <2>4. now' - d.start = a + 1
      BY <1>1
    <2>5. LatestSlot(d) = d.start + (a \div d.period) * d.period
      BY <1>3 DEF LatestSlot
    <2>6. LatestSlot(d)' = d.start + ((a + 1) \div d.period) * d.period
      BY <1>3, <2>4 DEF LatestSlot
    <2> QED
      BY <1>1, <2>1, <2>3, <2>5, <2>6
  <1> QED
    BY <1>2, <1>3

\* What a step may do to the row, other than consuming a due time: nothing, a mark,
\* its end, or a registration.
RowStep ==
    \/ row' \in {row, NoRow}
    \/ row # NoRow /\ \E b \in BOOLEAN : row' \in {[row EXCEPT !.invalid = b], [row EXCEPT !.fired = b]}
    \/ \E d \in Definitions : row' = Registered(d)

\* Definitions of one start_at have the same due times.
LEMMA SameSlots ==
    ASSUME OnePeriod, NEW d \in Definitions, NEW e \in Definitions, d.start = e.start
    PROVE  d.period = e.period /\ LatestSlot(d) = LatestSlot(e)
  BY DEF OnePeriod, LatestSlot

\* No step of the row forgets a time that was dispatched: a registration afresh takes
\* its baseline at or after it (registerEntry).
LEMMA RegistrationRecords ==
    ASSUME OnePeriod, SchedulerOK, MissedOK, now' = now,
           NEW d \in Definitions, row' = Registered(d)
    PROVE  /\ MissedOK'
           /\ row'.def = d
           /\ \A f \in Fires : Recorded(f) => Recorded(f)'
  <1> USE DEF SchedulerOK
  <1>1. row \in {NoRow} \cup Rows /\ now \in Nat
    BY DEF RestOK
  <1>2. Row(d) \in Rows /\ Row(d).def = d /\ ~Row(d).missed
    BY RowTyped DEF Row
  <1>3. d.start \in Nat /\ d.period \in Nat
    BY DefinitionFields
  <1>4. CASE Fresh(d) /\ now < d.start
    <2>1. row' = Row(d)
      BY <1>4 DEF Registered, Synced
    <2>2. ASSUME NEW f \in Fires, Recorded(f) PROVE Recorded(f)'
      <3>1. f.def \in Definitions /\ f.def.start \in Nat
        BY DefinitionFields DEF Fires
      <3>2. f.def.start # d.start
        BY <1>1, <1>3, <1>4, <2>2, <3>1 DEF Recorded
      <3> QED
        BY <1>2, <2>1, <2>2, <3>2 DEF Recorded, LatestSlot
    <2> QED
      BY <1>2, <2>1, <2>2 DEF MissedOK
  <1>5. CASE Fresh(d) /\ ~(now < d.start) /\ d.period = 0
    <2>1. row' = [Row(d) EXCEPT !.missed = TRUE]
      BY <1>5 DEF Registered
    <2>2. row'.def = d /\ row'.missed
      BY <1>2, <2>1 DEF Rows
    <2>3. ASSUME NEW f \in Fires, Recorded(f) PROVE Recorded(f)'
      BY <2>2, <2>3 DEF Recorded, LatestSlot
    <2> QED
      BY <1>5, <2>2, <2>3 DEF MissedOK
  <1>6. CASE Fresh(d) /\ ~(now < d.start) /\ d.period # 0
    <2>1. row' = [Row(d) EXCEPT !.last = LatestSlot(d)]
      BY <1>6 DEF Registered
    <2>2. row'.def = d /\ ~row'.missed /\ row'.last = LatestSlot(d)
      BY <1>2, <2>1 DEF Rows
    <2>3. ASSUME NEW f \in Fires, Recorded(f) PROVE Recorded(f)'
      <3>1. f.def \in Definitions
        BY DEF Fires
      <3>2. f.def.start = d.start => f.slot <= LatestSlot(d)
        BY <2>3, <3>1, SameSlots DEF Recorded
      <3> QED
        BY <2>2, <2>3, <3>2 DEF Recorded, LatestSlot
    <2> QED
      BY <2>2, <2>3 DEF MissedOK
  <1>7. CASE ~Fresh(d)
    <2>1. row \in Rows /\ row # NoRow /\ row.def.start = d.start
      BY <1>1, <1>7 DEF Fresh
    <2>2. row' = IF row.def # d THEN [row EXCEPT !.def = d, !.invalid = FALSE] ELSE row
      BY <1>7 DEF Registered, Synced
    <2>3. row'.def = d /\ row'.missed = row.missed /\ row'.last = row.last
      BY <2>1, <2>2 DEF Rows
    <2>4. row.def.period = d.period
      <3>1. row.def \in Definitions
        BY <2>1 DEF Rows
      <3> QED
        BY <2>1, <3>1 DEF OnePeriod
    <2>5. ASSUME NEW f \in Fires, Recorded(f) PROVE Recorded(f)'
      BY <2>1, <2>3, <2>5 DEF Recorded, LatestSlot
    <2> QED
      BY <2>1, <2>3, <2>4, <2>5 DEF MissedOK
  <1> QED
    BY <1>4, <1>5, <1>6, <1>7

\* Neither does any other step of the row.
LEMMA RowStepRecords ==
    ASSUME OnePeriod, SchedulerOK, MissedOK, now' = now, RowStep
    PROVE  /\ MissedOK'
           /\ \A f \in Fires : Recorded(f) => Recorded(f)'
  <1>1. row \in {NoRow} \cup Rows
    BY DEF SchedulerOK, RestOK
  <1>2. CASE row' \in {row, NoRow}
    BY <1>2 DEF MissedOK, Recorded, LatestSlot
  <1>3. ASSUME row # NoRow, NEW b \in BOOLEAN,
               row' \in {[row EXCEPT !.invalid = b], [row EXCEPT !.fired = b]}
        PROVE  /\ MissedOK'
               /\ \A f \in Fires : Recorded(f) => Recorded(f)'
    <2>1. row'.def = row.def /\ row'.missed = row.missed /\ row'.last = row.last
      BY <1>1, <1>3 DEF Rows
    <2> QED
      BY <1>3, <2>1 DEF MissedOK, Recorded, LatestSlot
  <1> QED
    BY <1>2, <1>3, RegistrationRecords DEF RowStep

\* A time that is due was not dispatched before: the row would say so (evaluateEntry).
LEMMA DueIsNew ==
    ASSUME OnePeriod, SchedulerOK, MissedOK, NEW d \in Definitions, Due(d, Registered(d)),
           NEW f \in Fires, f.def = d, f.slot = LatestSlot(d)
    PROVE  ~Recorded(f)
  <1> SUFFICES ASSUME Recorded(f) PROVE FALSE
    OBVIOUS
  <1>1. row \in {NoRow} \cup Rows /\ now \in Nat /\ Row(d) \in Rows
    BY RowTyped DEF SchedulerOK, RestOK
  <1>2. LatestSlot(d) \in Nat /\ d.start \in Nat /\ d.start <= now
    BY <1>1, LatestSlotNat, DefinitionFields DEF Due
  <1>3. CASE Fresh(d) /\ d.period = 0
    <2>1. Registered(d) = [Row(d) EXCEPT !.missed = TRUE]
      BY <1>1, <1>2, <1>3 DEF Registered
    <2>2. Registered(d).missed
      BY <1>1, <2>1 DEF Rows
    <2> QED
      BY <1>3, <2>2 DEF Due
  <1>4. CASE Fresh(d) /\ d.period # 0
    <2>1. Registered(d) = [Row(d) EXCEPT !.last = LatestSlot(d)]
      BY <1>1, <1>2, <1>4 DEF Registered
    <2>2. Registered(d).last = LatestSlot(d)
      BY <1>1, <2>1 DEF Rows
    <2> QED
      BY <1>2, <2>2 DEF Due
  <1>5. CASE ~Fresh(d)
    <2>1. row \in Rows /\ row # NoRow /\ row.def.start = d.start
      BY <1>1, <1>5 DEF Fresh
    <2>2. Registered(d) = IF row.def # d THEN [row EXCEPT !.def = d, !.invalid = FALSE] ELSE row
      BY <1>5 DEF Registered, Synced
    <2>3. Registered(d).missed = row.missed /\ Registered(d).last = row.last /\ row.last \in Nat
      BY <2>1, <2>2 DEF Rows
    <2>4. row.missed \/ LatestSlot(d) <= row.last
      BY <2>1 DEF Recorded
    <2>5. ~(LatestSlot(d) <= row.last)
      BY <1>2, <2>3 DEF Due
    <2>6. row.missed => d.period = 0
      <3>1. row.def \in Definitions
        BY <2>1 DEF Rows
      <3> QED
        BY <2>1, <3>1 DEF OnePeriod, MissedOK
    <2> QED
      BY <2>3, <2>4, <2>5, <2>6 DEF Due
  <1> QED
    BY <1>3, <1>4, <1>5

\* The row that a registration makes is of the definition, and a one-shot's if missed.
LEMMA RegisteredFields ==
    ASSUME OnePeriod, SchedulerOK, MissedOK, NEW d \in Definitions
    PROVE  /\ Registered(d).def = d
           /\ Registered(d).missed => d.period = 0
  <1>1. row \in {NoRow} \cup Rows /\ Row(d) \in Rows /\ Row(d).def = d /\ ~Row(d).missed
    BY RowTyped DEF SchedulerOK, RestOK, Row
  <1>2. CASE Fresh(d) /\ now < d.start
    BY <1>1, <1>2 DEF Registered, Synced
  <1>3. CASE Fresh(d) /\ ~(now < d.start)
    <2>1. \/ d.period = 0 /\ Registered(d) = [Row(d) EXCEPT !.missed = TRUE]
          \/ Registered(d) = [Row(d) EXCEPT !.last = LatestSlot(d)]
      BY <1>3 DEF Registered
    <2>2. [Row(d) EXCEPT !.missed = TRUE].def = d
      BY <1>1 DEF Rows
    <2>3. [Row(d) EXCEPT !.last = LatestSlot(d)].def = d /\ ~[Row(d) EXCEPT !.last = LatestSlot(d)].missed
      BY <1>1 DEF Rows
    <2> QED
      BY <2>1, <2>2, <2>3
  <1>4. CASE ~Fresh(d)
    <2>1. row \in Rows /\ row # NoRow /\ row.def.start = d.start /\ row.def \in Definitions
      BY <1>1, <1>4 DEF Fresh, Rows
    <2>2. Registered(d) = IF row.def # d THEN [row EXCEPT !.def = d, !.invalid = FALSE] ELSE row
      BY <1>4 DEF Registered, Synced
    <2>3. Registered(d).def = d /\ Registered(d).missed = row.missed
      BY <2>1, <2>2 DEF Rows
    <2> QED
      BY <2>1, <2>3 DEF OnePeriod, MissedOK
  <1> QED
    BY <1>2, <1>3, <1>4

\* A due time that is consumed is recorded, and no other is forgotten (markSlot).
LEMMA ConsumedRecords ==
    ASSUME OnePeriod, SchedulerOK, MissedOK, now' = now,
           NEW d \in Definitions, Due(d, Registered(d)),
           row' \in {Consumed(d), [Consumed(d) EXCEPT !.invalid = TRUE]},
           NEW g \in Fires, g.def = d, g.slot = LatestSlot(d)
    PROVE  /\ MissedOK'
           /\ Recorded(g)'
           /\ \A f \in Fires : Recorded(f) => Recorded(f)'
  <1>1. Registered(d) \in Rows
    BY RegisteredTyped DEF SchedulerOK, RestOK
  <1>2. Registered(d).def = d /\ ~Registered(d).missed
    BY RegisteredFields DEF Due
  <1>3. d.start <= now /\ LatestSlot(d) \in Nat
    BY LatestSlotNat DEF Due, SchedulerOK, RestOK
  <1>4. Consumed(d) \in Rows /\ Consumed(d).def = d /\ ~Consumed(d).missed /\ Consumed(d).last = LatestSlot(d)
    BY <1>1, <1>2, <1>3 DEF Consumed, Rows
  <1>5. row'.def = d /\ ~row'.missed /\ row'.last = LatestSlot(d)
    BY <1>4 DEF Rows
  <1>6. ASSUME NEW f \in Fires, Recorded(f) PROVE Recorded(f)'
    <2>1. f.def.start = d.start => f.slot <= LatestSlot(d)
      BY <1>6, SameSlots DEF Recorded, Fires
    <2> QED
      BY <1>5, <1>6, <2>1 DEF Recorded, LatestSlot
  <1>7. Recorded(g)'
    BY <1>3, <1>5 DEF Recorded, LatestSlot
  <1> QED
    BY <1>5, <1>6, <1>7 DEF MissedOK

-----------------------------------------------------------------------------
(* Passes that dispatch nothing *)

\* Nothing is dispatched, taken or sent: a fire may only be dropped.
NothingNew ==
    /\ UNCHANGED ghosts
    /\ pending' \in {pending, NoFire}
    /\ pass'[Tick].at \in Holding =>
           /\ pass'[Tick].at # pass[Tick].at =>
                  pass'[Tick].at = "read" /\ pass[Tick].at = "turn"
           /\ pass'[Tick].fire = pass[Tick].fire

\* Such a step keeps the invariant, if its pass is in a place it may be in.
LEMMA NothingNewKeeps ==
    ASSUME SchedulerOK, OnceOK, NothingNew, PlacesOK', MissedOK',
           \A f \in Fires : Recorded(f) => Recorded(f)'
    PROVE  OnceOK'
  <1> USE DEF OnceOK
  <1>1. \A f : /\ Queued(f)' => Queued(f)
               /\ InHand(f)' => InHand(f)
               /\ f \in sent' => f \in sent
    BY DEF NothingNew, Queued, InHand, Holding, ghosts
  <1>2. RecordedOK'
    BY <1>1 DEF RecordedOK, Dispatched
  <1>3. pass'[Tick].at = "send" => ~Queued(pass[Tick].fire)'
    BY <1>1 DEF NothingNew, SeparateOK, Holding
  <1>4. pass'[Tick].at \in {"turn", "read"} => pending' \in {NoFire, pass'[Tick].fire}
    BY DEF NothingNew, SeparateOK, Holding
  <1>5. SeparateOK'
    <2>1. \A f \in Fires : f \in sent' => ~Queued(f)' /\ ~InHand(f)'
      BY <1>1 DEF SeparateOK
    <2>2. pass'[Tick].at = "send" => ~Queued(pass[Tick].fire)' /\ pass'[Tick].fire = pass[Tick].fire
      BY <1>3 DEF NothingNew, Holding
    <2> QED
      BY <1>4, <2>1, <2>2 DEF SeparateOK, Queued
  <1> QED
    BY <1>2, <1>5 DEF NothingNew, ghosts

\* A step of one pass that dispatches nothing.
PlainStep ==
    /\ now' = now
    /\ RowStep
    /\ UNCHANGED ghosts
    /\ pending' \in {pending, NoFire}

\* It keeps the invariant when the pass has nothing in hand afterwards.
LEMMA PlainEdit ==
    ASSUME OnePeriod, SchedulerOK, OnceOK, PlainStep,
           NEW p \in Passes, NEW q, Edit(p, q), PlaceOK(p, q),
           p = Tick => q.at \notin Holding
    PROVE  OnceOK'
  <1>1. Tick \in Passes /\ PassesOK
    BY DEF Passes, SchedulerOK
  <1>2. pass'[p] = q /\ \A r \in Passes : r # p => pass'[r] = pass[r]
    BY <1>1 DEF PassesOK, Edit
  <1>3. PlacesOK'
    BY <1>2 DEF OnceOK, PlacesOK, PlaceOK, RequestOK
  <1>4. NothingNew
    BY <1>1, <1>2 DEF NothingNew, PlainStep
  <1>5. MissedOK' /\ \A f \in Fires : Recorded(f) => Recorded(f)'
    BY RowStepRecords DEF PlainStep, OnceOK
  <1> QED
    BY <1>3, <1>4, <1>5, NothingNewKeeps

\* A pass ends, or moves on with its listing.
LEMMA PlainEnd ==
    ASSUME OnePeriod, SchedulerOK, OnceOK, PlainStep, NEW p \in Passes, End(p)
    PROVE  OnceOK'
  <1>1. PlaceOK(p, Off) /\ Off.at \notin Holding
    BY DEF PlaceOK, RequestOK, Off, Pass, Holding
  <1> QED
    BY <1>1, PlainEdit DEF End

\* The places of a pass that has read its listing.
Reading(p) == p # Tick => pass[p].kind = "list"

\* A pass goes on to a point where it has nothing in hand.
LEMMA PlainMove ==
    ASSUME OnePeriod, SchedulerOK, OnceOK, PlainStep, NEW p \in Passes,
           NEW point \in {"archive", "archived", "cleanup", "drain"},
           Reading(p), point = "drain" => p = Tick, NEW next,
           Edit(p, [pass[p] EXCEPT !.at = point, !.then = next])
           \/ Edit(p, [pass[p] EXCEPT !.at = point])
    PROVE  OnceOK'
  <1>1. pass[p] \in PassRecords
    BY DEF SchedulerOK, PassesOK
  <1>2. ASSUME NEW q, q.at = point, q.kind = pass[p].kind
        PROVE  PlaceOK(p, q) /\ q.at \notin Holding
    BY <1>2 DEF PlaceOK, RequestOK, Reading, Holding
  <1>3. /\ [pass[p] EXCEPT !.at = point].at = point
        /\ [pass[p] EXCEPT !.at = point].kind = pass[p].kind
        /\ [pass[p] EXCEPT !.at = point, !.then = next].at = point
        /\ [pass[p] EXCEPT !.at = point, !.then = next].kind = pass[p].kind
    BY <1>1 DEF PassRecords
  <1> QED
    BY <1>2, <1>3, PlainEdit

\* A pass goes on to its cleanup, or ends.
LEMMA PlainGoOn ==
    ASSUME OnePeriod, SchedulerOK, OnceOK, PlainStep, NEW p \in Passes,
           Reading(p), GoOn(p)
    PROVE  OnceOK'
  BY PlainEnd, PlainMove DEF GoOn, Move

\* A pass archives first, or goes on.
LEMMA PlainArchive ==
    ASSUME OnePeriod, SchedulerOK, OnceOK, PlainStep, NEW p \in Passes, Reading(p),
           NEW d, NEW r, NEW f, NEW next, ArchiveIfSettled(p, d, r, f, next)
    PROVE  OnceOK'
  BY PlainGoOn, PlainMove DEF ArchiveIfSettled

\* Where a request is, it lists, unless it starts, deletes or waits for its turn.
LEMMA RequestPlaces ==
    ASSUME SchedulerOK, OnceOK, NEW p \in Passes
    PROVE  /\ pass[p].at \in {"evaluate", "archive", "archived", "cleanup"} => Reading(p)
           /\ pass[p].at \in Holding \cup {"drain"} => p = Tick
           /\ pass[p].at \notin {"write", "written"}
           /\ pass[p].kind # "list" /\ pass[p].at = "evaluate" => p = Tick
  BY DEF OnceOK, PlacesOK, PlaceOK, RequestOK, Reading, Holding

-----------------------------------------------------------------------------
(* Every step *)

\* The steps of a pass that dispatch nothing.
LEMMA PlainPasses ==
    ASSUME OnePeriod, SchedulerOK, OnceOK, NEW p \in Passes,
           \/ WriteFile(p) \/ RegisterWritten(p) \/ DropEntry(p)
           \/ SkipFile(p) \/ NotDue(p) \/ SendFails(p)
           \/ ArchiveMoves(p) \/ ArchiveFails(p) \/ ArchiveDone(p)
           \/ Cleanup(p) \/ DrainDrops(p) \/ DrainWaits(p)
    PROVE  OnceOK'
  <1>1. UNCHANGED row => RowStep
    BY DEF RowStep
  <1>2. row' = NoRow => RowStep
    BY DEF RowStep
  <1> USE RequestPlaces
  <1>3. CASE WriteFile(p) \/ RegisterWritten(p)
    BY <1>3 DEF WriteFile, RegisterWritten, At
  <1>4. CASE DropEntry(p)
    BY <1>2, <1>4, PlainEnd DEF DropEntry, PlainStep, outside, ghosts
  <1>5. CASE SkipFile(p)
    BY <1>1, <1>5, PlainMove DEF SkipFile, Move, At, PlainStep, outside, ghosts
  <1>6. CASE NotDue(p)
    <2>1. pass[p].def \in Definitions /\ pass[p].at = "evaluate"
      BY <1>6 DEF NotDue, Reads, At
    <2>2. PlainStep
      BY <1>6, <2>1 DEF NotDue, RowStep, PlainStep, outside, ghosts
    <2> QED
      BY <1>6, <2>1, <2>2, PlainArchive DEF NotDue
  <1>7. CASE SendFails(p)
    BY <1>1, <1>7, PlainEnd, PlainArchive DEF SendFails, At, Reading, Holding, PlainStep, outside, ghosts
  <1>8. CASE ArchiveMoves(p)
    BY <1>1, <1>8, PlainMove DEF ArchiveMoves, Move, At, PlainStep, outside, ghosts
  <1>9. CASE ArchiveFails(p)
    BY <1>1, <1>9, PlainGoOn, PlainArchive DEF ArchiveFails, At, PlainStep, outside, ghosts
  <1>10. CASE ArchiveDone(p)
    BY <1>2, <1>10, PlainGoOn DEF ArchiveDone, At, PlainStep, outside, ghosts
  <1>11. CASE Cleanup(p)
    <2>1. PlainStep
      BY <1>1, <1>2, <1>11 DEF Cleanup, PlainStep, outside, ghosts
    <2>2. Reading(p)
      BY <1>11 DEF Cleanup, At
    <2>3. pass[p].kind # "list" => p = Tick
      BY <2>2 DEF Reading
    <2> QED
      BY <1>11, <2>1, <2>2, <2>3, PlainEnd, PlainMove DEF Cleanup, Move
  <1>12. CASE DrainDrops(p)
    <2>1. RowStep
      BY <1>1, <1>12 DEF DrainDrops, RowStep
    <2> QED
      BY <1>12, <2>1, PlainEnd DEF DrainDrops, PlainStep, outside, ghosts
  <1>13. CASE DrainWaits(p)
    BY <1>1, <1>13, PlainEnd DEF DrainWaits, PlainStep, outside, ghosts
  <1> QED
    BY <1>3, <1>4, <1>5, <1>6, <1>7, <1>8, <1>9, <1>10, <1>11, <1>12, <1>13

\* The tick moves, to a place of a pass that lists.
LEMMA TickMoves ==
    ASSUME SchedulerOK, OnceOK, NEW q, Edit(Tick, q), PlaceOK(Tick, q)
    PROVE  PlacesOK' /\ pass'[Tick] = q
  <1>1. Tick \in Passes /\ PassesOK
    BY DEF Passes, SchedulerOK
  <1>2. pass'[Tick] = q /\ \A r \in Passes : r # Tick => pass'[r] = pass[r]
    BY <1>1 DEF PassesOK, Edit
  <1>3. ASSUME NEW r \in Passes PROVE PlaceOK(r, pass'[r])
    BY <1>2, <1>3 DEF OnceOK, PlacesOK
  <1> QED
    BY <1>2, <1>3 DEF PlacesOK, PlaceOK, RequestOK

\* The tick takes its place in the queue, and the fire from it.
LEMMA DrainsOnce ==
    ASSUME OnePeriod, SchedulerOK, OnceOK, NEW p \in Passes,
           Drain(p) \/ DrainTurn(p) \/ DrainSends(p)
    PROVE  OnceOK'
  <1>1. p = Tick /\ PassesOK /\ pass[Tick] \in PassRecords
    BY RequestPlaces DEF Drain, DrainTurn, DrainSends, At, Holding, SchedulerOK, PassesOK
  <1>2. now' = now /\ UNCHANGED ghosts
    BY DEF Drain, DrainTurn, DrainSends, outside
  <1>3. UNCHANGED row => MissedOK' /\ \A f \in Fires : Recorded(f) => Recorded(f)'
    BY <1>2, RowStepRecords DEF OnceOK, RowStep
  <1>4. CASE End(p)
    <2>1. PlainStep
      BY <1>2, <1>4 DEF Drain, DrainTurn, DrainSends, PlainStep, RowStep
    <2> QED
      BY <1>4, <2>1, PlainEnd
  <1>5. CASE Drain(p) /\ ~End(p)
    <2> DEFINE q == [pass[p] EXCEPT !.at = "turn", !.fire = pending]
    <2>1. Edit(p, q) /\ pending # NoFire /\ UNCHANGED <<row, pending>>
      BY <1>5 DEF Drain
    <2>2. q.at = "turn" /\ q.fire = pending /\ PlaceOK(p, q)
      BY <1>1 DEF PassRecords, PlaceOK
    <2>3. pass'[Tick] = q
      BY <1>1, <2>1, <2>2, TickMoves
    <2>4. PlacesOK'
      BY <1>1, <2>1, <2>2, TickMoves
    <2>5. \A f : /\ InHand(f)' => Queued(f)
                 /\ Queued(f)' => Queued(f)
                 /\ f \in sent' => f \in sent
      BY <1>2, <2>1, <2>2, <2>3 DEF InHand, Queued, ghosts
    <2>6. RecordedOK'
      BY <1>3, <2>1, <2>5 DEF OnceOK, RecordedOK, Dispatched
    <2>7. SeparateOK'
      <3>1. pass'[Tick].at = "turn" /\ pass'[Tick].fire = pending /\ pending' = pending
        BY <2>1, <2>2, <2>3
      <3>2. \A f \in Fires : f \in sent' => ~Queued(f)' /\ ~InHand(f)'
        BY <2>5 DEF OnceOK, SeparateOK
      <3> QED
        BY <3>1, <3>2 DEF SeparateOK
    <2> QED
      BY <1>2, <1>3, <2>1, <2>4, <2>6, <2>7 DEF OnceOK, ghosts
  <1>6. CASE DrainTurn(p) /\ ~End(p)
    <2> DEFINE q == [pass[p] EXCEPT !.at = "read"]
    <2>1. Edit(p, q) /\ UNCHANGED <<row, pending>> /\ pass[Tick].at = "turn"
      BY <1>1, <1>6 DEF DrainTurn, Move, At
    <2>2. q.at = "read" /\ q.fire = pass[Tick].fire /\ PlaceOK(p, q)
      BY <1>1 DEF PassRecords, PlaceOK
    <2>3. pass'[Tick] = q
      BY <1>1, <2>1, <2>2, TickMoves
    <2>4. PlacesOK'
      BY <1>1, <2>1, <2>2, TickMoves
    <2>5. NothingNew
      <3>1. pass'[Tick].at = "read" /\ pass'[Tick].fire = pass[Tick].fire
        BY <2>2, <2>3
      <3> QED
        BY <1>2, <2>1, <3>1 DEF NothingNew
    <2> QED
      BY <1>3, <2>1, <2>4, <2>5, NothingNewKeeps
  <1>7. CASE DrainSends(p) /\ ~End(p)
    <2> DEFINE q == [pass[p] EXCEPT !.at = "send", !.def = file, !.to = "bound",
                                    !.then = "off"]
    <2>1. Edit(p, q) /\ pending' = NoFire /\ UNCHANGED row /\ pass[Tick].at = "read"
      BY <1>1, <1>7 DEF DrainSends, At
    <2>2. q.at = "send" /\ q.fire = pass[Tick].fire /\ PlaceOK(p, q)
      BY <1>1 DEF PassRecords, PlaceOK
    <2>3. pass'[Tick] = q
      BY <1>1, <2>1, <2>2, TickMoves
    <2>4. PlacesOK'
      BY <1>1, <2>1, <2>2, TickMoves
    <2>5. \A f : /\ InHand(f)' => InHand(f)
                 /\ ~Queued(f)'
                 /\ f \in sent' => f \in sent
      BY <1>2, <2>1, <2>2, <2>3 DEF InHand, Queued, Holding, ghosts
    <2>6. RecordedOK'
      BY <1>3, <2>1, <2>5 DEF OnceOK, RecordedOK, Dispatched
    <2>7. SeparateOK'
      BY <2>1, <2>2, <2>3, <2>5 DEF OnceOK, SeparateOK, Queued
    <2> QED
      BY <1>2, <1>3, <2>1, <2>4, <2>6, <2>7 DEF OnceOK, ghosts
  <1> QED
    BY <1>4, <1>5, <1>6, <1>7

\* What the tick dispatches is new: no fire that was dispatched before is the same.
LEMMA DispatchesNew ==
    ASSUME OnePeriod, SchedulerOK, OnceOK, NEW p \in Passes, NEW t, Dispatch(p, t),
           now' = now,
           row' \in {Consumed(pass[p].def), [Consumed(pass[p].def) EXCEPT !.invalid = TRUE]}
    PROVE  /\ p = Tick
           /\ NextFire(p) \in Fires
           /\ ~Dispatched(NextFire(p))
           /\ MissedOK'
           /\ \A f \in Fires : Recorded(f) \/ f = NextFire(p) => Recorded(f)'
  <1>1. p = Tick
    BY RequestPlaces DEF Dispatch, Reads, At
  <1>2. pass[p].def \in Definitions /\ Due(pass[p].def, Registered(pass[p].def))
    BY DEF Dispatch, Reads
  <1>3. NextFire(p) \in Fires
    BY DispatchTyped DEF SchedulerOK, RestOK
  <1>4. NextFire(p).def = pass[p].def /\ NextFire(p).slot = LatestSlot(pass[p].def)
    BY DEF NextFire
  <1>5. ~Dispatched(NextFire(p))
    BY <1>2, <1>3, <1>4, DueIsNew DEF OnceOK, RecordedOK
  <1>6. MissedOK' /\ \A f \in Fires : Recorded(f) => Recorded(f)'
    BY <1>2, <1>3, <1>4, ConsumedRecords DEF OnceOK
  <1>7. \A f \in Fires : f = NextFire(p) => Recorded(f)'
    BY <1>2, <1>4, ConsumedRecords DEF OnceOK
  <1> QED
    BY <1>1, <1>3, <1>5, <1>6, <1>7

\* A due time is consumed, and queued, sent at once, or dropped with its Session.
LEMMA DispatchesOnce ==
    ASSUME OnePeriod, SchedulerOK, OnceOK, NEW p \in Passes,
           SessionMissing(p) \/ QueueFire(p) \/ FireNow(p)
    PROVE  OnceOK'
  <1> DEFINE g == NextFire(p)
  <1>1. \E t : Dispatch(p, t)
    BY DEF SessionMissing, QueueFire, FireNow
  <1>2. now' = now /\ UNCHANGED ghosts
    BY DEF SessionMissing, QueueFire, FireNow, outside
  <1>3. row' \in {Consumed(pass[p].def), [Consumed(pass[p].def) EXCEPT !.invalid = TRUE]}
    BY DEF SessionMissing, QueueFire, FireNow
  <1>4. /\ p = Tick /\ g \in Fires /\ ~Dispatched(g) /\ MissedOK'
        /\ \A f \in Fires : Recorded(f) \/ f = g => Recorded(f)'
    BY <1>1, <1>2, <1>3, DispatchesNew
  <1>5. pass[Tick] \in PassRecords /\ pending \in Fires \cup {NoFire} /\ pass[Tick].at = "evaluate"
    BY <1>1, <1>4 DEF SchedulerOK, PassesOK, RestOK, Dispatch, Reads, At
  <1> HIDE DEF g
  <1>6. CASE SessionMissing(p) \/ QueueFire(p)
    <2> DEFINE q == [pass[p] EXCEPT !.at = "cleanup"]
    <2>1. Edit(Tick, q)
      BY <1>4, <1>6 DEF SessionMissing, QueueFire, Move
    <2>2. q.at = "cleanup" /\ PlaceOK(Tick, q)
      BY <1>4, <1>5 DEF PassRecords, PlaceOK
    <2>3. PlacesOK' /\ pass'[Tick].at = "cleanup"
      BY <2>1, <2>2, TickMoves
    <2>4. pending' \in {pending, g}
      BY <1>6 DEF SessionMissing, QueueFire, g
    <2>5. \A f : /\ Queued(f)' => Queued(f) \/ f = g
                 /\ ~InHand(f)'
                 /\ f \in sent' => f \in sent
      BY <1>2, <2>3, <2>4 DEF Queued, InHand, Holding, ghosts
    <2>6. RecordedOK'
      BY <1>4, <2>5 DEF OnceOK, RecordedOK, Dispatched
    <2>7. \A f \in Fires : f \in sent' => ~Queued(f)' /\ ~InHand(f)'
      BY <1>4, <2>5 DEF OnceOK, SeparateOK, Dispatched
    <2>8. SeparateOK'
      BY <2>3, <2>7 DEF SeparateOK
    <2> QED
      BY <1>2, <1>4, <2>3, <2>6, <2>8 DEF OnceOK, ghosts
  <1>7. CASE FireNow(p)
    <2> DEFINE q == [pass[p] EXCEPT !.at = "send", !.fire = g,
                                    !.to = pass[p].def.target, !.then = "again"]
    <2>1. Edit(Tick, q) /\ pending' = pending
      BY <1>4, <1>7 DEF FireNow, g
    <2>2. q.at = "send" /\ q.fire = g /\ PlaceOK(Tick, q)
      BY <1>4, <1>5 DEF PassRecords, PlaceOK
    <2>3. PlacesOK' /\ pass'[Tick].at = "send" /\ pass'[Tick].fire = g
      BY <2>1, <2>2, TickMoves
    <2>4. \A f : /\ Queued(f)' => Queued(f)
                 /\ InHand(f)' => f = g
                 /\ f \in sent' => f \in sent
      BY <1>2, <2>1, <2>3 DEF Queued, InHand, ghosts
    <2>5. RecordedOK'
      BY <1>4, <2>4 DEF OnceOK, RecordedOK, Dispatched
    <2>6. \A f \in Fires : f \in sent' => ~Queued(f)' /\ ~InHand(f)'
      BY <1>4, <2>4 DEF OnceOK, SeparateOK, Dispatched
    <2>7. ~(pending' # NoFire /\ g = pending')
      BY <1>4, <2>1 DEF Dispatched, Queued
    <2>8. SeparateOK'
      BY <2>3, <2>6, <2>7 DEF SeparateOK, Queued
    <2> QED
      BY <1>2, <1>4, <2>3, <2>5, <2>8 DEF OnceOK, ghosts
  <1> QED
    BY <1>6, <1>7

\* The fire in hand is sent: it was not sent before, and it does not wait as well.
LEMMA SendsOnce ==
    ASSUME OnePeriod, SchedulerOK, OnceOK, NEW p \in Passes, Sent(p)
    PROVE  OnceOK'
  <1> DEFINE g == pass[Tick].fire
  <1>1. p = Tick /\ pass[Tick].at = "send" /\ Tick \in Passes
    BY RequestPlaces DEF Sent, At, Holding, Passes
  <1>2. /\ pass[Tick] \in PassRecords /\ g \in Fires
        /\ row \in {NoRow} \cup Rows
    BY <1>1 DEF SchedulerOK, PassesOK, HandOK, RestOK
  <1>3. pending' = pending /\ now' = now /\ sent' = sent \cup {g} /\ resent' = (resent \/ g \in sent)
    BY <1>1 DEF Sent
  <1>4. InHand(g) /\ g \notin sent /\ ~Queued(g)
    BY <1>1, <1>2 DEF OnceOK, SeparateOK, InHand, Holding
  <1>5. RowStep
    <2>1. CASE row = NoRow
      BY <2>1 DEF Sent, RowStep
    <2>2. CASE row # NoRow
      <3>1. row' = [row EXCEPT !.fired = row.fired \/ pass[p].def.period = 0]
        BY <2>2 DEF Sent
      <3>2. (row.fired \/ pass[p].def.period = 0) \in BOOLEAN
        OBVIOUS
      <3> QED
        BY <2>2, <3>1, <3>2 DEF RowStep
    <2> QED
      BY <2>1, <2>2
  <1>6. MissedOK' /\ \A f \in Fires : Recorded(f) => Recorded(f)'
    BY <1>3, <1>5, RowStepRecords DEF OnceOK
  <1>7. PlacesOK' /\ pass'[Tick].at \notin Holding
    <2>1. PICK q : Edit(Tick, q) /\ q.at \in {"off", "archive", "cleanup"}
      <3>1. Off.at = "off"
        BY DEF Off, Pass
      <3>2. \A n : [pass[Tick] EXCEPT !.at = "archive", !.then = n].at = "archive"
        BY <1>2 DEF PassRecords
      <3>3. [pass[Tick] EXCEPT !.at = "cleanup"].at = "cleanup"
        BY <1>2 DEF PassRecords
      <3> QED
        BY <1>1, <3>1, <3>2, <3>3 DEF Sent, ArchiveIfSettled, GoOn, End, Move
    <2>2. PlaceOK(Tick, q)
      BY <2>1 DEF PlaceOK
    <2> QED
      BY <2>1, <2>2, TickMoves DEF Holding
  <1>8. \A f : /\ Queued(f)' => Queued(f)
               /\ ~InHand(f)'
               /\ f \in sent' => f \in sent \/ InHand(f)
    BY <1>3, <1>4, <1>7 DEF Queued, InHand
  <1>9. RecordedOK'
    BY <1>6, <1>8 DEF OnceOK, RecordedOK, Dispatched
  <1>10. \A f \in Fires : f \in sent' => ~Queued(f)' /\ ~InHand(f)'
    BY <1>3, <1>4, <1>8 DEF OnceOK, SeparateOK
  <1>11. SeparateOK'
    BY <1>7, <1>10 DEF SeparateOK, Holding
  <1> QED
    BY <1>3, <1>4, <1>6, <1>7, <1>9, <1>11 DEF OnceOK

\* A tick or a request begins: it holds no fire.
LEMMA StartsOnce ==
    ASSUME OnePeriod, "write" \notin Kinds, SchedulerOK, OnceOK,
           StartTick \/ \E p \in Requests : RequestStep(p)
    PROVE  OnceOK'
  <1>1. PassesOK /\ ScanOK /\ ScanAwaited
    BY DEF SchedulerOK
  <1>2. CASE StartTick
    <2>1. PlainStep /\ Tick \in Passes
      BY <1>2 DEF StartTick, PlainStep, RowStep, outside, ghosts, Passes
    <2>2. \E q : Edit(Tick, q) /\ q.at = "join"
      <3>1. [Pass("tick", "join", NoFile) EXCEPT !.at = "join"].at = "join"
        BY DEF Pass
      <3> QED
        BY <1>2, <3>1 DEF StartTick, Listed
    <2> QED
      BY <2>1, <2>2, PlainEdit DEF PlaceOK, Holding
  <1>3. ASSUME NEW p \in Requests, RequestStep(p)
        PROVE  OnceOK'
    <2>1. p \in Passes /\ p # Tick
      BY ConstantsAssumption DEF Passes
    <2>2. CASE StartList(p)
      <3>1. PlainStep
        BY <2>2 DEF StartList, PlainStep, RowStep, outside, ghosts
      <3>2. \E q : Edit(p, q) /\ q.at = "join" /\ q.kind = "list"
        <4>1. /\ [Pass("list", "join", NoFile) EXCEPT !.at = "join"].at = "join"
              /\ [Pass("list", "join", NoFile) EXCEPT !.at = "join"].kind = "list"
          BY DEF Pass
        <4> QED
          BY <2>2, <4>1 DEF StartList, Listed
      <3> QED
        BY <2>1, <3>1, <3>2, PlainEdit DEF PlaceOK, RequestOK
    <2>3. CASE StartDelete(p)
      <3>1. PlainStep
        BY <2>3 DEF StartDelete, PlainStep, RowStep, outside, ghosts
      <3>2. PlaceOK(p, Pass("delete", "deleted", NoFile))
        BY <2>1 DEF PlaceOK, RequestOK, Pass
      <3> QED
        BY <2>1, <2>3, <3>1, <3>2, PlainEdit DEF StartDelete
    <2> QED
      BY <1>3, <2>2, <2>3 DEF RequestStep, StartWrite
  <1> QED
    BY <1>2, <1>3

\* The scan goes on, and those that joined it have their listing.
LEMMA ScansOnce ==
    ASSUME OnePeriod, SchedulerOK, OnceOK, ScanStep
    PROVE  OnceOK'
  <1>1. MissedOK' /\ \A f \in Fires : Recorded(f) => Recorded(f)'
    BY RowStepRecords DEF OnceOK, RowStep, ScanStep, ScanReads, ScanEnds, outside
  <1>2. pass \in [Passes -> PassRecords] /\ Tick \in Passes
    BY DEF SchedulerOK, PassesOK, Passes
  <1>3. CASE ScanReads
    <2>1. NothingNew /\ PlacesOK'
      BY <1>3 DEF ScanReads, NothingNew, OnceOK, PlacesOK
    <2> QED
      BY <1>1, <2>1, NothingNewKeeps
  <1>4. CASE ScanEnds
    <2>1. \A p \in Passes : pass[p].at # "wait"
      BY DEF OnceOK, PlacesOK, PlaceOK, RequestOK
    <2>2. PICK first : pass' = [p \in Passes |->
                          IF At(p, "join") THEN [pass[p] EXCEPT !.at = "evaluate",
                                                                !.def = scan.saw]
                          ELSE IF p = first THEN [pass[p] EXCEPT !.at = "join"]
                          ELSE pass[p]]
                      /\ first \notin Passes
      <3>1. {p \in Passes : At(p, "wait")} = {}
        BY <2>1 DEF At
      <3>2. None \notin Passes
        BY ConstantsAssumption DEF Passes
      <3> QED
        BY <1>4, <3>1, <3>2 DEF ScanEnds
    <2>3. ASSUME NEW p \in Passes
          PROVE  \/ pass'[p] = pass[p]
                 \/ /\ pass[p].at = "join"
                    /\ pass'[p].at = "evaluate"
                    /\ pass'[p].kind = pass[p].kind
      <3>1. CASE At(p, "join")
        <4>1. pass'[p] = [pass[p] EXCEPT !.at = "evaluate", !.def = scan.saw]
          BY <2>2, <3>1
        <4> QED
          BY <1>2, <3>1, <4>1 DEF PassRecords, At
      <3>2. CASE ~At(p, "join")
        BY <2>2, <3>2
      <3> QED
        BY <3>1, <3>2
    <2>4. PlacesOK'
      BY <2>3 DEF OnceOK, PlacesOK, PlaceOK, RequestOK
    <2>5. NothingNew
      BY <1>2, <1>4, <2>3 DEF ScanEnds, NothingNew, Holding
    <2> QED
      BY <1>1, <2>4, <2>5, NothingNewKeeps
  <1> QED
    BY <1>3, <1>4 DEF ScanStep

\* Time goes by, people edit, Sessions come and go, the server stops and starts.
LEMMA OutsideOnce ==
    ASSUME OnePeriod, SchedulerOK, OnceOK, OutsideStep
    PROVE  OnceOK'
  <1>1. CASE ClockTicks
    <2>1. now \in Nat /\ now' = now + 1 /\ UNCHANGED <<row, pending, pass, ghosts>>
      BY <1>1 DEF ClockTicks, Passing, SchedulerOK, RestOK
    <2>2. ASSUME NEW f \in Fires, Recorded(f) PROVE Recorded(f)'
      <3>1. f.def \in Definitions /\ f.slot \in Nat /\ f.def.start \in Nat
        BY DefinitionFields DEF Fires
      <3>2. f.def.start <= now /\ f.def.start <= now'
        BY <2>1, <2>2, <3>1 DEF Recorded
      <3>3. LatestSlot(f.def) \in Nat /\ LatestSlot(f.def)' \in Nat
        <4>1. now' \in Nat
          BY <2>1
        <4>2. \A d \in Definitions : d.start <= now => LatestSlot(d) \in Nat
          BY <2>1, LatestSlotNat, DefinitionFields
        <4>3. LatestSlot(f.def)' \in Nat
          <5> DEFINE d == f.def
          <5>1. d.start \in Nat /\ d.period \in Nat /\ now' - d.start \in Nat
            BY <3>1, <3>2, <4>1, DefinitionFields
          <5>2. CASE d.period = 0
            BY <5>1, <5>2 DEF LatestSlot
          <5>3. CASE d.period # 0
            <6>1. (now' - d.start) \div d.period \in Nat
              BY <5>1, <5>3
            <6>2. ((now' - d.start) \div d.period) * d.period \in Nat
              BY <5>1, <6>1, ProductNat
            <6> QED
              BY <5>1, <5>3, <6>2 DEF LatestSlot
          <5> QED
            BY <5>2, <5>3
        <4> QED
          BY <3>1, <3>2, <4>2, <4>3
      <3>4. LatestSlot(f.def) <= LatestSlot(f.def)'
        BY <2>1, <3>1, <3>2, LatestSlotGrows
      <3>5. f.slot <= LatestSlot(f.def)'
        BY <2>2, <3>1, <3>3, <3>4 DEF Recorded
      <3> QED
        BY <2>1, <2>2, <3>2, <3>5 DEF Recorded
    <2>3. NothingNew /\ PlacesOK' /\ MissedOK'
      BY <2>1 DEF NothingNew, OnceOK, PlacesOK, MissedOK
    <2> QED
      BY <2>2, <2>3, NothingNewKeeps
  <1>2. CASE HandEdit \/ SessionBusy \/ SessionIdle \/ SessionDeleted \/ Start
    <2>1. now' = now /\ UNCHANGED <<row, pending, pass, ghosts>>
      BY <1>2 DEF HandEdit, SessionBusy, SessionIdle, SessionDeleted, Start, outside
    <2>2. MissedOK' /\ \A f \in Fires : Recorded(f) => Recorded(f)'
      BY <2>1, RowStepRecords DEF OnceOK, RowStep
    <2>3. NothingNew /\ PlacesOK'
      BY <2>1 DEF NothingNew, OnceOK, PlacesOK
    <2> QED
      BY <2>2, <2>3, NothingNewKeeps
  <1>3. CASE Stop
    <2>1. MissedOK' /\ \A f \in Fires : Recorded(f) => Recorded(f)'
      BY <1>3, RowStepRecords DEF Stop, OnceOK, RowStep
    <2>2. \A p \in Passes : pass'[p] = Off
      BY <1>3 DEF Stop
    <2>3. Off.at = "off" /\ Off.kind = "none" /\ Tick \in Passes
      BY DEF Off, Pass, Passes
    <2>4. PlacesOK'
      BY <2>2, <2>3 DEF PlacesOK, PlaceOK, RequestOK
    <2>5. NothingNew
      BY <1>3, <2>2, <2>3 DEF Stop, NothingNew, Holding
    <2> QED
      BY <2>1, <2>4, <2>5, NothingNewKeeps
  <1> QED
    BY <1>1, <1>2, <1>3 DEF OutsideStep

\* A due time of a definition is sent at most once, whatever passes overlap, however
\* its file is edited, removed and restored, and through restarts and failures
\* (markSlot in evaluateEntry, the baseline of registerEntry, drainQueue), unless a
\* write registers it or a start_at changes its period.
THEOREM SchedulerSentOnce ==
    ASSUME OnePeriod, "write" \notin Kinds
    PROVE  Spec => []SentOnce
  <1>1. Init => OnceOK
    <2> SUFFICES ASSUME Init PROVE OnceOK
      OBVIOUS
    <2>1. Tick \in Passes /\ Off.at = "off" /\ Off.kind = "none"
      BY DEF Passes, Off, Pass
    <2>2. \A p \in Passes : pass[p] = Off
      BY DEF Init
    <2>3. PlacesOK
      BY <2>1, <2>2 DEF PlacesOK, PlaceOK, RequestOK
    <2>4. \A f : ~Dispatched(f)
      BY <2>1, <2>2 DEF Init, Dispatched, Queued, InHand, Holding
    <2>5. RecordedOK /\ MissedOK
      BY <2>4 DEF Init, RecordedOK, MissedOK
    <2>6. SeparateOK
      BY <2>1, <2>2 DEF Init, SeparateOK
    <2> QED
      BY <2>3, <2>5, <2>6 DEF Init, OnceOK
  <1>2. SchedulerOK /\ OnceOK /\ [Next]_vars => OnceOK'
    <2> SUFFICES ASSUME SchedulerOK, OnceOK, [Next]_vars PROVE OnceOK'
      OBVIOUS
    <2>1. CASE UNCHANGED vars
      <3>1. NothingNew /\ PlacesOK' /\ RowStep /\ now' = now
        BY <2>1 DEF vars, NothingNew, OnceOK, PlacesOK, RowStep, ghosts
      <3> QED
        BY <3>1, RowStepRecords, NothingNewKeeps DEF OnceOK
    <2>2. ASSUME NEW p \in Passes, PassStep(p)
          PROVE  OnceOK'
      BY <2>2, PlainPasses, DrainsOnce, DispatchesOnce, SendsOnce DEF PassStep
    <2> QED
      BY <2>1, <2>2, StartsOnce, ScansOnce, OutsideOnce DEF Next
  <1>3. OnceOK => SentOnce
    BY DEF OnceOK, SentOnce
  <1> QED
    BY <1>1, <1>2, <1>3, SchedulerAlways, PTL DEF Spec

-----------------------------------------------------------------------------
(* What is sent is due, for every kind of request *)

\* A fire that is on its way: sent, queued, or in the hand of any pass.
Held(f) == \E p \in Passes : pass[p].at \in Holding /\ f = pass[p].fire
OnTheWay(f) == f \in sent \/ Queued(f) \/ Held(f)

\* A due time that the definition calls for: it is enabled, the time has come, it is
\* one of its periods, and not past its end (evaluateEntry, latestSlotAt).
CalledFor(f) ==
    /\ f.def.enabled
    /\ f.slot <= now
    /\ f.def.end = 0 \/ f.slot <= f.def.end
    /\ \E k \in Nat : f.slot = f.def.start + k * f.def.period

\* Every fire that was sent, that waits or that a pass has in hand is one of those.
FiresCalledFor == \A f \in Fires : OnTheWay(f) => CalledFor(f)

\* The latest due time of a task that has started has come, and is one of its periods
\* (latestSlotAt).
LEMMA LatestSlotCalled ==
    ASSUME now \in Nat, NEW d \in Definitions, now >= d.start
    PROVE  /\ LatestSlot(d) <= now
           /\ \E k \in Nat : LatestSlot(d) = d.start + k * d.period
  <1>1. d.start \in Nat /\ d.period \in Nat /\ now - d.start \in Nat
    BY DefinitionFields
  <1>2. CASE d.period = 0
    <2>1. LatestSlot(d) = d.start
      BY <1>2 DEF LatestSlot
    <2>2. 0 \in Nat /\ d.start = d.start + 0 * d.period
      BY <1>1, <1>2
    <2> QED
      BY <1>1, <2>1, <2>2
  <1>3. CASE d.period # 0
    <2> DEFINE k == (now - d.start) \div d.period
    <2>1. k \in Nat
      BY <1>1, <1>3
    <2>2. k * d.period \in Nat
      BY <1>1, <2>1, ProductNat
    <2>3. k * d.period <= now - d.start
      BY <1>1, <1>3, QuotientBounds
    <2>4. LatestSlot(d) = d.start + k * d.period
      BY <1>3 DEF LatestSlot
    <2> HIDE DEF k
    <2>5. LatestSlot(d) <= now
      BY <1>1, <2>2, <2>3, <2>4
    <2> QED
      BY <2>1, <2>4, <2>5
  <1> QED
    BY <1>2, <1>3

\* A fire that is dispatched is called for (evaluateEntry).
LEMMA DispatchCalled ==
    ASSUME SchedulerOK, NEW p \in Passes, NEW t, Dispatch(p, t)
    PROVE  NextFire(p) \in Fires /\ CalledFor(NextFire(p))
  <1> DEFINE d == pass[p].def
  <1>1. d \in Definitions /\ Due(d, Registered(d)) /\ now \in Nat
    BY DEF Dispatch, Reads, SchedulerOK, RestOK
  <1>2. NextFire(p) \in Fires
    BY DispatchTyped DEF SchedulerOK, RestOK
  <1>3. NextFire(p).def = d /\ NextFire(p).slot = LatestSlot(d)
    BY DEF NextFire
  <1>4. d.enabled /\ now >= d.start /\ (d.end = 0 \/ LatestSlot(d) <= d.end)
    BY <1>1 DEF Due
  <1>5. /\ LatestSlot(d) <= now
        /\ \E k \in Nat : LatestSlot(d) = d.start + k * d.period
    BY <1>1, <1>4, LatestSlotCalled
  <1> QED
    BY <1>2, <1>3, <1>4, <1>5 DEF CalledFor

\* What is on the way stays what it was, and whatever joins it is called for.
Forwarded == \A f \in Fires : OnTheWay(f)' => OnTheWay(f) \/ CalledFor(f)

\* Time only goes forward: what was called for remains so.
LEMMA ForwardedKeeps ==
    ASSUME SchedulerOK, FiresCalledFor, Forwarded, now' \in {now, now + 1}
    PROVE  FiresCalledFor'
  <1>1. now \in Nat
    BY DEF SchedulerOK, RestOK
  <1>2. \A f \in Fires : CalledFor(f) => CalledFor(f)'
    BY <1>1 DEF CalledFor, Fires
  <1> QED
    BY <1>2 DEF FiresCalledFor, Forwarded

\* One pass goes on, with nothing in hand or with a fire that was on its way or is
\* called for, and so with the queue.
LEMMA EditForwards ==
    ASSUME SchedulerOK, NEW p \in Passes, NEW q, Edit(p, q),
           q.at \in Holding => OnTheWay(q.fire) \/ CalledFor(q.fire),
           pending' \in {pending, NoFire} \/ CalledFor(pending'),
           sent' \subseteq sent \cup {f \in Fires : Held(f)}
    PROVE  Forwarded
  <1>1. pass \in [Passes -> PassRecords]
    BY DEF SchedulerOK, PassesOK
  <1>2. pass' = [pass EXCEPT ![p] = q]
    BY DEF Edit
  <1>3. ASSUME NEW r \in Passes
        PROVE  pass'[r] = pass[r] \/ pass'[r] = q
    BY <1>1, <1>2
  <1>4. ASSUME NEW f, NEW r \in Passes, pass'[r].at \in Holding, f = pass'[r].fire
        PROVE  OnTheWay(f) \/ CalledFor(f)
    BY <1>3, <1>4 DEF OnTheWay, Held
  <1>5. ASSUME NEW f, Held(f)'
        PROVE  OnTheWay(f) \/ CalledFor(f)
    BY <1>4, <1>5 DEF Held
  <1>6. ASSUME NEW f, Queued(f)'
        PROVE  OnTheWay(f) \/ CalledFor(f)
    BY <1>6 DEF Queued, OnTheWay
  <1>7. ASSUME NEW f, f \in sent'
        PROVE  OnTheWay(f)
    BY <1>7 DEF OnTheWay
  <1> QED
    BY <1>5, <1>6, <1>7 DEF Forwarded, OnTheWay

\* A pass goes on with nothing in hand.
EmptyHanded(p) == \E q : Edit(p, q) /\ q.at \notin Holding

\* It goes on to its next point, or ends.
LEMMA MovesEmptyHanded ==
    ASSUME SchedulerOK, NEW p \in Passes
    PROVE  /\ End(p) \/ GoOn(p) => EmptyHanded(p)
           /\ \A a \in Points \ Holding : Move(p, a) => EmptyHanded(p)
           /\ \A d, r, f, n : ArchiveIfSettled(p, d, r, f, n) => EmptyHanded(p)
           /\ \A q \in PassRecords, b \in BOOLEAN : Listed(p, q, b) => EmptyHanded(p)
  <1>1. pass[p] \in PassRecords
    BY DEF SchedulerOK, PassesOK
  <1>2. \A a \in Points \ Holding : Move(p, a) => EmptyHanded(p)
    <2>1. \A a : [pass[p] EXCEPT !.at = a].at = a
      BY <1>1 DEF PassRecords
    <2> QED
      BY <2>1 DEF Move, EmptyHanded
  <1>3. End(p) => EmptyHanded(p)
    BY DEF End, Off, Pass, EmptyHanded, Holding
  <1>4. "cleanup" \in Points \ Holding
    BY DEF Points, Holding
  <1>5. GoOn(p) => EmptyHanded(p)
    BY <1>2, <1>3, <1>4 DEF GoOn
  <1>6. ASSUME NEW d, NEW r, NEW f, NEW n, ArchiveIfSettled(p, d, r, f, n)
        PROVE  EmptyHanded(p)
    <2>1. [pass[p] EXCEPT !.at = "archive", !.then = n].at = "archive"
      BY <1>1 DEF PassRecords
    <2> QED
      BY <1>5, <1>6, <2>1 DEF ArchiveIfSettled, EmptyHanded, Holding
  <1>7. ASSUME NEW q \in PassRecords, NEW b \in BOOLEAN, Listed(p, q, b)
        PROVE  EmptyHanded(p)
    <2>1. [q EXCEPT !.at = "join"].at = "join" /\ [q EXCEPT !.at = "wait"].at = "wait"
      BY DEF PassRecords
    <2>2. Edit(p, [q EXCEPT !.at = "join"]) \/ Edit(p, [q EXCEPT !.at = "wait"])
      BY <1>7 DEF Listed
    <2> QED
      BY <2>1, <2>2 DEF EmptyHanded, Holding
  <1> QED
    BY <1>2, <1>3, <1>5, <1>6, <1>7

\* Then nothing joins what is on the way but what it queues.
LEMMA EmptyHandedForwards ==
    ASSUME SchedulerOK, NEW p \in Passes, EmptyHanded(p),
           pending' \in {pending, NoFire} \/ CalledFor(pending'),
           sent' \subseteq sent \cup {f \in Fires : Held(f)}
    PROVE  Forwarded
  BY EditForwards DEF EmptyHanded

\* A tick or a request begins, and holds no fire.
LEMMA StartsForward ==
    ASSUME SchedulerOK, StartTick \/ \E p \in Requests : RequestStep(p)
    PROVE  Forwarded /\ now' = now
  <1>1. pending' = pending /\ sent' = sent /\ now' = now
    BY DEF StartTick, RequestStep, StartList, StartDelete, StartWrite, outside, ghosts
  <1>2. \A k \in {"tick", "list"} : Pass(k, "join", NoFile) \in PassRecords
    BY PassTyped DEF RequestKinds, Points, Files
  <1>3. PICK p \in Passes : EmptyHanded(p)
    <2>1. CASE StartTick
      <3>1. Tick \in Passes
        BY DEF Passes
      <3> QED
        BY <1>2, <2>1, <3>1, MovesEmptyHanded DEF StartTick
    <2>2. ASSUME NEW p \in Requests, RequestStep(p)
          PROVE  p \in Passes /\ EmptyHanded(p)
      <3>1. p \in Passes
        BY DEF Passes
      <3>2. CASE StartList(p)
        BY <1>2, <3>1, <3>2, MovesEmptyHanded DEF StartList
      <3>3. \A k, d : Pass(k, "deleted", d).at \notin Holding
                    /\ Pass(k, "write", d).at \notin Holding
        BY DEF Pass, Holding
      <3>4. CASE StartDelete(p)
        <4>1. Edit(p, Pass("delete", "deleted", NoFile))
          BY <3>4 DEF StartDelete
        <4> QED
          BY <3>1, <3>3, <4>1, Zenon DEF EmptyHanded
      <3>5. ASSUME NEW d \in Definitions, StartWrite(p, d)
            PROVE  EmptyHanded(p)
        <4>1. Edit(p, Pass("write", "write", d))
          BY <3>5 DEF StartWrite
        <4> QED
          BY <3>3, <4>1, Zenon DEF EmptyHanded
      <3> QED
        BY <2>2, <3>1, <3>2, <3>4, <3>5 DEF RequestStep
    <2> QED
      BY <2>1, <2>2
  <1> QED
    BY <1>1, <1>3, EmptyHandedForwards

\* A pass dispatches what is due, takes what is queued, or sends what it has in hand.
LEMMA PassForwards ==
    ASSUME SchedulerOK, NEW p \in Passes, PassStep(p)
    PROVE  Forwarded /\ now' = now
  <1>1. pass[p] \in PassRecords /\ HandOK(pass[p])
    BY DEF SchedulerOK, PassesOK
  <1>2. now' = now
    BY DEF PassStep, WriteFile, RegisterWritten, DropEntry, SkipFile, NotDue,
           SessionMissing, QueueFire, FireNow, Sent, SendFails, ArchiveMoves,
           ArchiveFails, ArchiveDone, Cleanup, Drain, DrainTurn, DrainDrops,
           DrainWaits, DrainSends, outside
  <1>3. {"written", "archived", "cleanup", "drain"} \subseteq Points \ Holding
    BY DEF Points, Holding
  <1>4. CASE WriteFile(p) \/ SkipFile(p) \/ SessionMissing(p) \/ ArchiveMoves(p)
    <2>1. EmptyHanded(p)
      BY <1>3, <1>4, MovesEmptyHanded DEF WriteFile, SkipFile, SessionMissing, ArchiveMoves
    <2>2. pending' = pending /\ sent' = sent
      BY <1>4 DEF WriteFile, SkipFile, SessionMissing, ArchiveMoves, ghosts
    <2> QED
      BY <1>2, <2>1, <2>2, EmptyHandedForwards
  <1>5. CASE DropEntry(p) \/ Cleanup(p) \/ DrainDrops(p) \/ DrainWaits(p)
    <2>1. EmptyHanded(p)
      BY <1>3, <1>5, MovesEmptyHanded DEF DropEntry, Cleanup, DrainDrops, DrainWaits
    <2>2. pending' \in {pending, NoFire} /\ sent' = sent
      BY <1>5 DEF DropEntry, Cleanup, DrainDrops, DrainWaits, ghosts
    <2> QED
      BY <1>2, <2>1, <2>2, EmptyHandedForwards
  <1>6. CASE NotDue(p) \/ SendFails(p) \/ ArchiveFails(p) \/ ArchiveDone(p)
    <2>1. EmptyHanded(p)
      BY <1>6, MovesEmptyHanded DEF NotDue, SendFails, ArchiveFails, ArchiveDone
    <2>2. pending' = pending /\ sent' = sent
      BY <1>6 DEF NotDue, SendFails, ArchiveFails, ArchiveDone, ghosts
    <2> QED
      BY <1>2, <2>1, <2>2, EmptyHandedForwards
  <1>7. CASE RegisterWritten(p)
    <2>1. EmptyHanded(p)
      BY <1>1, <1>7, MovesEmptyHanded DEF RegisterWritten
    <2> QED
      BY <1>2, <1>7, <2>1, EmptyHandedForwards DEF RegisterWritten, ghosts
  <1>8. CASE QueueFire(p)
    <2>1. EmptyHanded(p)
      BY <1>3, <1>8, MovesEmptyHanded DEF QueueFire
    <2>2. CalledFor(NextFire(p))
      BY <1>8, DispatchCalled DEF QueueFire
    <2>3. pending' \in {pending, NextFire(p)} /\ sent' = sent
      BY <1>8 DEF QueueFire, ghosts
    <2> QED
      BY <1>2, <2>1, <2>2, <2>3, EmptyHandedForwards
  <1>9. CASE FireNow(p)
    <2> DEFINE q == [pass[p] EXCEPT !.at = "send", !.fire = NextFire(p),
                                    !.to = pass[p].def.target, !.then = "again"]
    <2>1. CalledFor(NextFire(p))
      BY <1>9, DispatchCalled DEF FireNow
    <2>2. q.fire = NextFire(p)
      BY <1>1 DEF PassRecords
    <2>3. Edit(p, q) /\ pending' = pending /\ sent' = sent
      BY <1>9 DEF FireNow, ghosts
    <2> HIDE DEF q
    <2> QED
      BY <1>2, <2>1, <2>2, <2>3, EditForwards
  <1>10. CASE Sent(p)
    <2>1. EmptyHanded(p)
      BY <1>10, MovesEmptyHanded DEF Sent
    <2>2. pending' = pending /\ sent' = sent \cup {pass[p].fire}
      BY <1>10 DEF Sent
    <2>3. pass[p].fire \in Fires /\ Held(pass[p].fire)
      BY <1>1, <1>10 DEF Sent, At, HandOK, Held, Holding
    <2> QED
      BY <1>2, <2>1, <2>2, <2>3, EmptyHandedForwards
  <1>11. CASE Drain(p)
    <2>1. pending' = pending /\ sent' = sent
      BY <1>11 DEF Drain, ghosts
    <2>2. CASE pending = NoFire
      BY <1>2, <1>11, <2>1, <2>2, MovesEmptyHanded, EmptyHandedForwards DEF Drain
    <2>3. CASE pending # NoFire
      <3> DEFINE q == [pass[p] EXCEPT !.at = "turn", !.fire = pending]
      <3>1. q.fire = pending
        BY <1>1 DEF PassRecords
      <3>2. Edit(p, q)
        BY <1>11, <2>3 DEF Drain
      <3>3. OnTheWay(pending)
        BY <2>3 DEF OnTheWay, Queued
      <3> HIDE DEF q
      <3> QED
        BY <1>2, <2>1, <3>1, <3>2, <3>3, EditForwards
    <2> QED
      BY <2>2, <2>3
  <1>12. CASE DrainTurn(p)
    <2>1. pending' \in {pending, NoFire} /\ sent' = sent
      BY <1>12 DEF DrainTurn, ghosts
    <2>2. CASE row = NoRow \/ row.invalid
      BY <1>2, <1>12, <2>1, <2>2, MovesEmptyHanded, EmptyHandedForwards DEF DrainTurn
    <2>3. CASE ~(row = NoRow \/ row.invalid)
      <3> DEFINE q == [pass[p] EXCEPT !.at = "read"]
      <3>1. q.fire = pass[p].fire
        BY <1>1 DEF PassRecords
      <3>2. Edit(p, q)
        BY <1>12, <2>3 DEF DrainTurn, Move
      <3>3. OnTheWay(pass[p].fire)
        BY <1>12 DEF DrainTurn, At, OnTheWay, Held, Holding
      <3> HIDE DEF q
      <3> QED
        BY <1>2, <2>1, <3>1, <3>2, <3>3, EditForwards
    <2> QED
      BY <2>2, <2>3
  <1>13. CASE DrainSends(p)
    <2> DEFINE q == [pass[p] EXCEPT !.at = "send", !.def = file, !.to = "bound",
                                    !.then = "off"]
    <2>1. q.fire = pass[p].fire
      BY <1>1 DEF PassRecords
    <2>2. Edit(p, q) /\ pending' = NoFire /\ sent' = sent
      BY <1>13 DEF DrainSends, ghosts
    <2>3. OnTheWay(pass[p].fire)
      BY <1>13 DEF DrainSends, At, OnTheWay, Held, Holding
    <2> HIDE DEF q
    <2> QED
      BY <1>2, <2>1, <2>2, <2>3, EditForwards
  <1> QED
    BY <1>4, <1>5, <1>6, <1>7, <1>8, <1>9, <1>10, <1>11, <1>12, <1>13 DEF PassStep

\* A scan that ends gives a listing, and no fire.
LEMMA ScanForwards ==
    ASSUME SchedulerOK, ScanStep
    PROVE  Forwarded /\ now' = now
  <1>1. now' = now /\ pending' = pending /\ sent' = sent
    BY Zenon DEF ScanStep, ScanReads, ScanEnds, outside, ghosts
  <1>2. ASSUME NEW r \in Passes
        PROVE  pass'[r] = pass[r] \/ pass'[r].at \notin Holding
    <2>1. pass[r] \in PassRecords
      BY DEF SchedulerOK, PassesOK
    <2>2. CASE ScanReads
      BY <2>2 DEF ScanReads
    <2>3. CASE ScanEnds
      <3>1. PICK first \in IF {p \in Passes : At(p, "wait")} = {} THEN {None}
                          ELSE {p \in Passes : At(p, "wait")} :
              pass' = [p \in Passes |->
                            IF At(p, "join") THEN [pass[p] EXCEPT !.at = "evaluate",
                                                                  !.def = scan.saw]
                            ELSE IF p = first THEN [pass[p] EXCEPT !.at = "join"]
                            ELSE pass[p]]
        BY <2>3, Zenon DEF ScanEnds
      <3>2. pass'[r] = IF At(r, "join") THEN [pass[r] EXCEPT !.at = "evaluate",
                                                             !.def = scan.saw]
                       ELSE IF r = first THEN [pass[r] EXCEPT !.at = "join"]
                       ELSE pass[r]
        BY <3>1, Zenon
      <3> QED
        BY <2>1, <3>2 DEF PassRecords, Holding
    <2> QED
      BY <2>2, <2>3 DEF ScanStep
  <1>3. \A f : Held(f)' => Held(f)
    BY <1>2 DEF Held
  <1> QED
    BY <1>1, <1>3 DEF Forwarded, OnTheWay, Queued

\* Outside, time goes on, and a stop loses what was in hand and queued.
LEMMA OutsideForwards ==
    ASSUME SchedulerOK, OutsideStep
    PROVE  Forwarded /\ now' \in {now, now + 1}
  <1>1. CASE Stop
    <2>1. now' = now /\ pending' = NoFire /\ sent' = sent
      BY <1>1 DEF Stop, ghosts
    <2>2. \A r \in Passes : pass'[r].at = "off"
      BY <1>1 DEF Stop, Off, Pass
    <2> QED
      BY <2>1, <2>2 DEF Forwarded, OnTheWay, Queued, Held, Holding
  <1>2. CASE ~Stop
    <2>1. pass' = pass /\ pending' = pending /\ sent' = sent /\ now' \in {now, now + 1}
      BY <1>2 DEF OutsideStep, ClockTicks, Passing, HandEdit, SessionBusy, SessionIdle,
                  SessionDeleted, Start, outside, ghosts
    <2> QED
      BY <2>1 DEF Forwarded, OnTheWay, Queued, Held
  <1> QED
    BY <1>1, <1>2

\* The steps together: all that is on the way stays called for.
LEMMA FiresAlwaysCalledFor == Spec => []FiresCalledFor
  <1>1. Init => FiresCalledFor
    BY DEF Init, Off, Pass, FiresCalledFor, OnTheWay, Queued, Held, Holding
  <1>2. SchedulerOK /\ FiresCalledFor /\ [Next]_vars => FiresCalledFor'
    <2> SUFFICES ASSUME SchedulerOK, FiresCalledFor, [Next]_vars PROVE FiresCalledFor'
      OBVIOUS
    <2>1. Forwarded /\ now' \in {now, now + 1}
      <3>1. CASE UNCHANGED vars
        BY <3>1 DEF vars, Forwarded, OnTheWay, Queued, Held
      <3>2. CASE Next
        BY <3>2, StartsForward, PassForwards, ScanForwards, OutsideForwards DEF Next
      <3> QED
        BY <3>1, <3>2
    <2> QED
      BY <2>1, ForwardedKeeps
  <1> QED
    BY <1>1, <1>2, SchedulerAlways, PTL DEF Spec

\* Every fire that is sent, waits in the queue or is in the hand of a pass stands for a
\* due time of an enabled definition: it has come, it is on the definition's grid and
\* not past its end, however passes overlap and files are written, edited, removed and
\* restored (evaluateEntry, latestSlotAt, drainQueue).
THEOREM SchedulerFiresAreDue ==
    Spec => [](/\ \A f \in sent : CalledFor(f)
               /\ pending # NoFire => CalledFor(pending)
               /\ \A p \in Passes : pass[p].at \in Holding => CalledFor(pass[p].fire))
  <1>1. SchedulerOK /\ FiresCalledFor =>
            /\ \A f \in sent : CalledFor(f)
            /\ pending # NoFire => CalledFor(pending)
            /\ \A p \in Passes : pass[p].at \in Holding => CalledFor(pass[p].fire)
    BY DEF SchedulerOK, RestOK, PassesOK, HandOK, FiresCalledFor, OnTheWay, Queued, Held,
           Holding
  <1> QED
    BY <1>1, FiresAlwaysCalledFor, SchedulerAlways, PTL

=============================================================================
