--------------------------- MODULE ActivityProofs ---------------------------
(***************************************************************************)
(* The runs of an Activity keep the promise of RunLedger, for any number   *)
(* of runs, kinds, contents and restarts.                                   *)
(***************************************************************************)
EXTENDS ActivityRuns, TLAPS

\* What holding the lock says of the run it is held for: one being started has no end, and
\* until it is opened no row; one being settled runs, unless its Project went meanwhile; one
\* being accepted has succeeded.
OpenPoints == {"staging", "creating", "launching"}
LookPoints == {"boundary", "collecting", "settled", "applied"}
LockOK ==
    /\ hold.at \in StartPoints => hold.run \in entered
    /\ hold.at = "checking" => ~archived
    /\ hold.at \in OpenPoints => status[hold.run] = "running"
    /\ hold.at \in LookPoints => status[hold.run] \in {"running", "gone"}
    /\ hold.at = "accepting" => status[hold.run] \in {"succeeded", "gone"}

\* A start waiting for the lock, or checking, has no row yet; rows go with the Project, which
\* admits no start once what it admitted has ended.
AdmittedOK ==
    /\ \A r \in entered : status[r] = "none" \/ (hold.at \in OpenPoints /\ hold.run = r)
    /\ project \in {"removing", "gone"} => entered = {}
    /\ \A r \in Runs : status[r] = "gone" => project = "gone"

\* Only a run that was opened can have its result in the draft, and what that replaced is what the
\* run was made from: a run is opened once, so its input stays what it is.
DraftOK ==
    \A t \in taken : status[t.by] # "none" /\ input[t.by] = t.over

ActivityOK == TypeOK /\ LockOK /\ AdmittedOK /\ OneRunning /\ DraftOK


\* What works on a run: nothing before its row; an agent's Session, or the server, a helper or a
\* caller.  What is being staged has nothing at work yet, and of what is being settled nothing
\* works any more.
EffortOK ==
    /\ \A r \in Runs :
        /\ status[r] = "none" => session[r] = "none" /\ work[r] = "none"
        /\ session[r] # "none" => Place(r) = "session"
        /\ work[r] \in {"ok", "bad"} => Local(r)
    /\ hold.at \in OpenPoints => work[hold.run] = "none" /\ session[hold.run] # "agent"
    /\ hold.at \in {"creating", "launching"} => Place(hold.run) = "session"
    /\ hold.at \in {"collecting", "settled", "applied"} => session[hold.run] \notin {"agent", "user"}

\* Once the deletion has stopped what works, nothing is admitted any more.
GoneOK == GoneIsEmpty /\ (project \in {"removing", "gone"} => asked = {})

-----------------------------------------------------------------------------
\* With one running, the running ones are none or a singleton.
LEMMA AtMostOne ==
    ASSUME OneRunning
    PROVE  Active = {} \/ \E r \in Runs : Active = {r}
<1>1. CASE Active # {}
  <2>1. PICK r \in Runs : r \in Active
    BY <1>1 DEF Active
  <2>2. Active = {r}
    BY <2>1 DEF OneRunning
  <2> QED BY <2>2
<1> QED BY <1>1

\* What every step is made of.
USE RunsAssumption DEF Up, Stopping, Alive, Active, Place, Local, LocalRuns, Busy,
    Free, At, Take, Advance, Release, Change, TakeResult, Finish, NotFinished, Abort, Forget,
    Looked, LetGo, MayPublish, Unheard, People, StillWorking, Deletion, InterruptAll,
    Acceptable, env, book, requests, about, effort, Statuses, Ends, Points, StartPoints,
    AllKinds, NoKind, TypeOK

\* Every step keeps the types,
LEMMA TypeStep ==
    ASSUME TypeOK, [Next]_vars
    PROVE  TypeOK'
<1> USE DEF TypeOK
<1>1. CASE UNCHANGED vars
  BY <1>1 DEF vars
<1>2. ASSUME NEW r \in Runs, Refused(r) PROVE TypeOK'
  BY <1>2 DEF Refused
<1>3. ASSUME NEW r \in Runs, StartChecks(r) PROVE TypeOK'
  BY <1>3 DEF StartChecks
<1>4. ASSUME NEW r \in Runs, StartRefused(r) PROVE TypeOK'
  BY <1>4 DEF StartRefused
<1>5. ASSUME NEW r \in Runs, StartOpens(r) PROVE TypeOK'
  BY <1>5 DEF StartOpens
<1>6. ASSUME NEW r \in Runs, StartFails(r) PROVE TypeOK'
  BY <1>6 DEF StartFails
<1>7. ASSUME NEW r \in Runs, StartsWork(r) PROVE TypeOK'
  BY <1>7 DEF StartsWork
<1>8. ASSUME NEW r \in Runs, CreatesSession(r) PROVE TypeOK'
  BY <1>8 DEF CreatesSession
<1>9. ASSUME NEW r \in Runs, SessionCreated(r) PROVE TypeOK'
  BY <1>9 DEF SessionCreated
<1>10. ASSUME NEW r \in Runs, TaskStarts(r) PROVE TypeOK'
  BY <1>10 DEF TaskStarts
<1>11. ASSUME NEW r \in Runs, WorkUnheard(r) PROVE TypeOK'
  BY <1>11 DEF WorkUnheard
<1>12. ASSUME NEW r \in Runs, WorkFails(r) PROVE TypeOK'
  BY <1>12 DEF WorkFails
<1>13. ASSUME NEW r \in Runs, WorkSettles(r) PROVE TypeOK'
  BY <1>13 DEF WorkSettles
<1>14. ASSUME NEW r \in Runs, CallerSettles(r) PROVE TypeOK'
  BY <1>14 DEF CallerSettles
<1>15. ASSUME NEW r \in Runs, CollectKeeps(r) PROVE TypeOK'
  BY <1>15 DEF CollectKeeps
<1>16. ASSUME NEW r \in Runs, CollectFails(r) PROVE TypeOK'
  BY <1>16 DEF CollectFails
<1>17. ASSUME NEW r \in Runs, CollectEnds(r) PROVE TypeOK'
  BY <1>17 DEF CollectEnds
<1>18. ASSUME NEW r \in Runs, GivesWay(r) PROVE TypeOK'
  BY <1>18 DEF GivesWay
<1>19. ASSUME NEW r \in Runs, Applies(r) PROVE TypeOK'
  BY <1>19 DEF Applies
<1>20. ASSUME NEW r \in Runs, ApplyEnds(r) PROVE TypeOK'
  BY <1>20 DEF ApplyEnds
<1>21. ASSUME NEW r \in Runs, Offers(r) PROVE TypeOK'
  BY <1>21 DEF Offers
<1>22. ASSUME NEW r \in Runs, Conflicts(r) PROVE TypeOK'
  BY <1>22 DEF Conflicts
<1>23. ASSUME NEW r \in Runs, LookPasses(r) PROVE TypeOK'
  BY <1>23 DEF LookPasses
<1>24. ASSUME NEW r \in Runs, StopsAtLimit(r) PROVE TypeOK'
  BY <1>24 DEF StopsAtLimit
<1>25. ASSUME NEW r \in Runs, FindsIdle(r) PROVE TypeOK'
  BY <1>25 DEF FindsIdle
<1>26. ASSUME NEW r \in Runs, BoundaryRefused(r) PROVE TypeOK'
  BY <1>26 DEF BoundaryRefused
<1>27. ASSUME NEW r \in Runs, Settles(r) PROVE TypeOK'
  BY <1>27 DEF Settles
<1>28. ASSUME NEW r \in Runs, AcceptRefused(r) PROVE TypeOK'
  BY <1>28 DEF AcceptRefused
<1>29. ASSUME NEW r \in Runs, AcceptTakes(r) PROVE TypeOK'
  BY <1>29 DEF AcceptTakes
<1>30. ASSUME NEW r \in Runs, AcceptApplies(r) PROVE TypeOK'
  BY <1>30 DEF AcceptApplies
<1>31. ASSUME NEW r \in Runs, AcceptFails(r) PROVE TypeOK'
  BY <1>31 DEF AcceptFails
<1>32. ASSUME NEW r \in Runs, Enter(r) PROVE TypeOK'
  BY <1>32 DEF Enter
<1>33. ASSUME NEW r \in Runs, CallerOpens(r) PROVE TypeOK'
  BY <1>33 DEF CallerOpens
<1>34. ASSUME NEW r \in Runs, TaskEnds(r) PROVE TypeOK'
  BY <1>34 DEF TaskEnds
<1>35. ASSUME NEW r \in Runs, UserResumes(r) PROVE TypeOK'
  BY <1>35 DEF UserResumes
<1>36. ASSUME NEW r \in Runs, WorkReturns(r) PROVE TypeOK'
  BY <1>36 DEF WorkReturns
<1>37. ASSUME NEW r \in Runs, Cancel(r) PROVE TypeOK'
  BY <1>37 DEF Cancel
<1>38. ASSUME NEW r \in Runs, AskAccept(r) PROVE TypeOK'
  BY <1>38 DEF AskAccept
<1>39. ASSUME NEW r \in Runs, WaitFor(r) PROVE TypeOK'
  BY <1>39 DEF WaitFor
<1>40. ASSUME NEW r \in Runs, WaiterLooks(r) PROVE TypeOK'
  BY <1>40 DEF WaiterLooks
<1>41. CASE Edit
  BY <1>41 DEF Edit
<1>42. CASE Archive
  BY <1>42 DEF Archive
<1>43. CASE PassBegins
  BY <1>43 DEF PassBegins
<1>44. CASE Stop("exiting")
  BY <1>44 DEF Stop
<1>45. CASE Stop("swapping")
  BY <1>45 DEF Stop
<1>46. CASE Drained
  BY <1>46 DEF Drained
<1>47. CASE Boot
  BY <1>47 DEF Boot
<1>48. CASE Crash
  BY <1>48 DEF Crash
<1>49. CASE DeleteProject
  BY <1>49 DEF DeleteProject
<1>50. CASE RemoveBegins
  BY <1>50 DEF RemoveBegins
<1>51. CASE RemoveEnds
  BY <1>51 DEF RemoveEnds
<1> QED
  BY <1>1, <1>2, <1>3, <1>4, <1>5, <1>6, <1>7, <1>8, <1>9, <1>10, <1>11, <1>12,
     <1>13, <1>14, <1>15, <1>16, <1>17, <1>18, <1>19, <1>20, <1>21, <1>22, <1>23,
     <1>24, <1>25, <1>26, <1>27, <1>28, <1>29, <1>30, <1>31, <1>32, <1>33, <1>34,
     <1>35, <1>36, <1>37, <1>38, <1>39, <1>40, <1>41, <1>42, <1>43, <1>44, <1>45,
     <1>46, <1>47, <1>48, <1>49, <1>50, <1>51
     DEF Next, Server, Starting, Working, Settling, Looking, Accepting, Outside

\* what the lock says of the run it is held for,
LEMMA LockStep ==
    ASSUME ActivityOK, [Next]_vars
    PROVE  LockOK'
<1> USE DEF ActivityOK, LockOK, OpenPoints, LookPoints, AdmittedOK
<1>1. CASE UNCHANGED vars
  BY <1>1 DEF vars
<1>2. ASSUME NEW r \in Runs, Refused(r) PROVE LockOK'
  BY <1>2 DEF Refused
<1>3. ASSUME NEW r \in Runs, StartChecks(r) PROVE LockOK'
  BY <1>3 DEF StartChecks
<1>4. ASSUME NEW r \in Runs, StartRefused(r) PROVE LockOK'
  BY <1>4 DEF StartRefused
<1>5. ASSUME NEW r \in Runs, StartOpens(r) PROVE LockOK'
  BY <1>5 DEF StartOpens
<1>6. ASSUME NEW r \in Runs, StartFails(r) PROVE LockOK'
  BY <1>6 DEF StartFails
<1>7. ASSUME NEW r \in Runs, StartsWork(r) PROVE LockOK'
  BY <1>7 DEF StartsWork
<1>8. ASSUME NEW r \in Runs, CreatesSession(r) PROVE LockOK'
  BY <1>8 DEF CreatesSession
<1>9. ASSUME NEW r \in Runs, SessionCreated(r) PROVE LockOK'
  BY <1>9 DEF SessionCreated
<1>10. ASSUME NEW r \in Runs, TaskStarts(r) PROVE LockOK'
  BY <1>10 DEF TaskStarts
<1>11. ASSUME NEW r \in Runs, WorkUnheard(r) PROVE LockOK'
  BY <1>11 DEF WorkUnheard
<1>12. ASSUME NEW r \in Runs, WorkFails(r) PROVE LockOK'
  BY <1>12 DEF WorkFails
<1>13. ASSUME NEW r \in Runs, WorkSettles(r) PROVE LockOK'
  BY <1>13 DEF WorkSettles
<1>14. ASSUME NEW r \in Runs, CallerSettles(r) PROVE LockOK'
  BY <1>14 DEF CallerSettles
<1>15. ASSUME NEW r \in Runs, CollectKeeps(r) PROVE LockOK'
  BY <1>15 DEF CollectKeeps
<1>16. ASSUME NEW r \in Runs, CollectFails(r) PROVE LockOK'
  BY <1>16 DEF CollectFails
<1>17. ASSUME NEW r \in Runs, CollectEnds(r) PROVE LockOK'
  BY <1>17 DEF CollectEnds
<1>18. ASSUME NEW r \in Runs, GivesWay(r) PROVE LockOK'
  BY <1>18 DEF GivesWay
<1>19. ASSUME NEW r \in Runs, Applies(r) PROVE LockOK'
  BY <1>19 DEF Applies
<1>20. ASSUME NEW r \in Runs, ApplyEnds(r) PROVE LockOK'
  BY <1>20 DEF ApplyEnds
<1>21. ASSUME NEW r \in Runs, Offers(r) PROVE LockOK'
  BY <1>21 DEF Offers
<1>22. ASSUME NEW r \in Runs, Conflicts(r) PROVE LockOK'
  BY <1>22 DEF Conflicts
<1>23. ASSUME NEW r \in Runs, LookPasses(r) PROVE LockOK'
  BY <1>23 DEF LookPasses
<1>24. ASSUME NEW r \in Runs, StopsAtLimit(r) PROVE LockOK'
  BY <1>24 DEF StopsAtLimit
<1>25. ASSUME NEW r \in Runs, FindsIdle(r) PROVE LockOK'
  BY <1>25 DEF FindsIdle
<1>26. ASSUME NEW r \in Runs, BoundaryRefused(r) PROVE LockOK'
  BY <1>26 DEF BoundaryRefused
<1>27. ASSUME NEW r \in Runs, Settles(r) PROVE LockOK'
  BY <1>27 DEF Settles
<1>28. ASSUME NEW r \in Runs, AcceptRefused(r) PROVE LockOK'
  BY <1>28 DEF AcceptRefused
<1>29. ASSUME NEW r \in Runs, AcceptTakes(r) PROVE LockOK'
  BY <1>29 DEF AcceptTakes
<1>30. ASSUME NEW r \in Runs, AcceptApplies(r) PROVE LockOK'
  BY <1>30 DEF AcceptApplies
<1>31. ASSUME NEW r \in Runs, AcceptFails(r) PROVE LockOK'
  BY <1>31 DEF AcceptFails
<1>32. ASSUME NEW r \in Runs, Enter(r) PROVE LockOK'
  BY <1>32 DEF Enter
<1>33. ASSUME NEW r \in Runs, CallerOpens(r) PROVE LockOK'
  BY <1>33 DEF CallerOpens
<1>34. ASSUME NEW r \in Runs, TaskEnds(r) PROVE LockOK'
  BY <1>34 DEF TaskEnds
<1>35. ASSUME NEW r \in Runs, UserResumes(r) PROVE LockOK'
  BY <1>35 DEF UserResumes
<1>36. ASSUME NEW r \in Runs, WorkReturns(r) PROVE LockOK'
  BY <1>36 DEF WorkReturns
<1>37. ASSUME NEW r \in Runs, Cancel(r) PROVE LockOK'
  BY <1>37 DEF Cancel
<1>38. ASSUME NEW r \in Runs, AskAccept(r) PROVE LockOK'
  BY <1>38 DEF AskAccept
<1>39. ASSUME NEW r \in Runs, WaitFor(r) PROVE LockOK'
  BY <1>39 DEF WaitFor
<1>40. ASSUME NEW r \in Runs, WaiterLooks(r) PROVE LockOK'
  BY <1>40 DEF WaiterLooks
<1>41. CASE Edit
  BY <1>41 DEF Edit
<1>42. CASE Archive
  BY <1>42 DEF Archive
<1>43. CASE PassBegins
  BY <1>43 DEF PassBegins
<1>44. CASE Stop("exiting")
  BY <1>44 DEF Stop
<1>45. CASE Stop("swapping")
  BY <1>45 DEF Stop
<1>46. CASE Drained
  BY <1>46 DEF Drained
<1>47. CASE Boot
  BY <1>47 DEF Boot
<1>48. CASE Crash
  BY <1>48 DEF Crash
<1>49. CASE DeleteProject
  BY <1>49 DEF DeleteProject
<1>50. CASE RemoveBegins
  BY <1>50 DEF RemoveBegins
<1>51. CASE RemoveEnds
  BY <1>51 DEF RemoveEnds
<1> QED
  BY <1>1, <1>2, <1>3, <1>4, <1>5, <1>6, <1>7, <1>8, <1>9, <1>10, <1>11, <1>12,
     <1>13, <1>14, <1>15, <1>16, <1>17, <1>18, <1>19, <1>20, <1>21, <1>22, <1>23,
     <1>24, <1>25, <1>26, <1>27, <1>28, <1>29, <1>30, <1>31, <1>32, <1>33, <1>34,
     <1>35, <1>36, <1>37, <1>38, <1>39, <1>40, <1>41, <1>42, <1>43, <1>44, <1>45,
     <1>46, <1>47, <1>48, <1>49, <1>50, <1>51
     DEF Next, Server, Starting, Working, Settling, Looking, Accepting, Outside

\* what admission says of the rows,
LEMMA AdmittedStep ==
    ASSUME ActivityOK, [Next]_vars
    PROVE  AdmittedOK'
<1> USE DEF ActivityOK, LockOK, OpenPoints, LookPoints, AdmittedOK
<1>1. CASE UNCHANGED vars
  BY <1>1 DEF vars
<1>2. ASSUME NEW r \in Runs, Refused(r) PROVE AdmittedOK'
  BY <1>2 DEF Refused
<1>3. ASSUME NEW r \in Runs, StartChecks(r) PROVE AdmittedOK'
  BY <1>3 DEF StartChecks
<1>4. ASSUME NEW r \in Runs, StartRefused(r) PROVE AdmittedOK'
  BY <1>4 DEF StartRefused
<1>5. ASSUME NEW r \in Runs, StartOpens(r) PROVE AdmittedOK'
  BY <1>5 DEF StartOpens
<1>6. ASSUME NEW r \in Runs, StartFails(r) PROVE AdmittedOK'
  BY <1>6 DEF StartFails
<1>7. ASSUME NEW r \in Runs, StartsWork(r) PROVE AdmittedOK'
  BY <1>7 DEF StartsWork
<1>8. ASSUME NEW r \in Runs, CreatesSession(r) PROVE AdmittedOK'
  BY <1>8 DEF CreatesSession
<1>9. ASSUME NEW r \in Runs, SessionCreated(r) PROVE AdmittedOK'
  BY <1>9 DEF SessionCreated
<1>10. ASSUME NEW r \in Runs, TaskStarts(r) PROVE AdmittedOK'
  BY <1>10 DEF TaskStarts
<1>11. ASSUME NEW r \in Runs, WorkUnheard(r) PROVE AdmittedOK'
  BY <1>11 DEF WorkUnheard
<1>12. ASSUME NEW r \in Runs, WorkFails(r) PROVE AdmittedOK'
  BY <1>12 DEF WorkFails
<1>13. ASSUME NEW r \in Runs, WorkSettles(r) PROVE AdmittedOK'
  BY <1>13 DEF WorkSettles
<1>14. ASSUME NEW r \in Runs, CallerSettles(r) PROVE AdmittedOK'
  BY <1>14 DEF CallerSettles
<1>15. ASSUME NEW r \in Runs, CollectKeeps(r) PROVE AdmittedOK'
  BY <1>15 DEF CollectKeeps
<1>16. ASSUME NEW r \in Runs, CollectFails(r) PROVE AdmittedOK'
  BY <1>16 DEF CollectFails
<1>17. ASSUME NEW r \in Runs, CollectEnds(r) PROVE AdmittedOK'
  BY <1>17 DEF CollectEnds
<1>18. ASSUME NEW r \in Runs, GivesWay(r) PROVE AdmittedOK'
  BY <1>18 DEF GivesWay
<1>19. ASSUME NEW r \in Runs, Applies(r) PROVE AdmittedOK'
  BY <1>19 DEF Applies
<1>20. ASSUME NEW r \in Runs, ApplyEnds(r) PROVE AdmittedOK'
  BY <1>20 DEF ApplyEnds
<1>21. ASSUME NEW r \in Runs, Offers(r) PROVE AdmittedOK'
  BY <1>21 DEF Offers
<1>22. ASSUME NEW r \in Runs, Conflicts(r) PROVE AdmittedOK'
  BY <1>22 DEF Conflicts
<1>23. ASSUME NEW r \in Runs, LookPasses(r) PROVE AdmittedOK'
  BY <1>23 DEF LookPasses
<1>24. ASSUME NEW r \in Runs, StopsAtLimit(r) PROVE AdmittedOK'
  BY <1>24 DEF StopsAtLimit
<1>25. ASSUME NEW r \in Runs, FindsIdle(r) PROVE AdmittedOK'
  BY <1>25 DEF FindsIdle
<1>26. ASSUME NEW r \in Runs, BoundaryRefused(r) PROVE AdmittedOK'
  BY <1>26 DEF BoundaryRefused
<1>27. ASSUME NEW r \in Runs, Settles(r) PROVE AdmittedOK'
  BY <1>27 DEF Settles
<1>28. ASSUME NEW r \in Runs, AcceptRefused(r) PROVE AdmittedOK'
  BY <1>28 DEF AcceptRefused
<1>29. ASSUME NEW r \in Runs, AcceptTakes(r) PROVE AdmittedOK'
  BY <1>29 DEF AcceptTakes
<1>30. ASSUME NEW r \in Runs, AcceptApplies(r) PROVE AdmittedOK'
  BY <1>30 DEF AcceptApplies
<1>31. ASSUME NEW r \in Runs, AcceptFails(r) PROVE AdmittedOK'
  BY <1>31 DEF AcceptFails
<1>32. ASSUME NEW r \in Runs, Enter(r) PROVE AdmittedOK'
  BY <1>32 DEF Enter
<1>33. ASSUME NEW r \in Runs, CallerOpens(r) PROVE AdmittedOK'
  BY <1>33 DEF CallerOpens
<1>34. ASSUME NEW r \in Runs, TaskEnds(r) PROVE AdmittedOK'
  BY <1>34 DEF TaskEnds
<1>35. ASSUME NEW r \in Runs, UserResumes(r) PROVE AdmittedOK'
  BY <1>35 DEF UserResumes
<1>36. ASSUME NEW r \in Runs, WorkReturns(r) PROVE AdmittedOK'
  BY <1>36 DEF WorkReturns
<1>37. ASSUME NEW r \in Runs, Cancel(r) PROVE AdmittedOK'
  BY <1>37 DEF Cancel
<1>38. ASSUME NEW r \in Runs, AskAccept(r) PROVE AdmittedOK'
  BY <1>38 DEF AskAccept
<1>39. ASSUME NEW r \in Runs, WaitFor(r) PROVE AdmittedOK'
  BY <1>39 DEF WaitFor
<1>40. ASSUME NEW r \in Runs, WaiterLooks(r) PROVE AdmittedOK'
  BY <1>40 DEF WaiterLooks
<1>41. CASE Edit
  BY <1>41 DEF Edit
<1>42. CASE Archive
  BY <1>42 DEF Archive
<1>43. CASE PassBegins
  BY <1>43 DEF PassBegins
<1>44. CASE Stop("exiting")
  BY <1>44 DEF Stop
<1>45. CASE Stop("swapping")
  BY <1>45 DEF Stop
<1>46. CASE Drained
  BY <1>46 DEF Drained
<1>47. CASE Boot
  BY <1>47 DEF Boot
<1>48. CASE Crash
  BY <1>48 DEF Crash
<1>49. CASE DeleteProject
  BY <1>49 DEF DeleteProject
<1>50. CASE RemoveBegins
  BY <1>50 DEF RemoveBegins
<1>51. CASE RemoveEnds
  BY <1>51 DEF RemoveEnds
<1> QED
  BY <1>1, <1>2, <1>3, <1>4, <1>5, <1>6, <1>7, <1>8, <1>9, <1>10, <1>11, <1>12,
     <1>13, <1>14, <1>15, <1>16, <1>17, <1>18, <1>19, <1>20, <1>21, <1>22, <1>23,
     <1>24, <1>25, <1>26, <1>27, <1>28, <1>29, <1>30, <1>31, <1>32, <1>33, <1>34,
     <1>35, <1>36, <1>37, <1>38, <1>39, <1>40, <1>41, <1>42, <1>43, <1>44, <1>45,
     <1>46, <1>47, <1>48, <1>49, <1>50, <1>51
     DEF Next, Server, Starting, Working, Settling, Looking, Accepting, Outside

\* that one run works at a time, and none in an archived Activity,
LEMMA OneStep ==
    ASSUME ActivityOK, [Next]_vars
    PROVE  OneRunning'
<1> USE DEF ActivityOK, LockOK, OpenPoints, LookPoints, AdmittedOK, OneRunning
<1>1. CASE UNCHANGED vars
  BY <1>1 DEF vars
<1>2. ASSUME NEW r \in Runs, Refused(r) PROVE OneRunning'
  BY <1>2 DEF Refused
<1>3. ASSUME NEW r \in Runs, StartChecks(r) PROVE OneRunning'
  BY <1>3 DEF StartChecks
<1>4. ASSUME NEW r \in Runs, StartRefused(r) PROVE OneRunning'
  BY <1>4 DEF StartRefused
<1>5. ASSUME NEW r \in Runs, StartOpens(r) PROVE OneRunning'
  BY <1>5 DEF StartOpens
<1>6. ASSUME NEW r \in Runs, StartFails(r) PROVE OneRunning'
  BY <1>6 DEF StartFails
<1>7. ASSUME NEW r \in Runs, StartsWork(r) PROVE OneRunning'
  BY <1>7 DEF StartsWork
<1>8. ASSUME NEW r \in Runs, CreatesSession(r) PROVE OneRunning'
  BY <1>8 DEF CreatesSession
<1>9. ASSUME NEW r \in Runs, SessionCreated(r) PROVE OneRunning'
  BY <1>9 DEF SessionCreated
<1>10. ASSUME NEW r \in Runs, TaskStarts(r) PROVE OneRunning'
  BY <1>10 DEF TaskStarts
<1>11. ASSUME NEW r \in Runs, WorkUnheard(r) PROVE OneRunning'
  BY <1>11 DEF WorkUnheard
<1>12. ASSUME NEW r \in Runs, WorkFails(r) PROVE OneRunning'
  BY <1>12 DEF WorkFails
<1>13. ASSUME NEW r \in Runs, WorkSettles(r) PROVE OneRunning'
  BY <1>13 DEF WorkSettles
<1>14. ASSUME NEW r \in Runs, CallerSettles(r) PROVE OneRunning'
  <2>1. Active' \subseteq Active /\ archived' = archived
    BY <1>14 DEF CallerSettles
  <2> QED BY <2>1 DEF OneRunning
<1>15. ASSUME NEW r \in Runs, CollectKeeps(r) PROVE OneRunning'
  BY <1>15 DEF CollectKeeps
<1>16. ASSUME NEW r \in Runs, CollectFails(r) PROVE OneRunning'
  BY <1>16 DEF CollectFails
<1>17. ASSUME NEW r \in Runs, CollectEnds(r) PROVE OneRunning'
  BY <1>17 DEF CollectEnds
<1>18. ASSUME NEW r \in Runs, GivesWay(r) PROVE OneRunning'
  BY <1>18 DEF GivesWay
<1>19. ASSUME NEW r \in Runs, Applies(r) PROVE OneRunning'
  BY <1>19 DEF Applies
<1>20. ASSUME NEW r \in Runs, ApplyEnds(r) PROVE OneRunning'
  BY <1>20 DEF ApplyEnds
<1>21. ASSUME NEW r \in Runs, Offers(r) PROVE OneRunning'
  BY <1>21 DEF Offers
<1>22. ASSUME NEW r \in Runs, Conflicts(r) PROVE OneRunning'
  BY <1>22 DEF Conflicts
<1>23. ASSUME NEW r \in Runs, LookPasses(r) PROVE OneRunning'
  BY <1>23 DEF LookPasses
<1>24. ASSUME NEW r \in Runs, StopsAtLimit(r) PROVE OneRunning'
  BY <1>24 DEF StopsAtLimit
<1>25. ASSUME NEW r \in Runs, FindsIdle(r) PROVE OneRunning'
  BY <1>25 DEF FindsIdle
<1>26. ASSUME NEW r \in Runs, BoundaryRefused(r) PROVE OneRunning'
  BY <1>26 DEF BoundaryRefused
<1>27. ASSUME NEW r \in Runs, Settles(r) PROVE OneRunning'
  BY <1>27 DEF Settles
<1>28. ASSUME NEW r \in Runs, AcceptRefused(r) PROVE OneRunning'
  BY <1>28 DEF AcceptRefused
<1>29. ASSUME NEW r \in Runs, AcceptTakes(r) PROVE OneRunning'
  BY <1>29 DEF AcceptTakes
<1>30. ASSUME NEW r \in Runs, AcceptApplies(r) PROVE OneRunning'
  BY <1>30 DEF AcceptApplies
<1>31. ASSUME NEW r \in Runs, AcceptFails(r) PROVE OneRunning'
  BY <1>31 DEF AcceptFails
<1>32. ASSUME NEW r \in Runs, Enter(r) PROVE OneRunning'
  BY <1>32 DEF Enter
<1>33. ASSUME NEW r \in Runs, CallerOpens(r) PROVE OneRunning'
  BY <1>33 DEF CallerOpens
<1>34. ASSUME NEW r \in Runs, TaskEnds(r) PROVE OneRunning'
  BY <1>34 DEF TaskEnds
<1>35. ASSUME NEW r \in Runs, UserResumes(r) PROVE OneRunning'
  BY <1>35 DEF UserResumes
<1>36. ASSUME NEW r \in Runs, WorkReturns(r) PROVE OneRunning'
  BY <1>36 DEF WorkReturns
<1>37. ASSUME NEW r \in Runs, Cancel(r) PROVE OneRunning'
  BY <1>37 DEF Cancel
<1>38. ASSUME NEW r \in Runs, AskAccept(r) PROVE OneRunning'
  BY <1>38 DEF AskAccept
<1>39. ASSUME NEW r \in Runs, WaitFor(r) PROVE OneRunning'
  BY <1>39 DEF WaitFor
<1>40. ASSUME NEW r \in Runs, WaiterLooks(r) PROVE OneRunning'
  BY <1>40 DEF WaiterLooks
<1>41. CASE Edit
  BY <1>41 DEF Edit
<1>42. CASE Archive
  BY <1>42 DEF Archive
<1>43. CASE PassBegins
  BY <1>43 DEF PassBegins
<1>44. CASE Stop("exiting")
  BY <1>44 DEF Stop
<1>45. CASE Stop("swapping")
  BY <1>45 DEF Stop
<1>46. CASE Drained
  BY <1>46 DEF Drained
<1>47. CASE Boot
  BY <1>47 DEF Boot
<1>48. CASE Crash
  BY <1>48 DEF Crash
<1>49. CASE DeleteProject
  BY <1>49 DEF DeleteProject
<1>50. CASE RemoveBegins
  BY <1>50 DEF RemoveBegins
<1>51. CASE RemoveEnds
  BY <1>51 DEF RemoveEnds
<1> QED
  BY <1>1, <1>2, <1>3, <1>4, <1>5, <1>6, <1>7, <1>8, <1>9, <1>10, <1>11, <1>12,
     <1>13, <1>14, <1>15, <1>16, <1>17, <1>18, <1>19, <1>20, <1>21, <1>22, <1>23,
     <1>24, <1>25, <1>26, <1>27, <1>28, <1>29, <1>30, <1>31, <1>32, <1>33, <1>34,
     <1>35, <1>36, <1>37, <1>38, <1>39, <1>40, <1>41, <1>42, <1>43, <1>44, <1>45,
     <1>46, <1>47, <1>48, <1>49, <1>50, <1>51
     DEF Next, Server, Starting, Working, Settling, Looking, Accepting, Outside

\* and what a result in the draft replaced.
LEMMA DraftStep ==
    ASSUME ActivityOK, [Next]_vars
    PROVE  DraftOK'
<1> USE DEF ActivityOK, LockOK, OpenPoints, LookPoints, AdmittedOK, DraftOK
<1>1. CASE UNCHANGED vars
  BY <1>1 DEF vars
<1>2. ASSUME NEW r \in Runs, Refused(r) PROVE DraftOK'
  BY <1>2 DEF Refused
<1>3. ASSUME NEW r \in Runs, StartChecks(r) PROVE DraftOK'
  BY <1>3 DEF StartChecks
<1>4. ASSUME NEW r \in Runs, StartRefused(r) PROVE DraftOK'
  BY <1>4 DEF StartRefused
<1>5. ASSUME NEW r \in Runs, StartOpens(r) PROVE DraftOK'
  BY <1>5 DEF StartOpens
<1>6. ASSUME NEW r \in Runs, StartFails(r) PROVE DraftOK'
  BY <1>6 DEF StartFails
<1>7. ASSUME NEW r \in Runs, StartsWork(r) PROVE DraftOK'
  BY <1>7 DEF StartsWork
<1>8. ASSUME NEW r \in Runs, CreatesSession(r) PROVE DraftOK'
  BY <1>8 DEF CreatesSession
<1>9. ASSUME NEW r \in Runs, SessionCreated(r) PROVE DraftOK'
  BY <1>9 DEF SessionCreated
<1>10. ASSUME NEW r \in Runs, TaskStarts(r) PROVE DraftOK'
  BY <1>10 DEF TaskStarts
<1>11. ASSUME NEW r \in Runs, WorkUnheard(r) PROVE DraftOK'
  BY <1>11 DEF WorkUnheard
<1>12. ASSUME NEW r \in Runs, WorkFails(r) PROVE DraftOK'
  BY <1>12 DEF WorkFails
<1>13. ASSUME NEW r \in Runs, WorkSettles(r) PROVE DraftOK'
  BY <1>13 DEF WorkSettles
<1>14. ASSUME NEW r \in Runs, CallerSettles(r) PROVE DraftOK'
  BY <1>14 DEF CallerSettles
<1>15. ASSUME NEW r \in Runs, CollectKeeps(r) PROVE DraftOK'
  BY <1>15 DEF CollectKeeps
<1>16. ASSUME NEW r \in Runs, CollectFails(r) PROVE DraftOK'
  BY <1>16 DEF CollectFails
<1>17. ASSUME NEW r \in Runs, CollectEnds(r) PROVE DraftOK'
  BY <1>17 DEF CollectEnds
<1>18. ASSUME NEW r \in Runs, GivesWay(r) PROVE DraftOK'
  BY <1>18 DEF GivesWay
<1>19. ASSUME NEW r \in Runs, Applies(r) PROVE DraftOK'
  BY <1>19 DEF Applies
<1>20. ASSUME NEW r \in Runs, ApplyEnds(r) PROVE DraftOK'
  BY <1>20 DEF ApplyEnds
<1>21. ASSUME NEW r \in Runs, Offers(r) PROVE DraftOK'
  BY <1>21 DEF Offers
<1>22. ASSUME NEW r \in Runs, Conflicts(r) PROVE DraftOK'
  BY <1>22 DEF Conflicts
<1>23. ASSUME NEW r \in Runs, LookPasses(r) PROVE DraftOK'
  BY <1>23 DEF LookPasses
<1>24. ASSUME NEW r \in Runs, StopsAtLimit(r) PROVE DraftOK'
  BY <1>24 DEF StopsAtLimit
<1>25. ASSUME NEW r \in Runs, FindsIdle(r) PROVE DraftOK'
  BY <1>25 DEF FindsIdle
<1>26. ASSUME NEW r \in Runs, BoundaryRefused(r) PROVE DraftOK'
  BY <1>26 DEF BoundaryRefused
<1>27. ASSUME NEW r \in Runs, Settles(r) PROVE DraftOK'
  BY <1>27 DEF Settles
<1>28. ASSUME NEW r \in Runs, AcceptRefused(r) PROVE DraftOK'
  BY <1>28 DEF AcceptRefused
<1>29. ASSUME NEW r \in Runs, AcceptTakes(r) PROVE DraftOK'
  BY <1>29 DEF AcceptTakes
<1>30. ASSUME NEW r \in Runs, AcceptApplies(r) PROVE DraftOK'
  BY <1>30 DEF AcceptApplies
<1>31. ASSUME NEW r \in Runs, AcceptFails(r) PROVE DraftOK'
  BY <1>31 DEF AcceptFails
<1>32. ASSUME NEW r \in Runs, Enter(r) PROVE DraftOK'
  BY <1>32 DEF Enter
<1>33. ASSUME NEW r \in Runs, CallerOpens(r) PROVE DraftOK'
  BY <1>33 DEF CallerOpens
<1>34. ASSUME NEW r \in Runs, TaskEnds(r) PROVE DraftOK'
  BY <1>34 DEF TaskEnds
<1>35. ASSUME NEW r \in Runs, UserResumes(r) PROVE DraftOK'
  BY <1>35 DEF UserResumes
<1>36. ASSUME NEW r \in Runs, WorkReturns(r) PROVE DraftOK'
  BY <1>36 DEF WorkReturns
<1>37. ASSUME NEW r \in Runs, Cancel(r) PROVE DraftOK'
  BY <1>37 DEF Cancel
<1>38. ASSUME NEW r \in Runs, AskAccept(r) PROVE DraftOK'
  BY <1>38 DEF AskAccept
<1>39. ASSUME NEW r \in Runs, WaitFor(r) PROVE DraftOK'
  BY <1>39 DEF WaitFor
<1>40. ASSUME NEW r \in Runs, WaiterLooks(r) PROVE DraftOK'
  BY <1>40 DEF WaiterLooks
<1>41. CASE Edit
  BY <1>41 DEF Edit
<1>42. CASE Archive
  BY <1>42 DEF Archive
<1>43. CASE PassBegins
  BY <1>43 DEF PassBegins
<1>44. CASE Stop("exiting")
  BY <1>44 DEF Stop
<1>45. CASE Stop("swapping")
  BY <1>45 DEF Stop
<1>46. CASE Drained
  BY <1>46 DEF Drained
<1>47. CASE Boot
  BY <1>47 DEF Boot
<1>48. CASE Crash
  BY <1>48 DEF Crash
<1>49. CASE DeleteProject
  BY <1>49 DEF DeleteProject
<1>50. CASE RemoveBegins
  BY <1>50 DEF RemoveBegins
<1>51. CASE RemoveEnds
  BY <1>51 DEF RemoveEnds
<1> QED
  BY <1>1, <1>2, <1>3, <1>4, <1>5, <1>6, <1>7, <1>8, <1>9, <1>10, <1>11, <1>12,
     <1>13, <1>14, <1>15, <1>16, <1>17, <1>18, <1>19, <1>20, <1>21, <1>22, <1>23,
     <1>24, <1>25, <1>26, <1>27, <1>28, <1>29, <1>30, <1>31, <1>32, <1>33, <1>34,
     <1>35, <1>36, <1>37, <1>38, <1>39, <1>40, <1>41, <1>42, <1>43, <1>44, <1>45,
     <1>46, <1>47, <1>48, <1>49, <1>50, <1>51
     DEF Next, Server, Starting, Working, Settling, Looking, Accepting, Outside

\* Every step is one of the ledger, or none of its author's business.
LEMMA LedgerStep ==
    ASSUME ActivityOK, [Next]_vars
    PROVE  [Ledger!Next]_(Ledger!ledger)
<1> USE DEF ActivityOK, LockOK, OpenPoints, LookPoints, AdmittedOK, OneRunning
<1>1. CASE UNCHANGED vars
  BY <1>1 DEF vars, Ledger!ledger
<1>2. ASSUME NEW r \in Runs, Refused(r) PROVE [Ledger!Next]_(Ledger!ledger)
  BY <1>2 DEF Refused, Ledger!ledger
<1>3. ASSUME NEW r \in Runs, StartChecks(r) PROVE [Ledger!Next]_(Ledger!ledger)
  BY <1>3 DEF StartChecks, Ledger!ledger
<1>4. ASSUME NEW r \in Runs, StartRefused(r) PROVE [Ledger!Next]_(Ledger!ledger)
  BY <1>4 DEF StartRefused, Ledger!ledger
<1>5. ASSUME NEW r \in Runs, StartOpens(r) PROVE [Ledger!Next]_(Ledger!ledger)
  <2>1. Ledger!Open(r)
    BY <1>5 DEF StartOpens, Ledger!Open
  <2> QED BY <2>1 DEF Ledger!Next, Ledger!Ends
<1>6. ASSUME NEW r \in Runs, StartFails(r) PROVE [Ledger!Next]_(Ledger!ledger)
  <2>1. Ledger!End(r, IF Up THEN "failed" ELSE "interrupted") \/ UNCHANGED Ledger!ledger
    BY <1>6 DEF StartFails, Ledger!End, Ledger!ledger
  <2> QED BY <2>1 DEF Ledger!Next, Ledger!Ends
<1>7. ASSUME NEW r \in Runs, StartsWork(r) PROVE [Ledger!Next]_(Ledger!ledger)
  BY <1>7 DEF StartsWork, Ledger!ledger
<1>8. ASSUME NEW r \in Runs, CreatesSession(r) PROVE [Ledger!Next]_(Ledger!ledger)
  BY <1>8 DEF CreatesSession, Ledger!ledger
<1>9. ASSUME NEW r \in Runs, SessionCreated(r) PROVE [Ledger!Next]_(Ledger!ledger)
  BY <1>9 DEF SessionCreated, Ledger!ledger
<1>10. ASSUME NEW r \in Runs, TaskStarts(r) PROVE [Ledger!Next]_(Ledger!ledger)
  BY <1>10 DEF TaskStarts, Ledger!ledger
<1>11. ASSUME NEW r \in Runs, WorkUnheard(r) PROVE [Ledger!Next]_(Ledger!ledger)
  BY <1>11 DEF WorkUnheard, Ledger!ledger
<1>12. ASSUME NEW r \in Runs, WorkFails(r) PROVE [Ledger!Next]_(Ledger!ledger)
  <2>1. Ledger!End(r, IF Stopping THEN "interrupted" ELSE "failed") \/ UNCHANGED Ledger!ledger
    BY <1>12 DEF WorkFails, Ledger!End, Ledger!ledger
  <2> QED BY <2>1 DEF Ledger!Next, Ledger!Ends
<1>13. ASSUME NEW r \in Runs, WorkSettles(r) PROVE [Ledger!Next]_(Ledger!ledger)
  BY <1>13 DEF WorkSettles, Ledger!ledger
<1>14. ASSUME NEW r \in Runs, CallerSettles(r) PROVE [Ledger!Next]_(Ledger!ledger)
  <2>1. \/ Ledger!End(r, "failed") \/ Ledger!End(r, "succeeded")
        \/ UNCHANGED Ledger!ledger
    BY <1>14 DEF CallerSettles, Ledger!End, Ledger!ledger
  <2> QED BY <2>1 DEF Ledger!Next, Ledger!Ends
<1>15. ASSUME NEW r \in Runs, CollectKeeps(r) PROVE [Ledger!Next]_(Ledger!ledger)
  BY <1>15 DEF CollectKeeps, Ledger!ledger
<1>16. ASSUME NEW r \in Runs, CollectFails(r) PROVE [Ledger!Next]_(Ledger!ledger)
  <2>1. Ledger!End(r, "failed") \/ UNCHANGED Ledger!ledger
    BY <1>16 DEF CollectFails, Ledger!End, Ledger!ledger
  <2> QED BY <2>1 DEF Ledger!Next, Ledger!Ends
<1>17. ASSUME NEW r \in Runs, CollectEnds(r) PROVE [Ledger!Next]_(Ledger!ledger)
  <2>1. Ledger!End(r, "succeeded") \/ UNCHANGED Ledger!ledger
    BY <1>17 DEF CollectEnds, Ledger!End, Ledger!ledger
  <2> QED BY <2>1 DEF Ledger!Next, Ledger!Ends
<1>18. ASSUME NEW r \in Runs, GivesWay(r) PROVE [Ledger!Next]_(Ledger!ledger)
  BY <1>18 DEF GivesWay, Ledger!ledger
<1>19. ASSUME NEW r \in Runs, Applies(r) PROVE [Ledger!Next]_(Ledger!ledger)
  <2>1. Ledger!TakeResult(r)
    BY <1>19 DEF Applies, Ledger!TakeResult, Ledger!Change
  <2> QED BY <2>1 DEF Ledger!Next, Ledger!Ends
<1>20. ASSUME NEW r \in Runs, ApplyEnds(r) PROVE [Ledger!Next]_(Ledger!ledger)
  <2>1. Ledger!End(r, "succeeded") \/ UNCHANGED Ledger!ledger
    BY <1>20 DEF ApplyEnds, Ledger!End, Ledger!ledger
  <2> QED BY <2>1 DEF Ledger!Next, Ledger!Ends
<1>21. ASSUME NEW r \in Runs, Offers(r) PROVE [Ledger!Next]_(Ledger!ledger)
  <2>1. Ledger!End(r, "succeeded") \/ UNCHANGED Ledger!ledger
    BY <1>21 DEF Offers, Ledger!End, Ledger!ledger
  <2> QED BY <2>1 DEF Ledger!Next, Ledger!Ends
<1>22. ASSUME NEW r \in Runs, Conflicts(r) PROVE [Ledger!Next]_(Ledger!ledger)
  <2>1. Ledger!End(r, "conflict") \/ UNCHANGED Ledger!ledger
    BY <1>22 DEF Conflicts, Ledger!End, Ledger!ledger
  <2> QED BY <2>1 DEF Ledger!Next, Ledger!Ends
<1>23. ASSUME NEW r \in Runs, LookPasses(r) PROVE [Ledger!Next]_(Ledger!ledger)
  BY <1>23 DEF LookPasses, Ledger!ledger
<1>24. ASSUME NEW r \in Runs, StopsAtLimit(r) PROVE [Ledger!Next]_(Ledger!ledger)
  <2>1. Ledger!End(r, "failed") \/ UNCHANGED Ledger!ledger
    BY <1>24 DEF StopsAtLimit, Ledger!End, Ledger!ledger
  <2> QED BY <2>1 DEF Ledger!Next, Ledger!Ends
<1>25. ASSUME NEW r \in Runs, FindsIdle(r) PROVE [Ledger!Next]_(Ledger!ledger)
  BY <1>25 DEF FindsIdle, Ledger!ledger
<1>26. ASSUME NEW r \in Runs, BoundaryRefused(r) PROVE [Ledger!Next]_(Ledger!ledger)
  BY <1>26 DEF BoundaryRefused, Ledger!ledger
<1>27. ASSUME NEW r \in Runs, Settles(r) PROVE [Ledger!Next]_(Ledger!ledger)
  BY <1>27 DEF Settles, Ledger!ledger
<1>28. ASSUME NEW r \in Runs, AcceptRefused(r) PROVE [Ledger!Next]_(Ledger!ledger)
  BY <1>28 DEF AcceptRefused, Ledger!ledger
<1>29. ASSUME NEW r \in Runs, AcceptTakes(r) PROVE [Ledger!Next]_(Ledger!ledger)
  BY <1>29 DEF AcceptTakes, Ledger!ledger
<1>30. ASSUME NEW r \in Runs, AcceptApplies(r) PROVE [Ledger!Next]_(Ledger!ledger)
  <2>1. Ledger!TakeResult(r)
    BY <1>30 DEF AcceptApplies, Ledger!TakeResult, Ledger!Change
  <2> QED BY <2>1 DEF Ledger!Next, Ledger!Ends
<1>31. ASSUME NEW r \in Runs, AcceptFails(r) PROVE [Ledger!Next]_(Ledger!ledger)
  BY <1>31 DEF AcceptFails, Ledger!ledger
<1>32. ASSUME NEW r \in Runs, Enter(r) PROVE [Ledger!Next]_(Ledger!ledger)
  BY <1>32 DEF Enter, Ledger!ledger
<1>33. ASSUME NEW r \in Runs, CallerOpens(r) PROVE [Ledger!Next]_(Ledger!ledger)
  <2>1. Ledger!Open(r)
    BY <1>33 DEF CallerOpens, Ledger!Open
  <2> QED BY <2>1 DEF Ledger!Next, Ledger!Ends
<1>34. ASSUME NEW r \in Runs, TaskEnds(r) PROVE [Ledger!Next]_(Ledger!ledger)
  BY <1>34 DEF TaskEnds, Ledger!ledger
<1>35. ASSUME NEW r \in Runs, UserResumes(r) PROVE [Ledger!Next]_(Ledger!ledger)
  BY <1>35 DEF UserResumes, Ledger!ledger
<1>36. ASSUME NEW r \in Runs, WorkReturns(r) PROVE [Ledger!Next]_(Ledger!ledger)
  BY <1>36 DEF WorkReturns, Ledger!ledger
<1>37. ASSUME NEW r \in Runs, Cancel(r) PROVE [Ledger!Next]_(Ledger!ledger)
  <2>1. Ledger!End(r, "cancelled") \/ UNCHANGED Ledger!ledger
    BY <1>37 DEF Cancel, Ledger!End, Ledger!ledger
  <2> QED BY <2>1 DEF Ledger!Next, Ledger!Ends
<1>38. ASSUME NEW r \in Runs, AskAccept(r) PROVE [Ledger!Next]_(Ledger!ledger)
  BY <1>38 DEF AskAccept, Ledger!ledger
<1>39. ASSUME NEW r \in Runs, WaitFor(r) PROVE [Ledger!Next]_(Ledger!ledger)
  BY <1>39 DEF WaitFor, Ledger!ledger
<1>40. ASSUME NEW r \in Runs, WaiterLooks(r) PROVE [Ledger!Next]_(Ledger!ledger)
  BY <1>40 DEF WaiterLooks, Ledger!ledger
<1>41. CASE Edit
  <2>1. Ledger!Edit
    BY <1>41 DEF Edit, Ledger!Edit, Ledger!Change
  <2> QED BY <2>1 DEF Ledger!Next, Ledger!Ends
<1>42. CASE Archive
  <2>1. Ledger!Archive
    BY <1>42 DEF Archive, Ledger!Archive
  <2> QED BY <2>1 DEF Ledger!Next, Ledger!Ends
<1>43. CASE PassBegins
  BY <1>43 DEF PassBegins, Ledger!ledger
<1>44. CASE Stop("exiting")
  BY <1>44 DEF Stop, Ledger!ledger
<1>45. CASE Stop("swapping")
  BY <1>45 DEF Stop, Ledger!ledger
<1>46. CASE Drained
  <2>1. CASE Active = {}
    <3>1. UNCHANGED Ledger!ledger
      BY <1>46, <2>1 DEF Drained, Ledger!ledger
    <3> QED BY <3>1
  <2>2. ASSUME NEW r \in Runs, Active = {r} PROVE [Ledger!Next]_(Ledger!ledger)
    <3>1. Ledger!End(r, "interrupted")
      BY <1>46, <2>2 DEF Drained, Ledger!End
    <3> QED BY <3>1 DEF Ledger!Next, Ledger!Ends
  <2>3. Active = {} \/ \E r \in Runs : Active = {r}
    BY AtMostOne
  <2> HIDE DEF Active
  <2> QED BY <2>1, <2>2, <2>3
<1>47. CASE Boot
  BY <1>47 DEF Boot, Ledger!ledger
<1>48. CASE Crash
  <2>1. CASE Active = {}
    <3>1. UNCHANGED Ledger!ledger
      BY <1>48, <2>1 DEF Crash, Ledger!ledger
    <3> QED BY <3>1
  <2>2. ASSUME NEW r \in Runs, Active = {r} PROVE [Ledger!Next]_(Ledger!ledger)
    <3>1. Ledger!End(r, "interrupted")
      BY <1>48, <2>2 DEF Crash, Ledger!End
    <3> QED BY <3>1 DEF Ledger!Next, Ledger!Ends
  <2>3. Active = {} \/ \E r \in Runs : Active = {r}
    BY AtMostOne
  <2> HIDE DEF Active
  <2> QED BY <2>1, <2>2, <2>3
<1>49. CASE DeleteProject
  BY <1>49 DEF DeleteProject, Ledger!ledger
<1>50. CASE RemoveBegins
  BY <1>50 DEF RemoveBegins, Ledger!ledger
<1>51. CASE RemoveEnds
  <2>1. Ledger!Remove
    BY <1>51 DEF RemoveEnds, Ledger!Remove
  <2> QED BY <2>1 DEF Ledger!Next, Ledger!Ends
<1> QED
  BY <1>1, <1>2, <1>3, <1>4, <1>5, <1>6, <1>7, <1>8, <1>9, <1>10, <1>11, <1>12,
     <1>13, <1>14, <1>15, <1>16, <1>17, <1>18, <1>19, <1>20, <1>21, <1>22, <1>23,
     <1>24, <1>25, <1>26, <1>27, <1>28, <1>29, <1>30, <1>31, <1>32, <1>33, <1>34,
     <1>35, <1>36, <1>37, <1>38, <1>39, <1>40, <1>41, <1>42, <1>43, <1>44, <1>45,
     <1>46, <1>47, <1>48, <1>49, <1>50, <1>51
     DEF Next, Server, Starting, Working, Settling, Looking, Accepting, Outside

\* what is left of a deleted Project,
LEMMA GoneStep ==
    ASSUME ActivityOK, GoneOK, [Next]_vars
    PROVE  GoneOK'
<1> USE DEF ActivityOK, LockOK, OpenPoints, LookPoints, AdmittedOK, GoneOK, GoneIsEmpty
<1>1. ASSUME UNCHANGED <<project, status, entered, asked>> PROVE GoneOK'
  BY <1>1
<1>2. CASE UNCHANGED vars
  BY <1>1, <1>2 DEF vars
<1>3. ASSUME NEW r \in Runs,
           \/ StartChecks(r) \/ CreatesSession(r) \/ SessionCreated(r)
           \/ WorkUnheard(r) \/ WorkSettles(r) \/ CollectKeeps(r) \/ GivesWay(r)
           \/ Applies(r) \/ LookPasses(r) \/ FindsIdle(r) \/ BoundaryRefused(r)
           \/ Settles(r) \/ AcceptTakes(r) \/ TaskEnds(r) \/ UserResumes(r)
           \/ WorkReturns(r) \/ WaitFor(r) \/ WaiterLooks(r)
      PROVE  UNCHANGED <<project, status, entered, asked>>
  BY <1>3 DEF StartChecks, CreatesSession, SessionCreated, WorkUnheard, WorkSettles,
      CollectKeeps, GivesWay, Applies, LookPasses, FindsIdle, BoundaryRefused, Settles,
      AcceptTakes, TaskEnds, UserResumes, WorkReturns, WaitFor, WaiterLooks
<1>4. ASSUME Edit \/ Archive \/ PassBegins \/ Stop("exiting") \/ Stop("swapping") \/ Boot
      PROVE  UNCHANGED <<project, status, entered, asked>>
  BY <1>4 DEF Archive, Boot, Edit, PassBegins, Stop
<1>5. ASSUME NEW r \in Runs, Refused(r) PROVE GoneOK'
  BY <1>5 DEF Refused
<1>6. ASSUME NEW r \in Runs, StartRefused(r) PROVE GoneOK'
  BY <1>6 DEF StartRefused
<1>7. ASSUME NEW r \in Runs, StartOpens(r) PROVE GoneOK'
  BY <1>7 DEF StartOpens
<1>8. ASSUME NEW r \in Runs, StartFails(r) PROVE GoneOK'
  BY <1>8 DEF StartFails
<1>9. ASSUME NEW r \in Runs, StartsWork(r) PROVE GoneOK'
  BY <1>9 DEF StartsWork
<1>10. ASSUME NEW r \in Runs, TaskStarts(r) PROVE GoneOK'
  BY <1>10 DEF TaskStarts
<1>11. ASSUME NEW r \in Runs, WorkFails(r) PROVE GoneOK'
  BY <1>11 DEF WorkFails
<1>12. ASSUME NEW r \in Runs, CallerSettles(r) PROVE GoneOK'
  BY <1>12 DEF CallerSettles
<1>13. ASSUME NEW r \in Runs, CollectFails(r) PROVE GoneOK'
  BY <1>13 DEF CollectFails
<1>14. ASSUME NEW r \in Runs, CollectEnds(r) PROVE GoneOK'
  BY <1>14 DEF CollectEnds
<1>15. ASSUME NEW r \in Runs, ApplyEnds(r) PROVE GoneOK'
  BY <1>15 DEF ApplyEnds
<1>16. ASSUME NEW r \in Runs, Offers(r) PROVE GoneOK'
  BY <1>16 DEF Offers
<1>17. ASSUME NEW r \in Runs, Conflicts(r) PROVE GoneOK'
  BY <1>17 DEF Conflicts
<1>18. ASSUME NEW r \in Runs, StopsAtLimit(r) PROVE GoneOK'
  BY <1>18 DEF StopsAtLimit
<1>19. ASSUME NEW r \in Runs, AcceptRefused(r) PROVE GoneOK'
  BY <1>19 DEF AcceptRefused
<1>20. ASSUME NEW r \in Runs, AcceptApplies(r) PROVE GoneOK'
  BY <1>20 DEF AcceptApplies
<1>21. ASSUME NEW r \in Runs, AcceptFails(r) PROVE GoneOK'
  BY <1>21 DEF AcceptFails
<1>22. ASSUME NEW r \in Runs, Enter(r) PROVE GoneOK'
  BY <1>22 DEF Enter
<1>23. ASSUME NEW r \in Runs, CallerOpens(r) PROVE GoneOK'
  BY <1>23 DEF CallerOpens
<1>24. ASSUME NEW r \in Runs, Cancel(r) PROVE GoneOK'
  BY <1>24 DEF Cancel
<1>25. ASSUME NEW r \in Runs, AskAccept(r) PROVE GoneOK'
  BY <1>25 DEF AskAccept
<1>26. CASE Drained
  BY <1>26 DEF Drained
<1>27. CASE Crash
  BY <1>27 DEF Crash
<1>28. CASE DeleteProject
  BY <1>28 DEF DeleteProject
<1>29. CASE RemoveBegins
  BY <1>29 DEF RemoveBegins
<1>30. CASE RemoveEnds
  BY <1>30 DEF RemoveEnds
<1> QED
  BY <1>1, <1>2, <1>3, <1>4, <1>5, <1>6, <1>7, <1>8, <1>9, <1>10, <1>11, <1>12, <1>13,
     <1>14, <1>15, <1>16, <1>17, <1>18, <1>19, <1>20, <1>21, <1>22, <1>23, <1>24, <1>25,
     <1>26, <1>27, <1>28, <1>29, <1>30
     DEF Next, Server, Starting, Working, Settling, Looking, Accepting, Outside

\* what a drained stop leaves,
LEMMA QuietStep ==
    ASSUME ActivityOK, DrainedIsQuiet, [Next]_vars
    PROVE  DrainedIsQuiet'
<1> USE DEF ActivityOK, DrainedIsQuiet
<1>1. ASSUME UNCHANGED <<app, status, hold, entered, pass>> PROVE DrainedIsQuiet'
  BY <1>1
<1>2. CASE UNCHANGED vars
  BY <1>1, <1>2 DEF vars
<1>3. ASSUME NEW r \in Runs,
           \/ WorkUnheard(r) \/ AcceptRefused(r) \/ TaskEnds(r) \/ UserResumes(r)
           \/ WorkReturns(r) \/ AskAccept(r) \/ WaitFor(r) \/ WaiterLooks(r)
      PROVE  UNCHANGED <<app, status, hold, entered, pass>>
  BY <1>3 DEF WorkUnheard, AcceptRefused, TaskEnds, UserResumes, WorkReturns, AskAccept,
      WaitFor, WaiterLooks
<1>4. ASSUME Edit \/ Archive \/ DeleteProject \/ RemoveBegins
      PROVE  UNCHANGED <<app, status, hold, entered, pass>>
  BY <1>4 DEF Archive, DeleteProject, Edit, RemoveBegins
<1>5. ASSUME NEW r \in Runs, Refused(r) PROVE DrainedIsQuiet'
  BY <1>5 DEF Refused
<1>6. ASSUME NEW r \in Runs, StartChecks(r) PROVE DrainedIsQuiet'
  BY <1>6 DEF StartChecks
<1>7. ASSUME NEW r \in Runs, StartRefused(r) PROVE DrainedIsQuiet'
  BY <1>7 DEF StartRefused
<1>8. ASSUME NEW r \in Runs, StartOpens(r) PROVE DrainedIsQuiet'
  BY <1>8 DEF StartOpens
<1>9. ASSUME NEW r \in Runs, StartFails(r) PROVE DrainedIsQuiet'
  BY <1>9 DEF StartFails
<1>10. ASSUME NEW r \in Runs, StartsWork(r) PROVE DrainedIsQuiet'
  BY <1>10 DEF StartsWork
<1>11. ASSUME NEW r \in Runs, CreatesSession(r) PROVE DrainedIsQuiet'
  BY <1>11 DEF CreatesSession
<1>12. ASSUME NEW r \in Runs, SessionCreated(r) PROVE DrainedIsQuiet'
  BY <1>12 DEF SessionCreated
<1>13. ASSUME NEW r \in Runs, TaskStarts(r) PROVE DrainedIsQuiet'
  BY <1>13 DEF TaskStarts
<1>14. ASSUME NEW r \in Runs, WorkFails(r) PROVE DrainedIsQuiet'
  BY <1>14 DEF WorkFails
<1>15. ASSUME NEW r \in Runs, WorkSettles(r) PROVE DrainedIsQuiet'
  BY <1>15 DEF WorkSettles
<1>16. ASSUME NEW r \in Runs, CallerSettles(r) PROVE DrainedIsQuiet'
  BY <1>16 DEF CallerSettles
<1>17. ASSUME NEW r \in Runs, CollectKeeps(r) PROVE DrainedIsQuiet'
  BY <1>17 DEF CollectKeeps
<1>18. ASSUME NEW r \in Runs, CollectFails(r) PROVE DrainedIsQuiet'
  BY <1>18 DEF CollectFails
<1>19. ASSUME NEW r \in Runs, CollectEnds(r) PROVE DrainedIsQuiet'
  BY <1>19 DEF CollectEnds
<1>20. ASSUME NEW r \in Runs, GivesWay(r) PROVE DrainedIsQuiet'
  BY <1>20 DEF GivesWay
<1>21. ASSUME NEW r \in Runs, Applies(r) PROVE DrainedIsQuiet'
  BY <1>21 DEF Applies
<1>22. ASSUME NEW r \in Runs, ApplyEnds(r) PROVE DrainedIsQuiet'
  BY <1>22 DEF ApplyEnds
<1>23. ASSUME NEW r \in Runs, Offers(r) PROVE DrainedIsQuiet'
  BY <1>23 DEF Offers
<1>24. ASSUME NEW r \in Runs, Conflicts(r) PROVE DrainedIsQuiet'
  BY <1>24 DEF Conflicts
<1>25. ASSUME NEW r \in Runs, LookPasses(r) PROVE DrainedIsQuiet'
  BY <1>25 DEF LookPasses
<1>26. ASSUME NEW r \in Runs, StopsAtLimit(r) PROVE DrainedIsQuiet'
  BY <1>26 DEF StopsAtLimit
<1>27. ASSUME NEW r \in Runs, FindsIdle(r) PROVE DrainedIsQuiet'
  BY <1>27 DEF FindsIdle
<1>28. ASSUME NEW r \in Runs, BoundaryRefused(r) PROVE DrainedIsQuiet'
  BY <1>28 DEF BoundaryRefused
<1>29. ASSUME NEW r \in Runs, Settles(r) PROVE DrainedIsQuiet'
  BY <1>29 DEF Settles
<1>30. ASSUME NEW r \in Runs, AcceptTakes(r) PROVE DrainedIsQuiet'
  BY <1>30 DEF AcceptTakes
<1>31. ASSUME NEW r \in Runs, AcceptApplies(r) PROVE DrainedIsQuiet'
  BY <1>31 DEF AcceptApplies
<1>32. ASSUME NEW r \in Runs, AcceptFails(r) PROVE DrainedIsQuiet'
  BY <1>32 DEF AcceptFails
<1>33. ASSUME NEW r \in Runs, Enter(r) PROVE DrainedIsQuiet'
  BY <1>33 DEF Enter
<1>34. ASSUME NEW r \in Runs, CallerOpens(r) PROVE DrainedIsQuiet'
  BY <1>34 DEF CallerOpens
<1>35. ASSUME NEW r \in Runs, Cancel(r) PROVE DrainedIsQuiet'
  BY <1>35 DEF Cancel
<1>36. CASE PassBegins
  BY <1>36 DEF PassBegins
<1>37. CASE Stop("exiting")
  BY <1>37 DEF Stop
<1>38. CASE Stop("swapping")
  BY <1>38 DEF Stop
<1>39. CASE Drained
  BY <1>39 DEF Drained
<1>40. CASE Boot
  BY <1>40 DEF Boot
<1>41. CASE Crash
  BY <1>41 DEF Crash
<1>42. CASE RemoveEnds
  BY <1>42 DEF RemoveEnds
<1> QED
  BY <1>1, <1>2, <1>3, <1>4, <1>5, <1>6, <1>7, <1>8, <1>9, <1>10, <1>11, <1>12, <1>13,
     <1>14, <1>15, <1>16, <1>17, <1>18, <1>19, <1>20, <1>21, <1>22, <1>23, <1>24, <1>25,
     <1>26, <1>27, <1>28, <1>29, <1>30, <1>31, <1>32, <1>33, <1>34, <1>35, <1>36, <1>37,
     <1>38, <1>39, <1>40, <1>41, <1>42
     DEF Next, Server, Starting, Working, Settling, Looking, Accepting, Outside

\* what works on a run,
LEMMA EffortStep ==
    ASSUME ActivityOK, EffortOK, [Next]_vars
    PROVE  EffortOK'
<1> USE DEF ActivityOK, LockOK, OpenPoints, LookPoints, AdmittedOK, EffortOK
<1>1. ASSUME UNCHANGED <<status, kind, hold, session, work>> PROVE EffortOK'
  BY <1>1
<1>2. CASE UNCHANGED vars
  BY <1>1, <1>2 DEF vars
<1>3. ASSUME NEW r \in Runs,
           \/ Refused(r) \/ LookPasses(r) \/ AcceptRefused(r) \/ AskAccept(r)
           \/ WaitFor(r) \/ WaiterLooks(r)
      PROVE  UNCHANGED <<status, kind, hold, session, work>>
  BY <1>3 DEF Refused, LookPasses, AcceptRefused, AskAccept, WaitFor, WaiterLooks
<1>4. ASSUME Edit \/ Archive \/ PassBegins \/ Stop("exiting") \/ Stop("swapping") \/ Boot \/ DeleteProject \/ RemoveBegins
      PROVE  UNCHANGED <<status, kind, hold, session, work>>
  BY <1>4 DEF Archive, Boot, DeleteProject, Edit, PassBegins, RemoveBegins, Stop
<1>5. ASSUME NEW r \in Runs, StartChecks(r) PROVE EffortOK'
  BY <1>5 DEF StartChecks
<1>6. ASSUME NEW r \in Runs, StartRefused(r) PROVE EffortOK'
  BY <1>6 DEF StartRefused
<1>7. ASSUME NEW r \in Runs, StartOpens(r) PROVE EffortOK'
  BY <1>7 DEF StartOpens
<1>8. ASSUME NEW r \in Runs, StartFails(r) PROVE EffortOK'
  BY <1>8 DEF StartFails
<1>9. ASSUME NEW r \in Runs, StartsWork(r) PROVE EffortOK'
  BY <1>9 DEF StartsWork
<1>10. ASSUME NEW r \in Runs, CreatesSession(r) PROVE EffortOK'
  BY <1>10 DEF CreatesSession
<1>11. ASSUME NEW r \in Runs, SessionCreated(r) PROVE EffortOK'
  BY <1>11 DEF SessionCreated
<1>12. ASSUME NEW r \in Runs, TaskStarts(r) PROVE EffortOK'
  BY <1>12 DEF TaskStarts
<1>13. ASSUME NEW r \in Runs, WorkUnheard(r) PROVE EffortOK'
  BY <1>13 DEF WorkUnheard
<1>14. ASSUME NEW r \in Runs, WorkFails(r) PROVE EffortOK'
  BY <1>14 DEF WorkFails
<1>15. ASSUME NEW r \in Runs, WorkSettles(r) PROVE EffortOK'
  BY <1>15 DEF WorkSettles
<1>16. ASSUME NEW r \in Runs, CallerSettles(r) PROVE EffortOK'
  BY <1>16 DEF CallerSettles
<1>17. ASSUME NEW r \in Runs, CollectKeeps(r) PROVE EffortOK'
  BY <1>17 DEF CollectKeeps
<1>18. ASSUME NEW r \in Runs, CollectFails(r) PROVE EffortOK'
  BY <1>18 DEF CollectFails
<1>19. ASSUME NEW r \in Runs, CollectEnds(r) PROVE EffortOK'
  BY <1>19 DEF CollectEnds
<1>20. ASSUME NEW r \in Runs, GivesWay(r) PROVE EffortOK'
  BY <1>20 DEF GivesWay
<1>21. ASSUME NEW r \in Runs, Applies(r) PROVE EffortOK'
  BY <1>21 DEF Applies
<1>22. ASSUME NEW r \in Runs, ApplyEnds(r) PROVE EffortOK'
  BY <1>22 DEF ApplyEnds
<1>23. ASSUME NEW r \in Runs, Offers(r) PROVE EffortOK'
  BY <1>23 DEF Offers
<1>24. ASSUME NEW r \in Runs, Conflicts(r) PROVE EffortOK'
  BY <1>24 DEF Conflicts
<1>25. ASSUME NEW r \in Runs, StopsAtLimit(r) PROVE EffortOK'
  BY <1>25 DEF StopsAtLimit
<1>26. ASSUME NEW r \in Runs, FindsIdle(r) PROVE EffortOK'
  BY <1>26 DEF FindsIdle
<1>27. ASSUME NEW r \in Runs, BoundaryRefused(r) PROVE EffortOK'
  BY <1>27 DEF BoundaryRefused
<1>28. ASSUME NEW r \in Runs, Settles(r) PROVE EffortOK'
  BY <1>28 DEF Settles
<1>29. ASSUME NEW r \in Runs, AcceptTakes(r) PROVE EffortOK'
  BY <1>29 DEF AcceptTakes
<1>30. ASSUME NEW r \in Runs, AcceptApplies(r) PROVE EffortOK'
  BY <1>30 DEF AcceptApplies
<1>31. ASSUME NEW r \in Runs, AcceptFails(r) PROVE EffortOK'
  BY <1>31 DEF AcceptFails
<1>32. ASSUME NEW r \in Runs, Enter(r) PROVE EffortOK'
  BY <1>32 DEF Enter
<1>33. ASSUME NEW r \in Runs, CallerOpens(r) PROVE EffortOK'
  BY <1>33 DEF CallerOpens
<1>34. ASSUME NEW r \in Runs, TaskEnds(r) PROVE EffortOK'
  BY <1>34 DEF TaskEnds
<1>35. ASSUME NEW r \in Runs, UserResumes(r) PROVE EffortOK'
  BY <1>35 DEF UserResumes
<1>36. ASSUME NEW r \in Runs, WorkReturns(r) PROVE EffortOK'
  BY <1>36 DEF WorkReturns
<1>37. ASSUME NEW r \in Runs, Cancel(r) PROVE EffortOK'
  BY <1>37 DEF Cancel
<1>38. CASE Drained
  BY <1>38 DEF Drained
<1>39. CASE Crash
  BY <1>39 DEF Crash
<1>40. CASE RemoveEnds
  BY <1>40 DEF RemoveEnds
<1> QED
  BY <1>1, <1>2, <1>3, <1>4, <1>5, <1>6, <1>7, <1>8, <1>9, <1>10, <1>11, <1>12, <1>13,
     <1>14, <1>15, <1>16, <1>17, <1>18, <1>19, <1>20, <1>21, <1>22, <1>23, <1>24, <1>25,
     <1>26, <1>27, <1>28, <1>29, <1>30, <1>31, <1>32, <1>33, <1>34, <1>35, <1>36, <1>37,
     <1>38, <1>39, <1>40
     DEF Next, Server, Starting, Working, Settling, Looking, Accepting, Outside

\* that what has ended was told to stop,
LEMMA LeftStep ==
    ASSUME ActivityOK, EffortOK, NoneLeftWorking, [Next]_vars
    PROVE  NoneLeftWorking'
<1> USE DEF ActivityOK, LockOK, OpenPoints, LookPoints, AdmittedOK, EffortOK, NoneLeftWorking
<1>1. ASSUME UNCHANGED <<status, kind, session, work, told>> PROVE NoneLeftWorking'
  BY <1>1
<1>2. CASE UNCHANGED vars
  BY <1>1, <1>2 DEF vars
<1>3. ASSUME NEW r \in Runs,
           \/ Refused(r) \/ StartChecks(r) \/ StartRefused(r) \/ CreatesSession(r)
           \/ WorkSettles(r) \/ CollectKeeps(r) \/ Applies(r) \/ LookPasses(r)
           \/ FindsIdle(r) \/ BoundaryRefused(r) \/ Settles(r) \/ AcceptRefused(r)
           \/ AcceptTakes(r) \/ AcceptApplies(r) \/ AcceptFails(r) \/ AskAccept(r)
           \/ WaitFor(r) \/ WaiterLooks(r)
      PROVE  UNCHANGED <<status, kind, session, work, told>>
  BY <1>3 DEF Refused, StartChecks, StartRefused, CreatesSession, WorkSettles,
      CollectKeeps, Applies, LookPasses, FindsIdle, BoundaryRefused, Settles,
      AcceptRefused, AcceptTakes, AcceptApplies, AcceptFails, AskAccept, WaitFor,
      WaiterLooks
<1>4. ASSUME Edit \/ Archive \/ PassBegins \/ Boot \/ DeleteProject
      PROVE  UNCHANGED <<status, kind, session, work, told>>
  BY <1>4 DEF Archive, Boot, DeleteProject, Edit, PassBegins
<1>5. ASSUME NEW r \in Runs, StartOpens(r) PROVE NoneLeftWorking'
  BY <1>5 DEF StartOpens
<1>6. ASSUME NEW r \in Runs, StartFails(r) PROVE NoneLeftWorking'
  BY <1>6 DEF StartFails
<1>7. ASSUME NEW r \in Runs, StartsWork(r) PROVE NoneLeftWorking'
  BY <1>7 DEF StartsWork
<1>8. ASSUME NEW r \in Runs, SessionCreated(r) PROVE NoneLeftWorking'
  BY <1>8 DEF SessionCreated
<1>9. ASSUME NEW r \in Runs, TaskStarts(r) PROVE NoneLeftWorking'
  BY <1>9 DEF TaskStarts
<1>10. ASSUME NEW r \in Runs, WorkUnheard(r) PROVE NoneLeftWorking'
  BY <1>10 DEF WorkUnheard
<1>11. ASSUME NEW r \in Runs, WorkFails(r) PROVE NoneLeftWorking'
  BY <1>11 DEF WorkFails
<1>12. ASSUME NEW r \in Runs, CallerSettles(r) PROVE NoneLeftWorking'
  <2>1. session[r] = "none" /\ ~Local(r)
    BY <1>12 DEF CallerSettles
  <2>2. \A q \in Runs \ {r} : status'[q] = status[q] /\ work'[q] = work[q]
    BY <1>12 DEF CallerSettles
  <2>3. UNCHANGED <<session, kind, told>>
    BY <1>12 DEF CallerSettles
  <2> QED BY <2>1, <2>2, <2>3
<1>13. ASSUME NEW r \in Runs, CollectFails(r) PROVE NoneLeftWorking'
  BY <1>13 DEF CollectFails
<1>14. ASSUME NEW r \in Runs, CollectEnds(r) PROVE NoneLeftWorking'
  BY <1>14 DEF CollectEnds
<1>15. ASSUME NEW r \in Runs, GivesWay(r) PROVE NoneLeftWorking'
  <2>1. status[r] \in {"running", "gone"} /\ UNCHANGED <<status, session, kind>>
    BY <1>15 DEF GivesWay
  <2>2. \A q \in Runs \ {r} : told'[q] = told[q] /\ work'[q] = work[q]
    BY <1>15 DEF GivesWay
  <2> QED BY <2>1, <2>2
<1>16. ASSUME NEW r \in Runs, ApplyEnds(r) PROVE NoneLeftWorking'
  BY <1>16 DEF ApplyEnds
<1>17. ASSUME NEW r \in Runs, Offers(r) PROVE NoneLeftWorking'
  BY <1>17 DEF Offers
<1>18. ASSUME NEW r \in Runs, Conflicts(r) PROVE NoneLeftWorking'
  BY <1>18 DEF Conflicts
<1>19. ASSUME NEW r \in Runs, StopsAtLimit(r) PROVE NoneLeftWorking'
  BY <1>19 DEF StopsAtLimit
<1>20. ASSUME NEW r \in Runs, Enter(r) PROVE NoneLeftWorking'
  BY <1>20 DEF Enter
<1>21. ASSUME NEW r \in Runs, CallerOpens(r) PROVE NoneLeftWorking'
  BY <1>21 DEF CallerOpens
<1>22. ASSUME NEW r \in Runs, TaskEnds(r) PROVE NoneLeftWorking'
  BY <1>22 DEF TaskEnds
<1>23. ASSUME NEW r \in Runs, UserResumes(r) PROVE NoneLeftWorking'
  BY <1>23 DEF UserResumes
<1>24. ASSUME NEW r \in Runs, WorkReturns(r) PROVE NoneLeftWorking'
  BY <1>24 DEF WorkReturns
<1>25. ASSUME NEW r \in Runs, Cancel(r) PROVE NoneLeftWorking'
  BY <1>25 DEF Cancel
<1>26. CASE Stop("exiting")
  BY <1>26 DEF Stop
<1>27. CASE Stop("swapping")
  BY <1>27 DEF Stop
<1>28. CASE Drained
  BY <1>28 DEF Drained
<1>29. CASE Crash
  BY <1>29 DEF Crash
<1>30. CASE RemoveBegins
  BY <1>30 DEF RemoveBegins
<1>31. CASE RemoveEnds
  BY <1>31 DEF RemoveEnds
<1> QED
  BY <1>1, <1>2, <1>3, <1>4, <1>5, <1>6, <1>7, <1>8, <1>9, <1>10, <1>11, <1>12, <1>13,
     <1>14, <1>15, <1>16, <1>17, <1>18, <1>19, <1>20, <1>21, <1>22, <1>23, <1>24, <1>25,
     <1>26, <1>27, <1>28, <1>29, <1>30, <1>31
     DEF Next, Server, Starting, Working, Settling, Looking, Accepting, Outside

\* and what the rows say of the results in the draft.
LEMMA TakenStep ==
    ASSUME ActivityOK, TakenIsRecorded, [Next]_vars
    PROVE  TakenIsRecorded'
<1> USE DEF ActivityOK, LockOK, OpenPoints, LookPoints, AdmittedOK, TakenIsRecorded
<1>1. ASSUME UNCHANGED <<taken, status, torn, hold>> PROVE TakenIsRecorded'
  BY <1>1
<1>2. CASE UNCHANGED vars
  BY <1>1, <1>2 DEF vars
<1>3. ASSUME NEW r \in Runs,
           \/ Refused(r) \/ WorkUnheard(r) \/ LookPasses(r) \/ AcceptRefused(r)
           \/ Enter(r) \/ TaskEnds(r) \/ UserResumes(r) \/ WorkReturns(r)
           \/ AskAccept(r) \/ WaitFor(r) \/ WaiterLooks(r)
      PROVE  UNCHANGED <<taken, status, torn, hold>>
  BY <1>3 DEF Refused, WorkUnheard, LookPasses, AcceptRefused, Enter, TaskEnds,
      UserResumes, WorkReturns, AskAccept, WaitFor, WaiterLooks
<1>4. ASSUME Archive \/ PassBegins \/ Stop("exiting") \/ Stop("swapping") \/ Boot \/ DeleteProject \/ RemoveBegins
      PROVE  UNCHANGED <<taken, status, torn, hold>>
  BY <1>4 DEF Archive, Boot, DeleteProject, PassBegins, RemoveBegins, Stop
<1>5. ASSUME NEW r \in Runs, StartChecks(r) PROVE TakenIsRecorded'
  BY <1>5 DEF StartChecks
<1>6. ASSUME NEW r \in Runs, StartRefused(r) PROVE TakenIsRecorded'
  BY <1>6 DEF StartRefused
<1>7. ASSUME NEW r \in Runs, StartOpens(r) PROVE TakenIsRecorded'
  BY <1>7 DEF StartOpens
<1>8. ASSUME NEW r \in Runs, StartFails(r) PROVE TakenIsRecorded'
  BY <1>8 DEF StartFails
<1>9. ASSUME NEW r \in Runs, StartsWork(r) PROVE TakenIsRecorded'
  BY <1>9 DEF StartsWork
<1>10. ASSUME NEW r \in Runs, CreatesSession(r) PROVE TakenIsRecorded'
  BY <1>10 DEF CreatesSession
<1>11. ASSUME NEW r \in Runs, SessionCreated(r) PROVE TakenIsRecorded'
  BY <1>11 DEF SessionCreated
<1>12. ASSUME NEW r \in Runs, TaskStarts(r) PROVE TakenIsRecorded'
  BY <1>12 DEF TaskStarts
<1>13. ASSUME NEW r \in Runs, WorkFails(r) PROVE TakenIsRecorded'
  BY <1>13 DEF WorkFails
<1>14. ASSUME NEW r \in Runs, WorkSettles(r) PROVE TakenIsRecorded'
  BY <1>14 DEF WorkSettles
<1>15. ASSUME NEW r \in Runs, CallerSettles(r) PROVE TakenIsRecorded'
  BY <1>15 DEF CallerSettles
<1>16. ASSUME NEW r \in Runs, CollectKeeps(r) PROVE TakenIsRecorded'
  BY <1>16 DEF CollectKeeps
<1>17. ASSUME NEW r \in Runs, CollectFails(r) PROVE TakenIsRecorded'
  BY <1>17 DEF CollectFails
<1>18. ASSUME NEW r \in Runs, CollectEnds(r) PROVE TakenIsRecorded'
  BY <1>18 DEF CollectEnds
<1>19. ASSUME NEW r \in Runs, GivesWay(r) PROVE TakenIsRecorded'
  BY <1>19 DEF GivesWay
<1>20. ASSUME NEW r \in Runs, Applies(r) PROVE TakenIsRecorded'
  <2>1. taken' = taken \cup {[by |-> r, over |-> draft]} /\ hold' = [at |-> "applied", run |-> r]
    BY <1>20 DEF Applies
  <2>2. status[r] = "running" /\ At("settled", r) /\ UNCHANGED <<status, torn>>
    BY <1>20 DEF Applies
  <2>3. \A t \in taken' : t \in taken \/ t.by = r
    BY <2>1
  <2>4. At("applied", r)' /\ status'[r] = "running"
    BY <2>1, <2>2
  <2>5. ASSUME NEW t \in taken
        PROVE  status[t.by] \in {"succeeded", "gone"} \/ t.by \in torn
    BY <2>2
  <2> HIDE DEF TypeOK
  <2> QED BY <2>2, <2>3, <2>4, <2>5
<1>21. ASSUME NEW r \in Runs, ApplyEnds(r) PROVE TakenIsRecorded'
  BY <1>21 DEF ApplyEnds
<1>22. ASSUME NEW r \in Runs, Offers(r) PROVE TakenIsRecorded'
  BY <1>22 DEF Offers
<1>23. ASSUME NEW r \in Runs, Conflicts(r) PROVE TakenIsRecorded'
  BY <1>23 DEF Conflicts
<1>24. ASSUME NEW r \in Runs, StopsAtLimit(r) PROVE TakenIsRecorded'
  BY <1>24 DEF StopsAtLimit
<1>25. ASSUME NEW r \in Runs, FindsIdle(r) PROVE TakenIsRecorded'
  BY <1>25 DEF FindsIdle
<1>26. ASSUME NEW r \in Runs, BoundaryRefused(r) PROVE TakenIsRecorded'
  BY <1>26 DEF BoundaryRefused
<1>27. ASSUME NEW r \in Runs, Settles(r) PROVE TakenIsRecorded'
  BY <1>27 DEF Settles
<1>28. ASSUME NEW r \in Runs, AcceptTakes(r) PROVE TakenIsRecorded'
  BY <1>28 DEF AcceptTakes
<1>29. ASSUME NEW r \in Runs, AcceptApplies(r) PROVE TakenIsRecorded'
  <2>1. taken' = taken \cup {[by |-> r, over |-> draft]} /\ At("accepting", r) /\ UNCHANGED <<status, torn>>
    BY <1>29 DEF AcceptApplies
  <2>2. status[r] \in {"succeeded", "gone"}
    BY <2>1
  <2>3. \A t \in taken' : t \in taken \/ t.by = r
    BY <2>1
  <2>4. ASSUME NEW t \in taken
        PROVE  status[t.by] \in {"succeeded", "gone"} \/ t.by \in torn
    BY <2>1
  <2> HIDE DEF TypeOK
  <2> QED BY <2>1, <2>2, <2>3, <2>4
<1>30. ASSUME NEW r \in Runs, AcceptFails(r) PROVE TakenIsRecorded'
  BY <1>30 DEF AcceptFails
<1>31. ASSUME NEW r \in Runs, CallerOpens(r) PROVE TakenIsRecorded'
  BY <1>31 DEF CallerOpens
<1>32. ASSUME NEW r \in Runs, Cancel(r) PROVE TakenIsRecorded'
  BY <1>32 DEF Cancel
<1>33. CASE Edit
  <2>1. UNCHANGED <<taken, status, torn, hold>>
    BY <1>33 DEF Edit
  <2> QED BY <1>1, <2>1
<1>34. CASE Drained
  BY <1>34 DEF Drained
<1>35. CASE Crash
  BY <1>35 DEF Crash
<1>36. CASE RemoveEnds
  BY <1>36 DEF RemoveEnds
<1> QED
  BY <1>1, <1>2, <1>3, <1>4, <1>5, <1>6, <1>7, <1>8, <1>9, <1>10, <1>11, <1>12, <1>13,
     <1>14, <1>15, <1>16, <1>17, <1>18, <1>19, <1>20, <1>21, <1>22, <1>23, <1>24, <1>25,
     <1>26, <1>27, <1>28, <1>29, <1>30, <1>31, <1>32, <1>33, <1>34, <1>35, <1>36
     DEF Next, Server, Starting, Working, Settling, Looking, Accepting, Outside

-----------------------------------------------------------------------------
\* The inductive invariant.
THEOREM ActivityInvariant == Spec => []ActivityOK
<1>1. Init => ActivityOK
  <2> SUFFICES ASSUME Init PROVE ActivityOK
    OBVIOUS
  <2> USE DEF Init
  <2>1. TypeOK
    <3>1. draft \in Contents /\ taken \subseteq [by : Runs, over : Contents]
      OBVIOUS
    <3>2. status \in [Runs -> Statuses] /\ kind \in [Runs -> AllKinds \cup {NoKind}]
      OBVIOUS
    <3>3. /\ seen \in [Runs -> Contents] /\ input \in [Runs -> Contents]
          /\ kept \in [Runs -> BOOLEAN] /\ told \in [Runs -> BOOLEAN]
          /\ session \in [Runs -> {"none", "idle", "agent", "user"}]
          /\ work \in [Runs -> {"none", "working", "ok", "bad", "over"}]
      OBVIOUS
    <3>4. hold = Free /\ app = "up" /\ project = "here" /\ archived = FALSE /\ restarts = 0
      OBVIOUS
    <3>5. entered = {} /\ asked = {} /\ pass = {} /\ torn = {} /\ waiting = {}
      OBVIOUS
    <3>6. /\ hold \in [at : Points, run : Runs] \cup {Free}
          /\ app \in {"up", "exiting", "swapping", "drained"}
          /\ project \in {"here", "deleting", "removing", "gone"} /\ archived \in BOOLEAN
      <4> HIDE DEF Init, Points, Free
      <4> QED BY <3>4
    <3>7. restarts \in 0..MaxRestarts
      BY <3>4
    <3> HIDE DEF Init, Statuses, NoKind, AllKinds, Points, Free
    <3> QED BY <3>1, <3>2, <3>3, <3>5, <3>6, <3>7
  <2>2. LockOK /\ AdmittedOK /\ OneRunning /\ DraftOK
    BY DEF LockOK, AdmittedOK, OneRunning, DraftOK, OpenPoints, LookPoints
  <2> QED BY <2>1, <2>2 DEF ActivityOK
<1>2. ActivityOK /\ [Next]_vars => ActivityOK'
  BY TypeStep, LockStep, AdmittedStep, OneStep, DraftStep DEF ActivityOK
<1> QED BY <1>1, <1>2, PTL DEF Spec

\* At most one run of an Activity works at a time, and none in an Activity deleted from view.
THEOREM ActivityOneRunning == Spec => []OneRunning
<1>1. ActivityOK => OneRunning
  BY DEF ActivityOK
<1> QED BY <1>1, ActivityInvariant, PTL

\* Whatever a run's result replaces in the draft, applied or accepted, is the content that run
\* was started from: an edit that stands is not overwritten by a run made from another draft.
THEOREM ActivityNoLostEdit == Spec => []NoLostEdit
<1>1. ActivityOK => NoLostEdit
  BY DEF ActivityOK, DraftOK, NoLostEdit
<1> QED BY <1>1, ActivityInvariant, PTL

\* The variables of the runs keep their types.
THEOREM ActivityTypeCorrect == Spec => []TypeOK
<1>1. ActivityOK => TypeOK
  BY DEF ActivityOK
<1> QED BY <1>1, ActivityInvariant, PTL

\* What a run works with fits its row and the point its settlement has reached.
THEOREM ActivityEffort == Spec => []EffortOK
<1>1. Init => EffortOK
  BY DEF Init, EffortOK, OpenPoints
<1>2. ActivityOK /\ EffortOK /\ [Next]_vars => EffortOK'
  BY EffortStep
<1> QED BY <1>1, <1>2, ActivityInvariant, PTL DEF Spec

\* A run that was ended by Stop, by its limit or by its own result leaves nothing of its own at
\* work that was not told to stop.
THEOREM ActivityNoneLeftWorking == Spec => []NoneLeftWorking
<1>1. Init => NoneLeftWorking
  BY DEF Init, NoneLeftWorking
<1>2. ActivityOK /\ EffortOK /\ NoneLeftWorking /\ [Next]_vars => NoneLeftWorking'
  BY LeftStep
<1> QED BY <1>1, <1>2, ActivityInvariant, ActivityEffort, PTL DEF Spec

\* A run whose result is in the draft reads succeeded, or is about to: no Stop, limit,
\* cancellation, deletion or stopping server gets between the two, only a crash.
THEOREM ActivityTakenIsRecorded == Spec => []TakenIsRecorded
<1>1. Init => TakenIsRecorded
  BY DEF Init, TakenIsRecorded
<1>2. ActivityOK /\ TakenIsRecorded /\ [Next]_vars => TakenIsRecorded'
  BY TakenStep
<1> QED BY <1>1, <1>2, ActivityInvariant, PTL DEF Spec

\* Behind a drained stop nothing runs, and nothing that was under way can write any more.
THEOREM ActivityDrainedIsQuiet == Spec => []DrainedIsQuiet
<1>1. Init => DrainedIsQuiet
  BY DEF Init, DrainedIsQuiet
<1>2. ActivityOK /\ DrainedIsQuiet /\ [Next]_vars => DrainedIsQuiet'
  BY QuietStep
<1> QED BY <1>1, <1>2, ActivityInvariant, PTL DEF Spec

\* A Project that is gone has no run left and gets none, from no request admitted before.
THEOREM ActivityGoneIsEmpty == Spec => []GoneIsEmpty
<1>1. Init => GoneOK
  BY DEF Init, GoneOK, GoneIsEmpty
<1>2. ActivityOK /\ GoneOK /\ [Next]_vars => GoneOK'
  BY GoneStep
<1>3. GoneOK => GoneIsEmpty
  BY DEF GoneOK
<1> QED BY <1>1, <1>2, <1>3, ActivityInvariant, PTL DEF Spec

\* The runs, with their lock, timer, Sessions, stops, crashes and deletions, keep the ledger.
THEOREM ActivityKeepsLedger == Spec => KeepsLedger
<1>1. Init => Ledger!Init
  BY DEF Init, Ledger!Init
<1>2. ActivityOK /\ [Next]_vars => [Ledger!Next]_(Ledger!ledger)
  BY LedgerStep
<1> QED BY <1>1, <1>2, ActivityInvariant, PTL DEF Spec, KeepsLedger, Ledger!Spec
=============================================================================
