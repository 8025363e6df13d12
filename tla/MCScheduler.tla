----------------------------- MODULE MCScheduler -----------------------------
(* Instances of Scheduler for TLC: one request in flight beside the tick,  *)
(* and the definitions that take turns in the file.                        *)
EXTENDS Scheduler, TLC

CONSTANT r1

OneShot(start) ==
    [start |-> start, period |-> 0, end |-> 0, enabled |-> TRUE, target |-> "bound"]
Periodic(start, end, target) ==
    [start |-> start, period |-> 1, end |-> end, enabled |-> TRUE, target |-> target]

\* A task with an end, and one that starts later and opens a Session for each fire.
PeriodicDefinitions == {Periodic(1, 2, "bound"), Periodic(2, 0, "new")}

EndingDefinition == {Periodic(1, 2, "bound")}

OneShotDefinitions == {OneShot(1), OneShot(2)}

MixedDefinitions == {OneShot(1), Periodic(1, 0, "bound")}
=============================================================================
