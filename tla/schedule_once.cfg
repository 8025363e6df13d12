\* Two periodic definitions, edits, restarts, failures, listings and deletions beside the tick.
SPECIFICATION Spec
CONSTANTS
    r1 = r1
    Tick = Tick
    NoFile = NoFile
    Unparsable = Unparsable
    NoRow = NoRow
    NoFire = NoFire
    None = None
    Definitions <- PeriodicDefinitions
    Requests = {r1}
    Kinds = {"list", "delete"}
    Events = {"edit", "stop", "failures", "sessionDeleted"}
    MaxTime = 3
INVARIANTS
    TypeOK
    SentOnce
