\* Writes, listings and edits of a task with an end: everything comes to rest.
SPECIFICATION FairSpec
CONSTANTS
    r1 = r1
    Tick = Tick
    NoFile = NoFile
    Unparsable = Unparsable
    NoRow = NoRow
    NoFire = NoFire
    None = None
    Definitions <- EndingDefinition
    Requests = {r1}
    Kinds = {"write", "list"}
    Events = {"edit"}
    MaxTime = 3
INVARIANTS
    ScanAwaited
PROPERTIES
    QueueDrains
    StateGoes
    SettledLeave
