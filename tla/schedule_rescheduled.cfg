\* A one-shot with a queued fire gets a new start.
SPECIFICATION Spec
CONSTANTS
    r1 = r1
    Tick = Tick
    NoFile = NoFile
    Unparsable = Unparsable
    NoRow = NoRow
    NoFire = NoFire
    None = None
    Definitions <- OneShotDefinitions
    Requests = {r1}
    Kinds = {}
    Events = {"edit"}
    MaxTime = 2
INVARIANTS
    DoneWhenDue
