\* The server is stopped while a task comes due.
SPECIFICATION Spec
CONSTANTS
    r1 = r1
    Tick = Tick
    NoFile = NoFile
    Unparsable = Unparsable
    NoRow = NoRow
    NoFire = NoFire
    None = None
    Definitions <- MixedDefinitions
    Requests = {r1}
    Kinds = {}
    Events = {"stop"}
    MaxTime = 2
PROPERTIES
    NotMadeUp
