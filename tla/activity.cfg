\* Two runs of any kind, any number of changes between two contents, one stop, swap or crash.
SPECIFICATION Spec
CONSTANTS
    Runs = {r1, r2}
    Kinds <- AnyKind
    Contents = {Blank, Other}
    Blank = Blank
    NoRun = NoRun
    MaxRestarts = 1
SYMMETRY Symmetry
INVARIANTS
    TypeOK OneRunning NoLostEdit TakenIsRecorded NoneLeftWorking DrainedIsQuiet GoneIsEmpty
PROPERTIES
    KeepsLedger
CHECK_DEADLOCK FALSE
