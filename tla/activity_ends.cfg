\* Two runs that compete for the lock, one of them a helper's, with one stop, swap or crash,
\* under fairness; the draft's content never changes, so no result is refused for it.
SPECIFICATION FairSpec
CONSTANTS
    Runs = {r1, r2}
    Kinds <- AnyAgainstHelper
    Contents = {Blank}
    Blank = Blank
    NoRun = NoRun
    MaxRestarts = 1
PROPERTIES
    RunsEnd RequestsAnswered
CHECK_DEADLOCK FALSE
