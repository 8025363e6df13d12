\* Compaction by discarding, with a stop hook that continues the Task.
SPECIFICATION Spec
CONSTANTS
    i1 = i1
    i2 = i2
    i3 = i3
    Inputs = {i1, i2}
    Images = {}
    Setups <- LossySetups
INVARIANTS
    NoneVanishes
