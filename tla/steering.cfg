\* Three inputs, one with an image, and every setup but the lossy one.
SPECIFICATION FairSpec
CONSTANTS
    i1 = i1
    i2 = i2
    i3 = i3
    Inputs = {i1, i2, i3}
    Images = {i3}
    Setups <- SafeSetups
INVARIANTS
    TypeOK
    MirrorsQueue
    HandedOverOnce
    NoneVanishes
PROPERTIES
    KeepsPromise
    SteeringAnswered
