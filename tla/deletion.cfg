CONSTANTS
    MaxUID = 3
    SpecOf <- TwiceThenOther
    Separate <- SeparateSpecs
    MaxFaults = 1
SPECIFICATION FairSpec
INVARIANTS AvailableHasBento
PROPERTIES RequestIsServed OwnedAreCollected
CHECK_DEADLOCK FALSE
