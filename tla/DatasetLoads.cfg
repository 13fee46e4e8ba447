SPECIFICATION FairSpec
CONSTANTS
    Releases = {1, 2}
    MaxLoads = 2
    NChunk = 2
    MaxFaults = 1
    MaxWork = 1
INVARIANTS
    TornGraphIsRecoverable
    ReadyIsWhole
    InputsShareProvenance
PROPERTIES
    LiftedOnlyVerified
    InputsAreFrozen
CHECK_DEADLOCK FALSE
