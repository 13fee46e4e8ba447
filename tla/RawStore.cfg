SPECIFICATION StoreFairSpec
CONSTANTS
    Writers = {w1, w2, w3}
    Faults = {"kill", "power", "disk"}
    MaxFaults = 3
INVARIANTS
    RecordedIsStored
PROPERTIES
    ContentIsStored
