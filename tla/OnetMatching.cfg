SPECIFICATION FairSpec
CONSTANTS
    NPosting = 4
    PilotSize = 1
    BatchSize = 3
    Workers = 2
    Reserve = 2
    Cap = 4
    PilotCap = 3
    Answers = {"ok", "route", "lost", "filtered", "breach"}
    MaxExec = 2
    MaxFaults = 1
    NoCandidates = {4}
    Rejectable = {1}
INVARIANTS SpendWithinCap PaidOnce EdgesArePaidFor
PROPERTIES PlannedIsSettled
CHECK_DEADLOCK FALSE
