CONSTANTS
    MaxRefresh = 1
    MaxFaults = 2
    Records = {r1}
    Batches = {b1}
    Backed = {r1, b1}
    MaxApplies = 2
    Revisions = {v1, v2}
    Successors = {s1}
    MaxLoads = 5
    Deadly = {"stage", "finalize"}
    Runs = {u1}
    MaxDeploys = 2
    Campaigns = {"batchfree", "flat", "dates"}
SPECIFICATION FairSpec
INVARIANTS
    RemovalIsFenced
    FlatRemovalIsFenced
    ReadersSeeFlatGraph
    ExposureIsOnRecord
PROPERTY FencesLift
CHECK_DEADLOCK FALSE
