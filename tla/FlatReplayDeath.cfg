CONSTANTS
    MaxRefresh = 1
    MaxFaults = 2
    Records = {r1}
    Batches = {b1}
    Backed = {r1, b1}
    MaxApplies = 1
    Revisions = {v1, v2}
    Successors = {s1}
    MaxLoads = 5
    Deadly = {"replay"}
    Runs = {u1}
    MaxDeploys = 1
    Campaigns = {"flat"}
SPECIFICATION FairSpec
PROPERTY InterruptedApplyFinishes
CHECK_DEADLOCK FALSE
