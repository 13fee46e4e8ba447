SPECIFICATION FairSpec
CONSTANTS
    MaxRefresh = 1
    MaxFaults = 2
    NArtifacts = 2
    MaxRollouts = 2
    Bundles = {"additive", "routine", "reader", "performance"}
    NPublic = 2
    MaxDeployed = 3
    Deployers = {"reconcile", "jobkorea"}
    Kinds = {"fenced", "plain"}
INVARIANTS
    WholeUnlessFenced
    AdapterAfterWorkflows
PROPERTIES
    RollbackLosesNothing
    RolloutsEnd
CHECK_DEADLOCK FALSE
