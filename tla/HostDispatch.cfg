SPECIFICATION FairSpec
CONSTANTS
    Keys = {k1, k2}
    Requests = {q1, q2}
    Workers = {w1, w2}
    Clients = {c1}
    Nobody = Nobody
    MaxFaults = 2
INVARIANTS
    SingleExecution
    AckedJobKept
PROPERTIES
    NothingReopens
    ImplementsSerialExecutor
    QueuedIsSettled
