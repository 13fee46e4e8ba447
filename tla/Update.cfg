SPECIFICATION FairSpec
CONSTANTS
    Order <- Chain
    Dep <- ChainDep
    Ticks = {t1, t2}
    Configs = {1, 2}
    Interval = 2
    Retry = 1
    Faults = {"fetch", "process", "write", "crash", "config", "early", "lock", "ack", "delay"}
    MaxFaults = 2
    None = None
INVARIANTS
    NoOverlap
    ReadyRestsOnItsConfig
PROPERTIES
    NeverCertifiedTwice
    FetchNotWasted
    EverySourceRefreshed
