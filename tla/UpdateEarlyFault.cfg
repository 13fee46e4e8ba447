SPECIFICATION Spec
CONSTANTS
    Order <- Single
    Dep <- SingleDep
    Ticks = {t1}
    Configs = {1}
    Interval = 2
    Retry = 1
    Faults = {"early"}
    MaxFaults = 1
    None = None
PROPERTIES
    DueIsFetched
