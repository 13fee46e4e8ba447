SPECIFICATION FairSpec
CONSTANTS
    Sources <- SmallSources
    DefaultSize = 2
    Malformed = {9}
    Odd = {8}
    Unlike = {7}
    Allowed = {0}
    NoLimit = NoLimit
    NoObs = NoObs
    NoReply = NoReply
CHECK_DEADLOCK FALSE
INVARIANTS
    FetchedIsReplayable
    ReadyHasEveryRow
    CleanRunIsExact
    DerivedIsWhole
    ReadyDerives
PROPERTIES
    RunEnds
