SPECIFICATION LoadSpec
CONSTANTS
    Runs = {"r1"}
    Docs = {"a", "b"}
    InputDocs <- SmallDocs
    Revs <- DocRevs
    Verdict <- SmallVerdict
    Workers = {w1}
    Faults = {"crash"}
    MaxFaults = 1
    Logics = {1}
    None = None
PROPERTIES
    LoadsResume
