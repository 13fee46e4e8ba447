SPECIFICATION ProcessAndLoadSpec
CONSTANTS
    Runs = {"r1", "r2"}
    Docs = {"a", "b"}
    InputDocs <- SharedDocs
    Revs <- DocRevs
    Verdict <- MixedVerdict
    Workers = {w1, w2}
    Faults = {"write", "crash", "lock", "rights", "raw"}
    MaxFaults = 1
    Logics = {1, 2}
    None = None
INVARIANTS
    CertifiedIsWhole
    AssemblyIsUniform
PROPERTIES
    ReplaysAgree
    RunsGetLoaded
