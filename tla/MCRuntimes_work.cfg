SPECIFICATION Spec
CONSTANTS
    Nil = Nil
    HarnessCalls = {c1, c2}
    Turns = {t1}
    TurnOf <- OneTurn
    Results = {r1, r2}
    MaxLog = 3
    MaxBreaches = 1
    MaxUpsets = 1
    Starts = {s1, s2}
    ToolCalls = {c1}
    Submits = {d1, d2}
    MaxSequence = 2
    Nodes = {1, 2, 3}
    Unknown = 4
    MaxRetries = 1
    MaxReplans = 1
    TaskRuns = {r1, r2}
    Chunks = 2
    CommandCalls = {k1, k2}
    Versions = {v1, v2}
    Cargo = TRUE
    MaxEdits = 2
    Callers = {k1, k2}
    Lifetime = 2
    MaxLifetime = 3
    Skew = 1
    MaxTime = 3
    MaxSetbacks = 1
    Instances = {w1, w2}
    MaxAsks = 2
    MaxPythonCrashes = 1
    MaxFailures = 2
    OldEntries <- PatchEntries
INVARIANTS
    
    
    RecordsAreFollowed
PROPERTIES
    KeepsContract
    SettledCallsStay
    
CHECK_DEADLOCK FALSE
