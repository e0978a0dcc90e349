SPECIFICATION Spec
CONSTANTS
    Absent = Absent
    PatchFiles = {f1, f2}
    MaxPatches = 2
    MaxOps = 3
    MaxUpsets = 3
    LastFile = 3
    MaxLength = 2
    MaxScanned = 2
    MaxScannedBytes = 3
    MaxResults = 2
    MaxPage = 2
    MaxPageBytes = 1
    MaxEdits = 1
    ReviewFindings <- Reported
    MaxFindings = 2
    LastNode = 3
    Unknown = 4
    MaxRetries = 1
    MaxReplays = 1
    RegistrySources = {s1, s2}
    EntryIds = {i1, i2}
    EntryVersions = {1, 2}
    MaxEntries = 2
    MaxSyncs = 1
    LastCall = 2
    MaxBodyLines = 3
INVARIANTS
    
    ReportsAreEarned
    
    TraversalsAreSound
    GraphRunsAreSound
CHECK_DEADLOCK FALSE
