SPECIFICATION Spec
CONSTANTS
  None = None
  p1 = p1
  c1 = c1
  a1 = a1
  Actions = {p1}
  Approvals = {ap1, ap2}
  Decisions = {d1}
  Receipts = {r1, r2}
  Clients = {k1}
  Generations = {0, 1}
  EndKinds = {"Completed"}
  NoteStatuses = {"Streaming", "WaitingForPatchApproval", "Done"}
  Inputs <- MCInputs
  MaxEntries = 7
  MaxCrashes = 1
SYMMETRY Symmetry
INVARIANTS
  ScanAgreesWithProjection
  CachedEndIsHonest
CHECK_DEADLOCK FALSE
