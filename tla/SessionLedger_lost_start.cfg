SPECIFICATION Spec
CONSTANTS
  None = None
  p1 = p1
  c1 = c1
  a1 = a1
  Actions = {p1}
  Approvals = {ap1}
  Decisions = {d1}
  Receipts = {r1}
  Clients = {k1, k2}
  NoteStatuses = {None, "Streaming"}
  Generations = {0}
  EndKinds = {"Completed"}
  Inputs <- MCInputs
  MaxEntries = 6
  MaxCrashes = 0
INVARIANTS
  StartedEvidenceStaysVisible
CHECK_DEADLOCK FALSE
