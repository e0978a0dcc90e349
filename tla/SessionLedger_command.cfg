SPECIFICATION Spec
CONSTANTS
  None = None
  p1 = p1
  c1 = c1
  a1 = a1
  Actions = {c1}
  Approvals = {ap1, ap2}
  Decisions = {d1, d2}
  Receipts = {r1}
  Clients = {k1}
  Generations = {0, 1}
  EndKinds = {"Completed"}
  NoteStatuses = {None, "Streaming"}
  Inputs <- MCInputs
  MaxEntries = 8
  MaxCrashes = 1
SYMMETRY Symmetry
INVARIANTS
  StartAuthorised
  SettlementMatchesStart
  GenerationCountsRestarts
PROPERTIES
  RecoverySettles
CHECK_DEADLOCK FALSE
