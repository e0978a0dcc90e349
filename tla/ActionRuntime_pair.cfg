SPECIFICATION Spec
CONSTANTS
  None = None
  Actions = {a1, a2, a3}
  Registered = {a1, a2}
  Approvals = {ap1, ap2}
  Decisions = {d1, d2}
  Receipts = {r1, r2}
  FreshReceipts = FALSE
  MaxRuns = 2
SYMMETRY ActionSymmetry
CONSTRAINT UnhandledAlone
INVARIANTS
  EffectsAreOnRecord
  DecisionsNotShared
PROPERTIES
  CancelPrevents
  KeepsPromise
CHECK_DEADLOCK FALSE
