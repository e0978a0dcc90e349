SPECIFICATION FairSpec
CONSTANTS
  None = None
  c1 = c1
  c2 = c2
  d1 = d1
  d2 = d2
  e1 = e1
  e2 = e2
  Actions = {c1, c2}
  Approvals = {ap1, ap2, ap3}
  Decisions <- MCDecisions
  Answers = {d1, d2}
  LocalError <- MCLocalError
  Receipts = {r1, r2}
  MaxCrashes = 2
  MaxFaults = 1
INVARIANTS
  AuthorityIsInForce
  
PROPERTIES
  RestartShowsUncertainty
  KeepsPromise
  OperationReturns
CHECK_DEADLOCK FALSE
