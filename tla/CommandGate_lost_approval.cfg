SPECIFICATION Spec
CONSTANTS
  None = None
  c1 = c1
  c2 = c2
  d1 = d1
  d2 = d2
  e1 = e1
  e2 = e2
  Actions = {c1}
  Approvals = {ap1, ap2}
  Decisions <- MCDecisions
  Answers = {d1}
  LocalError <- MCLocalError
  Receipts = {r1}
  MaxCrashes = 1
  MaxFaults = 0
INVARIANTS
  RecordedApprovalIsInForce
CHECK_DEADLOCK FALSE
