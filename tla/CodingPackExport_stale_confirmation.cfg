SPECIFICATION Spec
CONSTANTS
  None = None
  Ops = {o1, o2}
  Files = {f1}
  Purposes = {p1, p2}
  FirstPurpose = p1
  Dests = {d1}
  MaxEdits = 2
  MaxPreviews = 2
  MaxFlights = 2
  MaxUpsets = 1
INVARIANTS
  ConfirmationIsCurrent
CHECK_DEADLOCK FALSE
