SPECIFICATION Spec
CONSTANTS
  None = None
  Tasks = {1, 2}
  Providers = {agentic, plain}
  AgentCapable = {agentic}
  Initially = agentic
  MaxOpens = 2
  MaxUpsets = 1
  Ops = {o1, o2}
  Files = {f1}
  Purposes = {p1, p2}
  FirstPurpose = p1
  Dests = {d1}
  MaxEdits = 1
  MaxPreviews = 2
  MaxFlights = 2
  Backends = {b1, b2}
  Governed = {b2}
  MaxNotes = 1
  MaxFaults = 1
  TextLines = {l1, l2, l3}
  MaxTextLines = 3
  MaxTokens = 4
  MaxPayload = 2
  PackPaths = {1, 2, 3, 4}
  PathClass <- Classes
  PathFold <- Keys
  PackReads <- Contents
  MaxCandidates = 3
  MaxPackFiles = 2
  MaxFileBytes = 2
  MaxPackBytes = 3
  MaxEligibleBytes = 5
INVARIANTS
  PatchesAreAccounted
  
  WorkersAreGoverned
  
  SelectionsAreFaithful
PROPERTIES
  
  KeepsPromise
CHECK_DEADLOCK FALSE
