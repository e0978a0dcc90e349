SPECIFICATION Spec
CONSTANTS
  None = None
  Tasks = {1, 2}
  Providers = {agentic, plain}
  AgentCapable = {agentic}
  Initially = plain
  MaxOpens = 1
  MaxUpsets = 1
INVARIANTS
  NextTaskUsesNewProvider
CHECK_DEADLOCK FALSE
