SPECIFICATION FairSpec
CONSTANTS
  None = None
  Requests <- MCRequests
  MaxCalls <- MCMaxCalls
  MaxTurns = 4
  MaxTotal = 3
  MaxPatches = 2
INVARIANTS
  NoLostTask
  WorkDoesNotOverlap
  StopsAreHeard
  
PROPERTIES
  DispatchIsAuthorised
  KeepsPromise
  CancelEnds
CHECK_DEADLOCK FALSE
