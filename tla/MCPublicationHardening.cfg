CONSTANTS
  Requests <- MCRequests
  Owner = Owner
  Others = {p1}
  MaxAttempts = 2
  MaxMoves = 1
  MaxFaults = 2
  NoRun = NoRun
  NoDispatch = NoDispatch
SPECIFICATION Spec
INVARIANTS
  EvidenceMeansRetired
  OnlyTheOwnerRuns
PROPERTIES
  RetiresHardened
  EveryRunEnds
  EventuallyRetired
CHECK_DEADLOCK FALSE
