CONSTANTS
  MaxLeaves = 8
  MaxRestores = 1
  Idle = Idle
SPECIFICATION Spec
INVARIANTS
  ServedProofIsExact
  ServedProofVerifies
  InclusionIsExact
PROPERTIES
  FollowsOneLog
CHECK_DEADLOCK FALSE
