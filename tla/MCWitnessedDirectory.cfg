CONSTANTS
  Skew = 1
  MaximumAge = 1
  Drift = 1
  Rotation = 2
  MaxTime = 3
  MaxEntries = 2
  MaxAttempts = 2
  Failures <- MCFailures
  Null = Null
  NoAuthorization = NoAuthorization
SPECIFICATION Spec
INVARIANTS
  CheckpointWasCurrent
  AcceptedOnSuccess
  SoundIssueAccepted
PROPERTIES
  AuditsAgree
CHECK_DEADLOCK FALSE
