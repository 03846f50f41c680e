CONSTANTS
  v1 = v1
  v2 = v2
  p1 = p1
  p2 = p2
  yes = yes
  no = no
  unsure = unsure
  none = none
  Voters <- MCVoters
  Choices <- MCChoices
  CountedChoices <- MCCounted
  Positions <- MCPositions
  Order <- MCOrder
  Rows <- MCRows
  Initial <- MCInitial
  Policies <- MCPolicies
  BoundPolicy <- Overlapping
  Collation <- MCCollation
  ServiceLocale = "en"
  AuditorLocales <- English
  Units = 1
  Precision = 10
  Scale = 12
  MaxChanges = 3
  NoVote = NoVote
  Null <- none
  NoSnapshot = NoSnapshot
  NoReport = NoReport
SPECIFICATION Spec
INVARIANTS
  TotalsReconcile
  PercentagesAreFaithful
  RuleOrderIsIrrelevant
  VerifiedUnderBoundPolicy
PROPERTIES
  ChannelsAreIndependent
CHECK_DEADLOCK FALSE
