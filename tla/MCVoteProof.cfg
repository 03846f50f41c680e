CONSTANTS
  n1 = n1
  n2 = n2
  yes = yes
  no = no
  unsure = unsure
  q = q
  voteLog = voteLog
  none = none
  app = app
  site = site
  image = image
  account = account
  tag = tag
  retired = retired
  k1 = k1
  k2 = k2
  checkpoint = checkpoint
  Nullifiers <- MCNullifiers
  Choices <- MCChoices
  CountedChoices <- MCCounted
  Events <- MCEvents
  Receipts <- MCReceipts
  Seals <- MCSeals
  Null <- none
  Context <- q
  LogId <- voteLog
  MaxLeaves = 4
  NoEnd = NoEnd
  Policy <- MCPolicy
  Audience <- app
  Origin <- site
  Manifest <- MCManifest
  Stamps <- MCStamps
  Options <- MCOptions
  TokenEarly = 0
  TokenLate = 1
  WitnessAhead = 1
  NoSession = NoSession
SPECIFICATION SessionSpec
CONSTRAINTS
  AppendedOnce
  OneUnsound
INVARIANTS
  StateMatchesLog
  NoInvalidBallotHidden
  ExitZeroMeansCounted
  ValidBundleIsLogged
CHECK_DEADLOCK FALSE
