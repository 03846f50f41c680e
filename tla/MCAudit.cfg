CONSTANTS
  n1 = n1
  n2 = n2
  yes = yes
  no = no
  unsure = unsure
  q = q
  voteLog = voteLog
  none = none
  Nullifiers <- MCNullifiers
  Choices <- MCChoices
  CountedChoices <- MCCounted
  Events <- MCEvents
  Receipts <- MCReceipts
  Null <- none
  Context <- q
  LogId <- voteLog
  MaxLeaves = 6
  NoReport = NoReport
  NoHead = NoHead
  Seals <- MCSeals
SPECIFICATION Spec
CONSTRAINT OneWorld
INVARIANTS
  TypeOK
  ReportIsTipVotes
  ReportCoversSoundPrefix
  ReportWithinWitness
PROPERTIES
  ReportNeverRollsBack
  KeepsPromise
  SupersededForGood
CHECK_DEADLOCK FALSE
