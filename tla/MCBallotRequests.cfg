CONSTANTS
  n1 = n1
  n2 = n2
  q1 = q1
  q2 = q2
  voteLog = voteLog
  none = none
  Voters <- MCVoters
  Drafts <- MCDrafts
  IdOrder <- MCIdOrder
  Locales <- MCLocales
  LogId <- voteLog
  Null <- none
  MaxManifests = 2
  MaxRequests = 2
  MaxEvents = 2
  NoTally = NoTally
SPECIFICATION Spec
INVARIANTS
  ShownIsCounted
  LastWordCounts
  TranslationsTallyTogether
CHECK_DEADLOCK FALSE
