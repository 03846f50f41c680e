CONSTANTS
  app = app
  site = site
  old = old
  new = new
  account = account
  tag = tag
  ann = ann
  bob = bob
  k0 = k0
  k1 = k1
  k2 = k2
  rules = rules
  terms = terms
  keyA = keyA
  keyB = keyB
  v1 = v1
  other = other
  spki1 = spki1
  spki2 = spki2
  NoEnd = NoEnd
  Null = Null
  TokenEarly = 1
  TokenLate = 1
  Start <- MCStart
  VotingPolicies <- MCVotingPolicies
  ServerKeys <- MCServerKeys
  IdentityPolicies <- MCIdentityPolicies
  MaxInsertions = 2
  Retirements <- MCRetirements
  Times <- MCTimes
  Records <- MCRecordSet
  Expected <- MCExpected
SPECIFICATION DocumentSpec
INVARIANTS
  SelectionUnambiguous
  SoundDocumentsAccepted
PROPERTY
  OldRecordsKeepTheirMeaning
CHECK_DEADLOCK FALSE
