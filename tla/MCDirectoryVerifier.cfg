CONSTANTS
  app = app
  site = site
  other = other
  old = old
  new = new
  account = account
  tag = tag
  v1 = v1
  v2 = v2
  v3 = v3
  ann = ann
  bob = bob
  k0 = k0
  k1 = k1
  k2 = k2
  rules = rules
  terms = terms
  keyA = keyA
  keyB = keyB
  NoEnd = NoEnd
  Null = Null
  TokenEarly = 1
  TokenLate = 1
  Body <- MCBody
  SoundRecords <- MCSoundRecords
  Pools <- MCPools
  Policy <- MCPolicy
  Expected <- MCExpected
  Key <- k1
  MaxSequence = 2
  MaxPublished = 2
  NoHead = NoHead
  NoCall = NoCall
  NoAnswer = NoAnswer
SPECIFICATION Spec
INVARIANTS
  CurrentListIsWitnessed
  AcceptedListIsExact
  SoundRecordsAccepted
  AcceptedRecordsBelongTogether
CHECK_DEADLOCK FALSE
