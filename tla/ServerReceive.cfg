CONSTANTS
  FlagLen = 2
  HeaderLen = 3
  NPdu = 3
  Start <- StartMixed
  CHUNK = 5
SPECIFICATION FairSpec
INVARIANTS
  TypeOK
  InOrder
  ExactUntilDropped
  ClosedAfterAll
PROPERTIES
  FirstDropIsCutFlag
  ArrivedIsReceived
CHECK_DEADLOCK FALSE
