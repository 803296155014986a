CONSTANTS
  FlagLen = 2
  HeaderLen = 3
  NPdu = 4
  Start <- StartSmall
  BUFF_MAX = 10
  BUFF_LENGTH = 6
SPECIFICATION FairSpec
INVARIANTS
  TypeOK
  NextReadFits
  ExactDelivery
PROPERTIES
  ImplementsInOrderDelivery
  ArrivedIsReceived
CHECK_DEADLOCK FALSE
