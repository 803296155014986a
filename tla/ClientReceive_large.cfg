CONSTANTS
  FlagLen = 2
  HeaderLen = 3
  NPdu = 3
  Start <- StartLarge
  BUFF_MAX = 7
  BUFF_LENGTH = 3
SPECIFICATION Spec
INVARIANTS
  InOrder
CHECK_DEADLOCK FALSE
PROPERTY ResyncOnlyByOverflow
