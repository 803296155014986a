CONSTANTS
  FlagLen = 2
  HeaderLen = 3
  NPdu = 3
  Start <- StartMixed
  CHUNK = 5
SPECIFICATION Spec
PROPERTY PartialIsKept
CHECK_DEADLOCK FALSE
