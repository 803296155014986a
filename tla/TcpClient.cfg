CONSTANTS
  MaxOpen = 2
  MaxMsg = 3
  Parts = 2
  Fds = {3, 4}
  Addresses = {"good", "bad"}
  Overlap = TRUE
SPECIFICATION Spec
INVARIANTS
  TypeOK
  SendOrder
  NoSleepOnWork
PROPERTY ImplementsFifo
CHECK_DEADLOCK FALSE
