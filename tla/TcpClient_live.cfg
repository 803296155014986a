CONSTANTS
  MaxOpen = 3
  MaxMsg = 2
  Parts = 2
  Fds = {3, 4}
  Addresses = {"good", "bad"}
  Overlap = FALSE
SPECIFICATION FairSpec
INVARIANT OpenSocketHasThread
PROPERTIES
  QueueIsEmptied
  SendReturns
  EndedRunEnds
CHECK_DEADLOCK FALSE
