CONSTANTS
  MaxOpen = 2
  MaxMsg = 1
  Parts = 2
  Fds = {3, 4}
  Addresses = {"good"}
  Overlap = FALSE
SPECIFICATION Spec
INVARIANT PduOnOneSocket
CHECK_DEADLOCK FALSE
