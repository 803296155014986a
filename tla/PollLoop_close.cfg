CONSTANTS
  Conn = {c1}
  Fds = {1, 2, 3}
  ListenFd = 1
  MAX_EVENTS = 2
  MaxHeld = 1
  Listen = Listen
  Other = Other
  Free = Free
SPECIFICATION Spec
INVARIANT SecondCloseClosesNothing
CHECK_DEADLOCK FALSE
