CONSTANTS
  Conn = {c1, c2}
  Fds = {1, 2, 3}
  ListenFd = 1
  MAX_EVENTS = 2
  MaxHeld = 1
  Listen = Listen
  Other = Other
  Free = Free
SPECIFICATION FairSpec
INVARIANTS
  TypeOK
  TablesAgree
  EventsAreCurrent
  BufferIsOwn
  SecondCloseSparesServer
PROPERTIES
  BacklogIsAccepted
  EndedIsClosed
CHECK_DEADLOCK FALSE
