CONSTANTS
  Receivers = {r1, r2}
  MaxCreate = 2
  MaxPdu = 2
  MaxSend = 2
SPECIFICATION Spec
INVARIANTS
  AttachedWhileNeeded
  LoaderIsValid
  AbortsAreExplained
  LocalsBalanced
  QueuedBodiesLive
CHECK_DEADLOCK FALSE
