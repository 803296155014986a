CONSTANTS
  LongSizes = {4, 8}
  Headers <- SomeHeaders
  Bodies <- TwoBodies
  Junk <- SomeJunk
SPECIFICATION Spec
INVARIANTS
  StreamModelIsRight
  PayloadRoundTrips
CHECK_DEADLOCK FALSE
