CONSTANTS
  Server = {s1, s2}
  Conn = {c1, c2}
  Fds = {1, 2, 3, 4, 5}
  Keys <- const_Keys
  Hashes <- const_Hashes
  HASH_INITIAL_NUM_BUCKETS = 1
  HASH_BKT_CAPACITY_THRESH = 2
SPECIFICATION Spec
INVARIANTS
  TypeOK
  PortIsServed
  TableSound
  TableExact
  RaceIsAtStart
CHECK_DEADLOCK FALSE
