\* A Redis error in the middle of a round of the sweeper.
SPECIFICATION SignalSpec
CONSTANTS
  User = {"a", "b", "c", "d"}
  CallID = {k1, k2}
  RingWait = 2
  RingTTL = 3
  AcceptedTTL = 3
  Conn = {"a1", "b1", "c1", "d1"}
  OwnerOf <- MCOneEach
  Handler = {h1, h2}
  Sweeper = {s1}
  ExpireBatch = 2
  Faults = {"redis"}
  MaxCut = 2
INVARIANT SweepTellsBoth
CHECK_DEADLOCK FALSE
