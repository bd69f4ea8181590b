SPECIFICATION SignalSpec
CONSTANTS
  User = {"a", "b"}
  CallID = {k1, k2}
  RingWait = 2
  RingTTL = 3
  AcceptedTTL = 3
  Conn = {"a1", "b1", "b2"}
  OwnerOf <- MCOwnerOf
  Handler = {h1, h2}
  Sweeper = {s1}
  ExpireBatch = 2
  Faults = {"redis", "reply", "publish", "sign", "crash"}
  MaxCut = 1
INVARIANTS SignalTypeOK OneStory EndTold AnswerTold RingFirst
SYMMETRY Symmetry
