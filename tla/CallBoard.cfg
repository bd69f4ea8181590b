SPECIFICATION TimedSpec
CONSTANTS
  User = {a, b, c}
  CallID = {c1, c2, c3}
  RingWait = 1
  RingTTL = 2
  AcceptedTTL = 3
INVARIANTS TypeOK LockAgreement RingingIndexed
PROPERTIES ExclusiveCalls LocksExpire
