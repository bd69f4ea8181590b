\* A client that sends again before the first copy is numbered: both copies in one batch.
SPECIFICATION Spec
CONSTANTS
  Msg = {"hello"}
  Conv = {"chat", "note"}
  Shape <- MCShape
  Sends = 2
  Process = {"p"}
  BatchSize = 2
  SlowBatches = FALSE
  MaxFaults = 0
INVARIANT OneRowPerMessage
CHECK_DEADLOCK FALSE
