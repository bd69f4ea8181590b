\* A read receipt whose list does not end with its greatest number.
SPECIFICATION Spec
CONSTANTS
  Msg = {"hello", "skim"}
  Conv = {"chat", "note"}
  Shape <- MCShape
  Sends = 1
  Process = {"p"}
  BatchSize = 2
  SlowBatches = FALSE
  MaxFaults = 0
INVARIANT ReadWithinMax
CHECK_DEADLOCK FALSE
