\* One process, one fault: a notification stored in two conversations, one
\* stored only as a notification, and the read receipt of a group.
SPECIFICATION Spec
CONSTANTS
  Msg = {"friend","greet","read"}
  Conv = {"chat", "note"}
  Shape <- MCShape
  Sends = 1
  Process = {"p"}
  BatchSize = 2
  SlowBatches = FALSE
  MaxFaults = 1
INVARIANTS RetryKeepsSeq PushedIsStored ReadWithinMax NumberedInOrder
CHECK_DEADLOCK FALSE
