\* Two processes, batches that may be claimed while they work, one fault.
SPECIFICATION FairSpec
CONSTANTS
  Msg = {"hello", "answer"}
  Conv = {"chat", "note"}
  Shape <- MCShape
  Sends = 1
  Process = {"p", "q"}
  BatchSize = 2
  SlowBatches = TRUE
  MaxFaults = 1
INVARIANTS TypeOK OneMessagePerSeq AckedIsPublished PublishedIsSaved
PROPERTIES EventuallyDelivered
CHECK_DEADLOCK FALSE
