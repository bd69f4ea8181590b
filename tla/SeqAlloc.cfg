SPECIFICATION Spec
CONSTANTS
  Worker = {w1, w2, w3}
  MaxBatch = 2
  MaxSeq = 4
  Absent = Absent
INVARIANTS TypeOK Disjoint Remembered
PROPERTIES AtomicMalloc
