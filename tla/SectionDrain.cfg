\* Two batches, so that one can hold up the other, and two overlapping drains.
\* The second batch's equivalence is malformed, the first's may be another's.
CONSTANTS
  LastBatch = 2
  Malformed = {2}
  p1 = p1
  p2 = p2
  Task = {p1, p2}
  None = None
SPECIFICATION FairSpec
CHECK_DEADLOCK FALSE
INVARIANTS
  CompletedApplied
PROPERTIES
  NeverRequeued
  BatchesSettle
