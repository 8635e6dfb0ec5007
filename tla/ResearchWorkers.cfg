\* One report, two workers and one more message than the first start puts into
\* the queue; two findings, so that one can be lost.  Nothing need be left to do.
CONSTANTS
  Report = {r1}
  w1 = w1
  w2 = w2
  Worker = {w1, w2}
  MaxFindings = 2
  MaxMessages = 2
  None = None
SPECIFICATION FairSpec
CHECK_DEADLOCK FALSE
INVARIANTS
  CleanCompletion
PROPERTIES
  FindingsKept
  RunsEnd
