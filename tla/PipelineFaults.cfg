\* A chain, one retry of the user, one worker that dies and lost messages.
\* Everything may be finished or lost, so the system may stop.
CONSTANTS
  c1 = c1
  c2 = c2
  Thread = {c1, c2}
  NoCopy = NoCopy
  MaxTries = 1
  MaxCrashes = 1
  MaxRetries = 1
  MayLose = TRUE
SPECIFICATION FairSpec
CHECK_DEADLOCK FALSE
INVARIANTS
  UnlockedParsed
  LockAgrees
  FailedLockedAlone
PROPERTIES
  StuckReclaimed
  DocumentsSettle
