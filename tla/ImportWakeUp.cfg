\* The same, with nothing going wrong: the race alone loses the import.
CONSTANTS
  d1 = d1
  d2 = d2
  t1 = t1
  t2 = t2
  f1 = f1
  f2 = f2
  Doc = {d1, d2}
  Task = {t1, t2}
  Finalizer = {f1, f2}
  Importer = Importer
  None = None
  MaxWirings = 2
  MaxInterrupts = 0
  Faulty = FALSE
SPECIFICATION FairSpec
CHECK_DEADLOCK FALSE
INVARIANTS
  WakeUpKept
