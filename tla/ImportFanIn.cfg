\* Two documents, two remaps (of one document or of both), two finalizers.
\* An import ends, and may also be lost: the system may stop.
CONSTANTS
  d1 = d1
  d2 = d2
  t1 = t1
  t2 = t2
  f1 = f1
  f2 = f2
  Doc = {d1, d2}
  Task = {t1, t2}
  Finalizer = {f1, f2}
  Importer = Importer
  None = None
  MaxWirings = 2
  MaxInterrupts = 1
  Faulty = TRUE
SPECIFICATION FairSpec
CHECK_DEADLOCK FALSE
INVARIANTS
  AnnotationsOnce
  SettledBeforeWiring
  WiringComplete
  WiredOnce
PROPERTIES
  ImportsSettle
