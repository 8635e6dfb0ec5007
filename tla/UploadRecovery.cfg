\* A keyed upload bound to the run and a legacy one, two overlapping drains,
\* two attempts each.  Receipts may all be terminal, so the system may stop.
CONSTANTS
  u1 = u1
  u2 = u2
  p1 = p1
  p2 = p2
  k1 = k1
  k2 = k2
  k3 = k3
  k4 = k4
  None = None
  Upload = {u1, u2}
  Keyed = {u1}
  Bound = {u1}
  Task = {p1, p2}
  Token = {k1, k2, k3, k4}
  MaxAttempts = 2
  BatchSize = 2
SYMMETRY Anonymous
SPECIFICATION Spec
CHECK_DEADLOCK FALSE
INVARIANTS
  OneDocumentPerUpload
  AttemptsAccounted
  KeyedKeepsSource
PROPERTIES
  StoppedRunImportsNothing
  KeepsReceipts
