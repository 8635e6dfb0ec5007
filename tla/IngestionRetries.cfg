\* One target, one text of cost 2, two attempts, two workers; ceilings that pay
\* one attempt (3) and two (5), so a retry exhausts the budget until a raise.
CONSTANTS
  t1 = t1
  t2 = t2
  a = a
  b = b
  w1 = w1
  w2 = w2
  None = None
  Target = {t1}
  Text = {a}
  Cost <- MCOneText
  Faults = {"foreign", "unreadable"}
  DrainBatch = 1
  MaxAttempts = 2
  Ceilings = {3, 5}
  Worker = {w1, w2}
SYMMETRY Workers
SPECIFICATION Spec
INVARIANTS
  TypeOK
  LedgerBalanced
  SpendCovered
  OneCallPerReservation
  RowsAgree
  CancelledRunDrained
PROPERTIES
  OnlyCurrentAttemptPublishes
  CancellationFinal
