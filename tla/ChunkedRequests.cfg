\* Two parts, two requests at once, one of them or a purge may die.
CONSTANTS
  p1 = p1
  p2 = p2
  q1 = q1
  q2 = q2
  Part = {p1, p2}
  Name = {1, 2, 3}
  Request = {q1, q2}
  NoPart = NoPart
  MaxCrashes = 1
SPECIFICATION Spec
CHECK_DEADLOCK FALSE
SYMMETRY Requests
INVARIANTS
  ImportedOnce
  ImportedWhole
  PartsBacked
