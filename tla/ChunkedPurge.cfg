\* The same requests with nothing lost: the purge alone takes the parts away.
CONSTANTS
  p1 = p1
  p2 = p2
  q1 = q1
  q2 = q2
  Part = {p1, p2}
  Name = {1, 2, 3}
  Request = {q1, q2}
  NoPart = NoPart
  MaxCrashes = 0
SPECIFICATION Spec
CHECK_DEADLOCK FALSE
INVARIANTS
  ClaimedPartsKept
