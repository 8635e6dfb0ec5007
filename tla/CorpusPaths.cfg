SPECIFICATION Spec
CONSTANTS
  Paths = {p1, p2}
  Requests = {q1, q2}
  MaxRows = 5
  MaxDocs = 3
  p1 = p1
  p2 = p2
  q1 = q1
  q2 = q2
SYMMETRY Symmetry
INVARIANTS
  VersionsFollowContent
  OnePlace
PROPERTIES
  ActsAsFiles
