\* Fairness of Beat and of running tasks; a bound and a legacy upload share
\* batches of one, so either can hold up the other.
CONSTANTS
  u1 = u1
  u2 = u2
  p1 = p1
  p2 = p2
  k1 = k1
  k2 = k2
  k3 = k3
  k4 = k4
  None = None
  Upload = {u1, u2}
  Keyed = {u1}
  Bound = {u1}
  Task = {p1}
  Token = {k1, k2, k3}
  MaxAttempts = 2
  BatchSize = 1
SPECIFICATION FairSpec
CHECK_DEADLOCK FALSE
PROPERTIES
  UploadsSettle
