\* One target edited between two texts, so two operations of cost 1 compete for a
\* ceiling that pays one: a reservation can be outstanding while the run is
\* BUDGET_EXHAUSTED, and its target can be unreadable for a while.
CONSTANTS
  t1 = t1
  t2 = t2
  a = a
  b = b
  w1 = w1
  w2 = w2
  None = None
  Target = {t1}
  Text = {a, b}
  Cost <- MCUnitCost
  MaxAttempts = 1
  DrainBatch = 1
  Faults = {"unreadable"}
  Ceilings = {1}
  Worker = {w1}
SPECIFICATION FairSpec
INVARIANTS
  WithinCeiling
  ActiveRunAdmits
PROPERTIES
  PublishedIsCurrent
  ReservationsServed
