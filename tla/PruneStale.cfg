SPECIFICATION Spec
CONSTANTS
  p1 = p1
  p2 = p2
  p3 = p3
  k1 = k1
  k2 = k2
  d1 = d1
  d2 = d2
  e1 = e1
  None = None
  Bad = Bad
  Procs = {p1, p2}
  Keys = {k1}
  Dests = {d1}
  KeyOf <- OneDest
  Alternatives <- SteadyOneDest
  NumSteps = 1
  CacheModes = {TRUE, FALSE}
  Triggers = {"manual"}
  Seeded = {d1}
  MaxStarts = 2
  MaxCrashes = 0
PROPERTY
  RenewedEvidenceSpared
CHECK_DEADLOCK FALSE
