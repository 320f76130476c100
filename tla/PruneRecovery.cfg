SPECIFICATION Spec
CONSTANTS
  p1 = p1
  p2 = p2
  p3 = p3
  k1 = k1
  k2 = k2
  d1 = d1
  d2 = d2
  e1 = e1
  None = None
  Bad = Bad
  Procs = {p1}
  Keys = {k1}
  Dests = {d1, d2}
  KeyOf <- OneKey
  Alternatives <- SteadyOneKey
  NumSteps = 2
  CacheModes = {TRUE}
  Triggers = {"manual"}
  Seeded = {d1}
  MaxStarts = 4
  MaxCrashes = 2
PROPERTY
  PruneLeavesNoDangling
