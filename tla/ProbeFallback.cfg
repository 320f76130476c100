SPECIFICATION FairSpec
CONSTANTS
  p1 = p1
  p2 = p2
  p3 = p3
  k1 = k1
  k2 = k2
  d1 = d1
  d2 = d2
  e1 = e1
  None = None
  Bad = Bad
  Procs = {p1, p2}
  Keys = {k1, k2}
  Dests = {d1, d2, e1}
  KeyOf <- TwoRunners
  Alternatives <- Fallback
  NumSteps = 2
  CacheModes = {TRUE}
  Triggers = {}
  Seeded = {}
  MaxStarts = 3
  MaxCrashes = 1
INVARIANTS
  PassEvidenceWhole
  CachedAnswerProven
  IndexNeverDangles
PROPERTY
  CommandsEnd
