SPECIFICATION FairSpec
CONSTANTS
  c1 = c1
  c2 = c2
  x1 = x1
  x2 = x2
  Cache = Cache
  None = None
  Checks = {c1, c2}
  Prunes = {x1, x2}
  Failures = 1
  Crashes = 1
INVARIANTS
  HitIsWhole
  DamageNeverFails
  TemporariesGone
PROPERTIES
  RemovedUnderLock
  AllEnd
