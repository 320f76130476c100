SPECIFICATION Spec
CONSTANTS
  p1 = p1
  p2 = p2
  nodeModules = nodeModules
  support = support
  cargo = cargo
  None = None
  Procs = {p1, p2}
  Volumes = {nodeModules}
  Dirs = {cargo}
  StepNeeds <- DirOrVolume
  Rank <- ByName
  Labelled = TRUE
  Deaths = {"kill"}
  MaxSteps = 2
  MaxPrunes = 1
  MaxDeaths = 1
SYMMETRY ProcSymmetry
PROPERTIES
  RetryClean
  FailureLeavesClean
