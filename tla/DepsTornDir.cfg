SPECIFICATION Spec
CONSTANTS
  p1 = p1
  p2 = p2
  nodeModules = nodeModules
  support = support
  cargo = cargo
  None = None
  Procs = {p1, p2}
  Volumes = {}
  Dirs = {cargo}
  StepNeeds <- RustSteps
  Rank <- ByName
  Labelled = TRUE
  Deaths = {"stop"}
  MaxSteps = 2
  MaxPrunes = 1
  MaxDeaths = 1
INVARIANT
  TestOnWhole
