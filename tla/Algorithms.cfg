SPECIFICATION Spec
CONSTANTS
  Limit = 13
  Marker = 5
  Header = 4
  MaxTarget = 1
  MaxDownloads = 3
  NoContent = 0
  TailLines = 2
  DetailSize = 3
  Commits = {c1, c2}
  MinFree = 4
  Slack = 1
INVARIANTS
  NoFalseGreen
  VerdictShown
  RunnerIsFirstFit
  LogCutOnce
  LimitsKept
  LeastRecentFirst
  PartialNotRejected
  PlanOfTheCommit
  ArchiveFaithful
  PhasesAgree
  PreparedFits
  DiagnosisSurvives
  TestsWhatItPrepared
  QuickWithinFull
  RubyPinned
  ExactCommit
  ReserveReached
CHECK_DEADLOCK FALSE
