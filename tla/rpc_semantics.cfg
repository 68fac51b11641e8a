CONSTANTS
  N = 4
  Unreported = Unreported
  SpuriousWakeups = FALSE
  LocalFaults = TRUE
SPECIFICATION Spec
INVARIANTS CountsAnswers
PROPERTY SemanticsSpec
CHECK_DEADLOCK FALSE
