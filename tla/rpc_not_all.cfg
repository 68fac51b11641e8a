CONSTANTS
  N = 2
  Unreported = Unreported
  SpuriousWakeups = FALSE
  LocalFaults = FALSE
SPECIFICATION Spec
INVARIANT AllMeansAll
CHECK_DEADLOCK FALSE
