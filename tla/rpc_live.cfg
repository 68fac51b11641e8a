CONSTANTS
  N = 3
  Unreported = Unreported
  SpuriousWakeups = TRUE
  LocalFaults = TRUE
SPECIFICATION FairSpec
INVARIANTS TypeOK ReportIsFinal
PROPERTY WaiterIsWoken
CHECK_DEADLOCK FALSE
