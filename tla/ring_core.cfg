CONSTANTS
  Clients = {c1, c2, c3}
  Server = server
  MAXSIZE = 3
  Iterations = 2
  SpuriousWakeups = FALSE
SPECIFICATION FairSpec
INVARIANTS CallersBalance UnreadRepliesKept PendingHasCaller
PROPERTY ServerDrains
CHECK_DEADLOCK FALSE
