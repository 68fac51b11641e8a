CONSTANTS
  Clients = {c1}
  Server = server
  MAXSIZE = 1
  Iterations = 1
  SpuriousWakeups = FALSE
SPECIFICATION FairSpec
PROPERTY ReplyReachesCaller
CHECK_DEADLOCK FALSE
