CONSTANTS
  Clients = {c1, c2, c3}
  Server = server
  MAXSIZE = 2
  Iterations = 2
  SpuriousWakeups = TRUE
SPECIFICATION Spec
PROPERTY ServiceSpec
CHECK_DEADLOCK FALSE
