CONSTANTS
  Clients = {c1, c2}
  Server = server
  MAXSIZE = 2
  Iterations = 2
  SpuriousWakeups = FALSE
SPECIFICATION Spec
SYMMETRY Symmetry
INVARIANT AnswersMatchRequests
CHECK_DEADLOCK FALSE
