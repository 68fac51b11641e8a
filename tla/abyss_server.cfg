SPECIFICATION Spec

CONSTANTS
  c1 = c1
  c2 = c2
  c3 = c3
  Conns = {c1, c2, c3}
  MAX_CONN = 2
  Builds = {"pthread", "fork"}
  Failures = {"accept", "peer", "thread"}

INVARIANTS
  TypeOK
  InUseIsAllocated
  ClosedOnce
  ListIsOutstanding

PROPERTIES
  ConnectionIsClosed
  TerminationReturns
  PoolSpec

CHECK_DEADLOCK FALSE
