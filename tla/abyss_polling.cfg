SPECIFICATION Spec

CONSTANTS
  c1 = c1
  c2 = c2
  Conns = {c1, c2}
  MAX_CONN = 1
  Builds = {"polling"}
  Failures = {}

PROPERTIES
  ConnectionIsClosed

CHECK_DEADLOCK FALSE
