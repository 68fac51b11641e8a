SPECIFICATION Spec

CONSTANTS
  t1 = t1
  r1 = r1
  Threads = {t1}
  Rpcs = {r1}
  Failures = {"transfer"}
  MaxSetups = 1

INVARIANTS
  FailureIsTold
