SPECIFICATION Spec

CONSTANTS
  t1 = t1
  t2 = t2
  r1 = r1
  r2 = r2
  Threads = {t1, t2}
  Rpcs = {r1, r2}
  Failures = {"globalSetup", "setup", "create", "select", "transfer"}
  MaxSetups = 2

INVARIANTS
  TypeOK
  CompletedIsSomewhere
  ReturnLeavesNone
  NothingLeftBehind
  ClientHasConstants
  SyncAnswersOwnCaller

PROPERTIES
  LoopEnds
  CallsSpec
