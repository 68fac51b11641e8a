SPECIFICATION Spec

CONSTANTS
  Scripts <- MCScripts
  BUFFER_SIZE = 8
  keepalivemaxconn = 2
  XML_SIZE_LIMIT = 2

INVARIANTS
  TypeOK
  NothingSkipped
  CallsAreWhole
  EachAnsweredForItself
  ToldWhatHappens

PROPERTIES
  SentIsAnswered
  RpcSpec

CHECK_DEADLOCK FALSE
