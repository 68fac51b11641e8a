CONSTANTS
  Procs = {p1}
  Segs = {s1}
  Addrs = {a1, a2}
  NULL = NULL
  Shared = Shared
  Garbage = Garbage
  LogIt = LogIt
  Values = {0, 1}
  Sizes = {1, 2}
  MAXSEGS = 2
  MAXRANGES = 3
  AddressReuse = TRUE
SPECIFICATION Spec
SYMMETRY Symmetry
INVARIANTS DiskAsPromised MemoryAgrees
PROPERTY StoreSpec
CHECK_DEADLOCK FALSE
