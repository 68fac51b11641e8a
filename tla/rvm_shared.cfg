CONSTANTS
  Procs = {p1, p2}
  Segs = {s1}
  Addrs = {a1}
  NULL = NULL
  Shared = Shared
  Garbage = Garbage
  LogIt = LogIt
  Values = {0, 1}
  Sizes = {1, 2}
  MAXSEGS = 1
  MAXRANGES = 1
  AddressReuse = TRUE
SPECIFICATION Spec
SYMMETRY Symmetry
PROPERTY StoreSpec
CHECK_DEADLOCK FALSE
