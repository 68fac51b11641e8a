CONSTANTS
  Procs = {p1, p2}
  Segs = {s1}
  Addrs = {a1}
  NULL = NULL
  Shared = Shared
  Garbage = Garbage
  LogIt = LogIt
  Values = {0}
  Sizes = {1}
  MAXSEGS = 1
  MAXRANGES = 1
  AddressReuse = FALSE
SPECIFICATION Spec
SYMMETRY Symmetry
INVARIANT LockedOut
CHECK_DEADLOCK FALSE
