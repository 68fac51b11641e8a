CONSTANTS
  Procs = {p1}
  Segs = {s1}
  Addrs = {a1}
  NULL = NULL
  Shared = Shared
  Garbage = Garbage
  LogIt = LogIt
  Values = {0, 1}
  Sizes = {2}
  MAXSEGS = 1
  MAXRANGES = 2
  AddressReuse = FALSE
SPECIFICATION Spec
SYMMETRY Symmetry
INVARIANT CommitAtomic
CHECK_DEADLOCK FALSE
