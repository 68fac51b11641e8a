CONSTANTS
  Procs = {p1}
  Segs = {s1,s2}
  Addrs = {a1,a2}
  NULL = NULL
  Shared = Shared
  Garbage = Garbage
  LogIt = LogIt
  Values = {0, 1}
  Sizes = {1}
  MAXSEGS = 2
  MAXRANGES = 2
  AddressReuse = TRUE
SPECIFICATION Spec
SYMMETRY Symmetry
INVARIANTS TypeOK TableAgrees WaiterHoldsNothing
PROPERTY StoreSpec
CHECK_DEADLOCK FALSE
