CONSTANTS
  Procs = {p1, p2}
  Names = {"d", "f", "x"}
  ninodes = 5
  NINODE = 4
  NOFILE = 1
  NFILE = 1
  Workloads <- SomeWork
  MaxCalls = 3
SPECIFICATION Spec
SYMMETRY Symmetry
INVARIANTS InUse RefsAtRest Coherent LinksAtRest Reclaimed
CHECK_DEADLOCK FALSE
