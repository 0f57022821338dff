CONSTANTS
  Procs = {p1, p2}
  Names = {"d", "f", "x"}
  ninodes = 5
  NINODE = 4
  NOFILE = 1
  NFILE = 1
  Workloads <- SomeWork
  MaxCalls = 2
SPECIFICATION Spec
SYMMETRY Symmetry
INVARIANT NoDeadlock
CHECK_DEADLOCK FALSE
