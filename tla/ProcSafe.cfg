SPECIFICATION Spec
CONSTANTS
  CPUs = {c1, c2}
  None = None
  NPROC = 3
  MaxPid = 4
SYMMETRY CpuSymmetry
INVARIANTS OneCpu StackSafe NoMissedExit ParentAlive
CHECK_DEADLOCK FALSE
