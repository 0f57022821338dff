\* Three processes and three blocks share two buffers, one of which may be pinned.
CONSTANTS
  Procs = {p1, p2, p3}
  Blocks = {k1, k2, k3}
  Values = {v1, v2}
  Bufs = {b1, b2}
  None = None
  LOGSIZE = 1
  MaxErrors = 1
SPECIFICATION Spec
SYMMETRY Symmetry
INVARIANTS BcacheInv ReadsLast CleanIsOnDisk BufferAvailable
CHECK_DEADLOCK FALSE
