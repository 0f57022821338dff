CONSTANTS
  Procs = {p1, p2}
  BSIZE = 2
  NDIRECT = 1
  nmeta = 2
  FSSIZE = 9
  MaxChunk = 3
  UINT = 8
  FileOf <- OpenFiles
  Contents0 <- Image
  WriteSizes = {1, 4}
  ReadSizes = {2}
  Seeks <- SomeSeeks
  Values = {5}
  MaxOps = 3
SPECIFICATION Spec
SYMMETRY Symmetry
INVARIANTS BlocksOwned HoldsWritten SharedOffset
PROPERTIES ReadsAllocateNothing
CHECK_DEADLOCK FALSE
