SPECIFICATION Spec
CONSTANTS
  Readers = {r1}
  Writers = {w1, w2}
  None = None
  Values = {a, b}
  PIPESIZE = 2
  UINT = 4
  MaxCount = 3
SYMMETRY Symmetry
INVARIANTS NoLostWakeupUnlessKilled NoUseAfterFree
PROPERTIES FirstInFirstOut ShortCount
CHECK_DEADLOCK FALSE
