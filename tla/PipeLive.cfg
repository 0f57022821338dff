SPECIFICATION FairSpec
CONSTANTS
  Readers = {r1}
  Writers = {w1}
  None = None
  Values = {a}
  PIPESIZE = 2
  UINT = 4
  MaxCount = 3
PROPERTY CallReturns
CHECK_DEADLOCK FALSE
