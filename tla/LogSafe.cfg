\* Calls that write one block of the two reserved share a log area like the one
\* mkfs makes, NLOG = LOGSIZE, with room for fewer blocks than there are: two
\* calls fill what begin_op hands out, a third waits, a call logs its block
\* again when others are logged, and a block is written again with other
\* contents before and after a crash.
CONSTANTS
  Procs = {p1, p2}
  Blocks = {b1, b2, b3}
  Values = {v1, v2}
  None = None
  MAXOPBLOCKS = 2
  OpBlocks = 1
  LOGSIZE = 4
  NLOG = 4
SPECIFICATION FairSpec
INVARIANTS NoLogPanic QuiescentDurable
PROPERTIES Atomicity SleeperWoken
