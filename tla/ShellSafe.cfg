CONSTANTS
  MAXARGS = 3
  NPROC = 6
  MaxLines = 2
  NOFILE = 5
  NFILE = 5
  Lines <- SomeLines
  Readers <- ReaderWords
  Writers <- WriterWords
  Existing <- SomeFiles
SPECIFICATION Spec
INVARIANTS ParsedAsMeant RunsAsMeant ForegroundDone
PROPERTY PromptReturns
CHECK_DEADLOCK FALSE
