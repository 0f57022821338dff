SPECIFICATION FairSpec
CONSTANTS
  CPUs = {c1}
  None = None
  NPROC = 3
  MaxPid = 4
PROPERTIES ZombiesReaped KilledExits
CHECK_DEADLOCK FALSE
