\* A reader and a sleeper on two CPUs, a keyboard and a clock.
SPECIFICATION Spec
CONSTANTS
    CPUs = {1, 2}
    Procs = {11, 12}
    Locks = {"ptable", "cons", "tickslock"}
    NULL = 0
    INPUT_BUF = 2
    UINT = 4
    MaxTraps = 2
    COLS = 2
    ROWS = 3
    Keys <- SomeKeys
    ReadSizes = {2}
    SleepTicks = {1}
    Workloads <- SomeWork
CHECK_DEADLOCK FALSE
INVARIANTS NoKernelPanic NoSpinCycle RingIsQueue RingNeverStuck NoMissedWakeup
