\* Two children of init compete for the pages of a small machine.
SPECIFICATION Spec
CONSTANTS
    Procs = {1, 2, 3}
    PGSIZE = 32
    NPTENTRIES = 2
    KERNBASE = 128
    UINT = 256
    end = 1000
    KINIT = 1200
    PHYSTOP = 1600
    MAXARG = 2
    Sbrks <- Increments
    Programs <- SomePrograms
    Argvs <- SomeArgvs
CHECK_DEADLOCK FALSE
INVARIANTS PagesConserved SizeMapped ArgumentsMapped
