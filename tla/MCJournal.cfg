\* Two processes, each running command after command, and three appends.
\* Four inodes: the first journal file and one for each repair.
CONSTANTS
    Proc = {p1, p2}
    Entry = {e1, e2, e3}
    Inode = {f1, f2, f3, f4}
    NoProc = NoProc
    NoFile = NoFile
    NoEntry = NoEntry
    MaxCrash = 1
    AtomicWrite = TRUE
SPECIFICATION FairSpec
INVARIANTS
    TypeOK
    LossIsReported
    SteadyStateAppend
PROPERTIES
    RepairDropsOnlyUnseen
    OpenCompletes
