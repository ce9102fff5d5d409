\* The journal's claim checked alone, under the bounds of MCJournal.cfg.
CONSTANTS
    Proc = {p1, p2}
    Entry = {e1, e2, e3}
    Inode = {f1, f2, f3, f4}
    NoProc = NoProc
    NoFile = NoFile
    NoEntry = NoEntry
    MaxCrash = 1
    AtomicWrite = TRUE
SPECIFICATION Spec
SYMMETRY Symmetry
INVARIANT
    ReadAllSkipsTornTail
