CONSTANTS
    main = main
    sub = sub
    Proc = {p1, p2}
    Session = {main, sub}
    Stores <- MCStores
    NoSession = NoSession
    NoProc = NoProc
    NoFile = NoFile
    MaxDepth = 2
    MaxStart = 2
    MaxEvent = 2
SPECIFICATION Spec
SYMMETRY Symmetry
INVARIANTS
    TypeOK
    TranscriptKept
    AuditTrail
    ReceiptTruthful
    SweepClears
PROPERTIES
    DeletesProven
    ChildrenSpared
CHECK_DEADLOCK FALSE
