CONSTANTS
    main = main
    sub = sub
    Proc = {p1, p2}
    Session = {main, sub}
    Stores <- MCStores
    NoSession = NoSession
    NoProc = NoProc
    NoFile = NoFile
    MaxDepth = 2
    MaxStart = 2
    MaxEvent = 0
SPECIFICATION Spec
INVARIANTS
    DialogueKept
CHECK_DEADLOCK FALSE
