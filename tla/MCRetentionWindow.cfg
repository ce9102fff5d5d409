CONSTANTS
    main = main
    sub = sub
    Proc = {p1}
    Session = {main, sub}
    Stores <- MCStores
    NoSession = NoSession
    NoProc = NoProc
    NoFile = NoFile
    MaxDepth = 2
    MaxStart = 1
    MaxEvent = 1
SPECIFICATION Spec
PROPERTIES
    WindowKept
CHECK_DEADLOCK FALSE
