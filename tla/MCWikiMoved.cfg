CONSTANTS
    a = a
    b = b
    named = named
    toB = toB
    url = url
    spelled = spelled
    outside = outside
    Proc = {p1, p2}
    Path = {a, b}
    Content <- MCContent
    Ref = {toB, url, spelled, outside}
    RefKind <- MCRefKind
    RefPath <- MCRefPath
    RefBase <- MCRefBase
    RefId <- MCRefId
    Explicit = {named}
    Absent = Absent
    Unreadable = Unreadable
    NoPath = NoPath
    NoId = NoId
    NoKey = NoKey
    Foreign = Foreign
    RelateKey <- MCRelateKey
    MaxSync = 1
    MaxEdit = 2
    MaxForeign = 1
    MaxCrash = 0
SPECIFICATION Spec
SYMMETRY Symmetry
CHECK_DEADLOCK FALSE
INVARIANTS
    PresentNotMissing
