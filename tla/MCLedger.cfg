CONSTANTS
    own = own
    other = other
    ghost = ghost
    shelf = shelf
    inbox = inbox
    kept = kept
    report = report
    Proc = {p1, p2}
    Project = {own, other, ghost}
    Registered = {own, other}
    Place = {shelf, inbox}
    Downloads = {inbox}
    Bytes = {kept, new}
    Document = {report}
    Commands <- MCCommands
    Disks <- MCDisks
    None = None
    MaxCommand = 3
    MaxEdit = 1
    MaxFault = 1
SPECIFICATION Spec
SYMMETRY Symmetry
INVARIANTS
    TypeOK
    WholeWhenFree
    MembersAreOwned
    DownloadsIntakeOnly
    MirrorFaithful
    SupersessionShown
    CheckExact
PROPERTIES
    BookSpec
CHECK_DEADLOCK FALSE
