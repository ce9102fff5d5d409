CONSTANTS
    Run = {"run1", "run2"}
    Name = {"one", "two"}
    Clean = {"plain"}
    Secret = {"key"}
    MaxRun = 3
    MaxEdit = 1
    MaxCrash = 1
    Absent = Absent
    Unreadable = Unreadable
    Missing = Missing
    Rebuilt = Rebuilt
    Torn = Torn
    Whole = Whole
    None = None
    Unset = None
    Empty = Empty
    Unsaid = Unsaid
    NewLine = NewLine
    Odd = Odd
    Link = Link
    Broken = Broken
    Proc = {"p", "q"}
    NodeId = {"n", "m"}
    Text = {"t", "u"}
    Uri = {"https"}
    MaxEvent = 2
    MaxDamage = 1
    MaxBuild = 2
    MaxDoctor = 1
    Path <- Paths
    Collection = {"one", "two"}
    Data = {"x", "y"}
    Reserved = "manifest"
    Plan <- Plans
    Adder = {"p", "q", "r", "s"}
    Ext = {"md", "txt"}
    ExtOf <- Extensions
    Named = {"p"}
    Conversation = {"s", "t"}
    Objective = {"x"}
    Work = {"x", "y"}
    Project = {"here", "there"}
    Cwd = "here"
    Option = {"there"}
    MaxRecord = 3
    Decision <- Decisions
    MaxIndex = 2
    Status = {"clean", "dirty"}
    Branch = {"main"}
    Untouched = "clean"
    NonGit = "nongit"
    Firing <- Firings
    MaxHook = 2
    MaxChange = 2
    MaxKill = 1
    MaxNow = 1
    Agent = {"claude", "codex", "grok", "antigravity", "opencode"}
    Kb = {"here", "there"}
    SettingsFile <- Documents
    Key = {"theme"}
    HookEvent = {"SessionEnd", "SessionStart", "PreCompact", "Stop", "PostToolUse"}
    Matcher = {"startup|resume", None}
    Root = {"here", "there", "old", "older", "u", "v", "w"}
    MaxInstall = 3
    MaxSave = 1
    StartLog <- Journals
    NodeLine <- Puts
    RelateLine <- Joins
    RetractLine <- Cuts
    Question <- Questions
    Address = {Link}
    MaxStep = 2
    TaskGraph <- Brands
    TaskRequest <- Requests
    FallbackLimit = 2
    NeighborhoodLimit = 1
    ConstraintLimit = 1
    MinKept = 1
    HistoryFile <- Histories
    ItemFile <- Selections
    SessionEvent <- Hooked
    Asked <- AskedFor
    MaxDecisions = 4
    EvidenceNode = {1, 2, 3}
    EvidenceStart <- Evidences
    EvidenceEvent <- Growth
    EvidencePinned <- Inspections
    Contracted <- Contracts
    Draft <- Drafts
    AsOf = 2
    MinObserved = 1
    MaxAppend = 1
    WorkSession <- WorkSessions
    AgentPlan <- AgentPlans
    TailLines = 2
    Damaged = Broken
    TraceJournal <- Journeys
    SourceName = {"a", "b"}
    SourceContent <- Texts
    SearchFor <- Searches
    SeedLimit = 2
    FrontierLimit = 3
    SquareRoot <- SquareRoots
    MaxWait = 1
    MaxSourceEdit = 1
    MaxSearch = 2
    Removed = Missing
SPECIFICATION AnySpec
INVARIANTS
    ConsumedExactly
    IndexIsTrue
    ReleasedWhole
    NodeHasBytes
    ProgressInherited
    LoadKeepsDecisions
    QueryFollows
    CoveredIsGrounded
    PacketsAreTrue
    PagesShowAll
    TraceIsHonest
    SettingsKept
    ReceiptsKept
    PickupIsTrue
CHECK_DEADLOCK FALSE
