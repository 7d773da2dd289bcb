SPECIFICATION PartsSpec
CONSTANTS
    \* Installer
    Absent = Absent
    Edited = Edited
    Ingest = Ingest
    Ports = {1, 2}
    DefaultPort = 1
    MaxEnrolls = 2
    MaxCommands = 3
    MaxFaults = 1
    Touched <- UserTouches
    \* TokenSource
    Users = {w1, w2, w3}
    MaxRuns = 3
    MaxRevoked = 2
    \* LimitRefresher
    Callers = {timer, click}
    Timer = {timer}
    LimitVendors = 2
    Cooldown = 2
    Timeout = 1
    MaxClock = 3
    \* CodexScan
    o1 = o1
    p = p
    q = q
    Owner = {o1}
    NoOwner = NoOwner
    Path = {p, q}
    Home = p
    FileId = {1, 2}
    RowText <- Appended
    Contents <- Held
    ScanRows = 2
    MaxChanges = 2
    \* CodexProvenance
    t1 = t1
    t2 = t2
    Turn = {t1, t2}
    NoTurn = NoTurn
    RowKinds <- Rows
    OwnerSource = "client"
    BatchRows = 2
    MaxTime = 2
    MaxTelemetry = 2
    MaxTroubles = 1
    \* ToolCalls
    Tool = {edit}
    Answers = {"auto", "accept"}
    NoEvent = NoEvent
    BatchEvents = 1
    MaxTurns = 1
    MaxCalls = 2
    MaxSent = 4
    MaxLives = 1
    \* SessionFigures
    Spells = {1, 2}
    MaxPoints = 2
    MaxPeriods = 2
    MaxStops = 1
    \* Calendar
    Zones <- Clocks
    FirstDates = {3, 4, 5, 6}
    Lengths = {1, 2, 3, 31, 32, 120, 121, 400, 401}
    MonthDays = 30
    \* HomeScreen
    Session = {1, 2}
    VendorOf <- AgentOf
    Starts = {0, 2}
    CallTimes = {5, 9}
    Usages <- CallUsages
    Rates <- PriceTable
    Boundary <- Cuts
    RecentLimit = 1
    ModelLimit = 1
    FirstCalls = 2
    MaxWrites = 1
    \* SessionScreen
    Databases <- SessionDatabases
    Arrivals <- LateRows
    TurnLimit = 2
    ToolLimit = 3
    TimelineLimit = 1
    MaxStores = 1
    \* SessionPages
    Listed = {1, 2, 3}
    Begins = {1, 2}
    MatchOf <- FoundBy
    PageLimit = 1
    Factor = 1
    MaxEvents = 1
    \* Decoder
    Names <- NameKinds
    VendorIn <- VendorPrefixes
    EndsIn <- TextSuffixes
    Services <- VendorOfService
    ResourceAttrs <- OfResource
    ScopeAttrs <- OfScope
    LogRecords <- Logged
    DataPoints <- Points
    MaxPayload = 2
    Budget = 3
    MaxRecords = 2
    MaxGroups = 3
    \* FileEdits
    PatchInputs <- PatchTexts
    Edits <- SomeEdits
    LineBudget = 6
    \* LineLedger
    EditedFile = {f1, f2}
    LineCounts = {0, 3}
    MaxArrivals = 5
INVARIANTS
    FilesFollowState
    WayBack
    OneExchangeEach
    EvidenceIsTrue
    QueueIsExact
    SettledIsCurrent
    CallsExact
    WindowsTile
    HomeAgrees
    ScreenAgrees
    PagesComplete
    DecodedTruly
    EditsReadTruly
    LinesReachTheirFiles
PROPERTIES
    TakesOnlyItsOwn
    FreshWhenTold
    FinalLabelSurvivesPurge
    FiguresAreTrue
\* A killed process or a part at its bounds takes no step.
CHECK_DEADLOCK FALSE
