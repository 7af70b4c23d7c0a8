SPECIFICATION Spec
CHECK_DEADLOCK FALSE
CONSTANTS
    Services = {"directories"}
    None = None
    Artifacts = {"a1", "a2"}
    Reports = {"r1"}
    Downloaders = {"u1", "u2"}
    Askers = {"u1"}
    Roles <- MCRoles
    Backend = "s3"
    Retention = 1
    MaxEntries = 1
    ExportHorizon = 1
    MaxStoreFaults = 1
    MaxDownloads = 1
    MaxRestarts = 1
    AppKeys = {"k1"}
    Operators = {"ann"}
    ApiToken = "api"
    PlatformRoles = {"viewer", "admin"}
    Asks = {"q1", "q2"}
    TokenTtl = 1
    AuditDays = 0
    RegistryHorizon = 1
    MaxChanges = 2
    MaxRegistryFaults = 1
    People = {"p1", "p2"}
    Reader = "p1"
    Listed = {"history", "messages", "conversations", "turns"}
    RowIds = {1, 2, 3}
    Writers = {"w1", "w2"}
    WriterOf <- MCWriterOf
    PageLimit = 1
    MaxConversations = 2
    Excluded = {"phase"}
    ListHorizon = 2
    Viewers = {"u1", "u2"}
    TraceOwner = "u1"
    Observable <- MCObservable
    Environment = "dev"
    DebugTraceEnabled = TRUE
    TraceRetention = 2
    PhaseNames = {"parsing"}
    MaxOps = 2
    MaxPhases = 2
    MaxTraceFaults = 1
    TraceHorizon = 2
    MaxDuring = 1
    Script <- MCScript
    PageMarks <- MCPageMarks
    DigitsOf <- MCDigitsOf
    LongDigits = 3
    MaxFrameChars = 4
    MaxTotalChars = 36
    ThinkingEnabled = TRUE
    WaitTicks = 1
    NarrationHorizon = 4
    Factories = {"f1", "f2"}
    DirReaders = {"d1", "d2"}
    Bindings <- MCBindings
    Inquiries <- MCInquiries
    Entities = {1, 2}
    InitialRows = 2
    DirTtl = 1
    LinePage = 1
    MaxLinePages = 2
    MaxDirRows = 4
    MaxEdits = 1
    MaxDirFaults = 1
    MaxStops = 1
    DirHorizon = 1
    Plants = {1, 2, 3}
    UsageFacts <- MCUsageFacts
    Inquiry <- MCInquiry
    CategoryRows <- MCCategoryRows
    DefaultCategories <- MCDefaultCategories
    MaxDimensionRows = 1
    UserPageSize = 1
    UserPageMax = 1
    UsageBefore <- MCUsageBefore
    Enrolled = {2, 3}
    Matching = {2, 3}
    MaxMetered = 2
    MaxRenames = 2
INVARIANTS
    OthersNeverTear
