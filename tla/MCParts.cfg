SPECIFICATION PartsSpec
CONSTANTS
    Copies = {c1, c2}
    End = End
    AllowFailure = TRUE
    MaxStalls = 1
    Ccds = {d1, d2, d3}
    DownloadThreads = 2
    PoolProcesses = 1
    Slots = 2
    Permits = 2
    MaxPipelineFaults = 2
    ProgressCcds = {e1}
    ProgressSessions = {s1, s2, s3}
    Steps = 4
    StoredVisits = {1, 2, 3}
    Sizes = {1}
    Limit = 2
    Keep = 1
    Runs = {h1, h2}
    MaxCreated = 4
    MaxAccesses = 1
    MaxDeletionFaults = 1
    MaxManual = 1
    Viewers = {w1, w2}
    ShownVisits = {1, 2}
    CheckedStages = 2
    MaxMoves = 2
    Versions = {n1, n2, n3}
    CachedVisits = {1, 2}
    NoVersion = NoVersion
    MaxStarts = 4
    BrokerProcesses = {"p1", "p2"}
    BrokerThreads = {"t1", "t2"}
    ProcessOf <- BrokerProcess
    MaxTokens = 2
    MaxRequests = 2
    MaxTokenFaults = 1
    Requests = {"r1", "r2"}
    Commits = {k1, k2}
    NoTag = NoTag
    Watched = {"r1"}
    MaxEvents = 1
    Resolvers = {"frontend"}
    NameReaders = {"generator"}
    ButlerVisits = {1, 2}
    Differences = {2}
    ButlerRuns = {"r1", "r2"}
    Detectors = {1, 2}
    MemoryCapacity = 2
    MaxDatasets = 3
    RefCcds = {1, 2, 3, 4}
    Downloaders = 2
    SlotsPerJob = 5
    Bootstrap = 2
    Attempts = 2
    MaxErrors = 1
    TileSize = 4
    MaxLevel = 3
    TilePack = 1
    MaxEdge = 40
    MaxExtent = 13
    Threads = {"t1"}
    Collections = {1, 2}
    FirstCollections = {1}
    Types = {1, 2, 3}
    FirstTypes = {2, 3}
    Supported = {1, 3}
    SuggestionLimit = 1
    MaxQuestions = 2
    MaxOutages = 1
    Paths = {1, 2, 3, 4}
    Above <- PathsAbove
    Contents = {1, 4}
    FirstTree <- FirstCommit
    MaxEdits = 5
    SortedRuns <- Collected
    Scopes <- Collected
    DayObs <- Nights
    Texts <- QueryTexts
    PageSize = 1
    Opened <- Paged
    MaxLists = 1
INVARIANTS
    GeometryInv
    QueriesInv
    OptionsInv
    ResolutionInv
    WorktreeInv
    TokensInv
    NamesInv
    VersionsInv
    DownloadsInv
    VotesInv
    PipelineInv
    ProgressInv
    SessionInv
    UsageInv
    
CHECK_DEADLOCK FALSE
