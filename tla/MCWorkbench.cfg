SPECIFICATION FairSpec
CONSTANTS
    Actions <- MCActions
    Root = "root"
    Unset = "unset"
    Baseline = {"b"}
    Plans <- MCPlans
    Repetitions = 2
    MaxSteps = 3
    ContextLimit = 8
    Budget = 3
    MaxCalls = 2
    MaxTrials = 2
    SessionActions = {1}
    OtherActions = {9}
    Tasks = {"t1", "t2"}
    Requests = {"r1"}
    Shells = {"s1"}
    Lines = {"secret"}
    Secret = "secret"
    MaxActions = 2
    MaxJobs = 3
    MaxActive = 2
    Paths = {"d", "d/f"}
    Parent <- MCParent
    RootPath = "/"
    Contents = {"one", "two"}
    Servers = {"server1", "server2"}
    Clis = {"cli"}
    MaxProcesses = 3
    Actors = {"server", "cli"}
    Keys = {"k1", "k2"}
    Values = {"default", "other"}
    Default = "default"
    Invalid = "invalid"
    Changes <- MCChanges
    MaxLaunches = 2
    MaxUpdates = 2
    Sizes = {1, 2}
    Threshold = 2
    MaxItems = 3
    MaxChunks = 3
    MaxPublished = 6
    MaxFailed = 1
    MaxEvents = 4
    Publishers = 2
    Buffer = 2
    Batch = 2
    MaxLost = 1
ACTION_CONSTRAINT InOrder
INVARIANTS
    TypeOK
    ReplaySeesTheRecording
    OutcomeIsEvidence
    RequestsAreJustified
    DiagnosisIsGrounded
    ReadyWasReplayed
    LossesAreKnown
    EditIsRepeated
    StartupIsSafe
    RestartReadsSaved
    TimelineIsWhole
PROPERTIES
    WorkEnds
    FeedIsKept
CHECK_DEADLOCK FALSE
