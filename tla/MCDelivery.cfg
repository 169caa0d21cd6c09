SPECIFICATION MCSpec
CONSTANTS
    first = first
    second = second
    Findings <- MCTwo
    Agents = {a1}
    People = {p1}
    MaxPosts = 2
    MaxIssues = 2
    Integrations = {"ready", "unset", "disabled"}
    Senders <- MCTwo
    Channels <- MCChannels
    MaxDeliveries = 2
    NONE = NONE
    Runs = {a1}
    Posts = {p1, p2}
    Reviewers <- MCTwo
    Approaches = {"patch", "upgrade"}
    ANY = ANY
    NOBODY = NOBODY
    MaxFixes = 2
    Knowledge = {"ready", "disabled"}
    Emitters <- MCTwo
    MaxEvents = 3
    ReplayLimit = 2
    SendQueueMax = 2
    Drivers <- MCTwo
    StageOrder <- MCStageOrder
    ScanStages = {"scan"}
    Jumped = {"scan"}
    MaxSteps = 2
    Assessments <- MCTwo
    Hosts = {1, 2}
    Budget = 1
    MaxOverrides = 1
    NOROW = NOROW
    Attempts <- MCTwo
    Requests = {p1}
    MaxWork = 1
    MaxReports = 3
    Sizes = {1, 4, 9}
    SystemSizes = {2, 7}
    MaxTurns = 3
    Limit = 10
    Notice = 2
    Marker = 2
    LeastTurn = 4
    ReplyKept = 5
    MaxAsks = 2
    HostNames <- MCTwo
    Addresses = {a1}
    Networks = {p1}
    Pages = {p2}
    MaxAssets = 3
    MaxReconHosts = 1
    MaxTargets = 2
    MaxObserved = 3
    NULL = NULL
    Posters <- MCTwo
    MaxSeqRetries = 3
    MaxMessages = 4
SYMMETRY Symmetry
INVARIANTS TicketsInv NotificationsInv RemediationInv SessionInv RecordsInv 
PROPERTIES SignOffStands ProgressAdvances
CHECK_DEADLOCK FALSE
