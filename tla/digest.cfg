SPECIFICATION FairSpec
CONSTANTS
    a = a
    b = b
    c = c
    p = p
    q = q
    o = o
    x = x
    y = y
    z = z
    Items = {p, q, o}
    Reports = {a, b, c}
    Trusted = {c}
    Ages <- MCAges
    Readings <- MCReadings
    Plain <- MCPlain
    MaxInput = 1
    MaxRows = 2
    Similarity <- MCSimilarity
    TopK = 2
    SimilarEnough = 7
    Lookback = 1
    DedupWindow = 0
    HistoryWindow = 1
    Threshold = 6
    UndatedThreshold = 9
    MaxSignals = 2
    MaxSystemSignals = 1
    MaxTimeline = 2
    OutputKinds = {"md", "signals", "brief", "mp3"}
    Template = FALSE
    CacheLimit = 1
    Order <- MCOrder
    MaxCards = 1
    Voice = TRUE
    Stamps = {1}
    MaxAttempts = 1
    Hookers = {h1, h2}
    Subscriptions = {s1, s2}
    NoHooker = NoHooker
    Topics = {x, y, z}
    Updates <- MCUpdates
    Pushes <- MCPushes
    Batches <- MCBatches
    Budgets <- MCBudgets
INVARIANTS TypeOK LeftOutForAReason AnnouncedOnce SignalsAreInTimelines NoticeIsTheBrief MarkedReachedAChannel HistoryRowsAreWhole SubscriptionsAreKept ListedAreCalled NoUpdateIsSkipped RepeatsNeedRestarts
PROPERTIES VerdictsAreKept MessagesAreHandled
CHECK_DEADLOCK FALSE
