SPECIFICATION FairSpec
CONSTANTS
    t1 = t1
    k1 = k1
    k2 = k2
    t2 = t2
    site = site
    feed = feed
    Tokens = {t1, t2, k1, k2}
    Keywords = {k1, k2}
    Urls = {site, feed}
    RssLike = {feed}
    Addresses = {t1, t2, k1, k2, site, feed}
    Workers = {w1, w2}
    Run = run
    Askers = {w1, w2, run}
    NoState = NoState
    NoGen = NoGen
    NoPatch = NoPatch
    AskFor <- MCAskFor
    PatchWith <- MCPatchWith
    Advice <- MCAdvice
    Initial <- MCInitial
    Budgets <- MCBudgets
INVARIANTS TypeOK AnalysesAreKept VersionsNameOneStrategy DeployedIsOnDisk LiveFollowsFile RunUsesOneUpdate
PROPERTIES PatchIsLocal WrittenBecomesLive
CHECK_DEADLOCK FALSE
