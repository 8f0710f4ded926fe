SPECIFICATION FairSpec
CONSTANTS
    Feeds = {feed, flaky}
    Web = {}
    Forced = {}
    Flaky = {flaky}
    Run = run
    Requests = {request}
    MaxPerSource = 2
    OverlapCount = 1
    RecentLimit = 2
    Interval = 1
    MaxItems = 2
    MaxFlaky = 0
    MaxFaults = 1
PROPERTY ListedIsDelivered
