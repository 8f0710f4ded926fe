SPECIFICATION Spec
CONSTANTS
    Feeds = {feed}
    Web = {page, app}
    Forced = {app}
    Flaky = {page, app}
    Run = run
    Requests = {}
    MaxPerSource = 2
    OverlapCount = 1
    RecentLimit = 3
    Interval = 1
    MaxItems = 4
    MaxFlaky = 1
    MaxFaults = 1
INVARIANTS TypeOK SeenWasDelivered
PROPERTY ImplementsReader
