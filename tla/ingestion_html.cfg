SPECIFICATION Spec
CONSTANTS
    Feeds = {}
    Web = {page}
    Forced = {}
    Flaky = {}
    Run = run
    Requests = {}
    MaxPerSource = 2
    OverlapCount = 1
    RecentLimit = 3
    Interval = 1
    MaxItems = 2
    MaxFlaky = 2
    MaxFaults = 0
PROPERTY PagesDoNotRepeat
