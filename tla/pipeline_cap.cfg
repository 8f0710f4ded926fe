SPECIFICATION Spec
CONSTANTS
    Triggers = {scheduled}
    Ingesters = {}
    NoOne = NoOne
    NoRun = NoRun
    MaxPerFetch = 3
    OverlapCount = 1
    MaxInput = 2
    DistinctIds = TRUE
    MaxItems = 3
    MaxRuns = 1
    MaxFaults = 0
    MaxEvents = 3
INVARIANT NothingVanishes
