SPECIFICATION FairSpec
CONSTANTS
    Triggers = {scheduled, api}
    Ingesters = {ingest}
    NoOne = NoOne
    NoRun = NoRun
    MaxPerFetch = 2
    OverlapCount = 1
    MaxInput = 3
    DistinctIds = TRUE
    MaxItems = 2
    MaxRuns = 2
    MaxFaults = 2
    MaxEvents = 3
CHECK_DEADLOCK FALSE
INVARIANTS TypeOK NothingVanishes DanglingIsExplained LatestAgrees
PROPERTIES HistoryGrows LatestMovesForward EveryRunEnds
