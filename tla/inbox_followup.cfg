SPECIFICATION FairSpec
CONSTANTS
    Tids = {t1}
    Urls = {u1}
    Callers = {c1}
    Run = run
    Overlap = FALSE
    TornWrites = FALSE
    TemplateFallback = TRUE
    MaxCards = 1
    MaxCalls = 2
    MaxFaults = 0
PROPERTY AckedIsBriefed
