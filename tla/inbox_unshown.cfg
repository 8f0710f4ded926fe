SPECIFICATION Spec
CONSTANTS
    Tids = {t1, t2, t3, t4}
    Urls = {}
    Callers = {c1}
    Run = run
    Overlap = FALSE
    TornWrites = FALSE
    TemplateFallback = TRUE
    MaxCards = 3
    MaxCalls = 1
    MaxFaults = 0
INVARIANT MarkedWasShown
