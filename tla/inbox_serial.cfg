SPECIFICATION FairSpec
CONSTANTS
    Tids = {t1, t2}
    Urls = {u1, u2}
    Callers = {c1, c2}
    Run = run
    Overlap = FALSE
    TornWrites = FALSE
    TemplateFallback = TRUE
    MaxCards = 2
    MaxCalls = 2
    MaxFaults = 2
INVARIANTS TypeOK NoLostSubmission MarkedWasShown
PROPERTIES ImplementsStore AckedIsShown
