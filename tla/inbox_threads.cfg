SPECIFICATION Spec
CONSTANTS
    Tids = {t1, t2}
    Urls = {}
    Callers = {c1, c2}
    Run = run
    Overlap = TRUE
    TornWrites = TRUE
    TemplateFallback = FALSE
    MaxCards = 1
    MaxCalls = 3
    MaxFaults = 1
SYMMETRY InboxSymmetry
INVARIANTS MarkedWasSelected RepeatsAreExplained
