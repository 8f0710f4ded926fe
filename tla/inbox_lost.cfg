SPECIFICATION Spec
CONSTANTS
    Tids = {t1, t2}
    Urls = {u1}
    Callers = {c1}
    Run = run
    Overlap = TRUE
    TornWrites = FALSE
    TemplateFallback = TRUE
    MaxCards = 2
    MaxCalls = 2
    MaxFaults = 0
INVARIANT NoLostSubmission
