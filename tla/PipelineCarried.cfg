\* Two differs, requests and outages, under fair scheduling.
CONSTANTS
    a1 = a1 d1 = d1 d2 = d2 r1 = r1
    LastVersion = 2
    MaxAttempts = 2
    DiffSlots = {d1, d2}
    AnalyzeSlots = {a1}
    Admins = {r1}
    Budgets <- Working
    MaxJobs = 12
SPECIFICATION FairSpec
INVARIANTS TypeOK PendingIsCarried FlaggedHasAlert
PROPERTIES EveryReleaseSettles
