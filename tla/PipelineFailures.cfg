\* Requests, failed calls, passed deadlines, outages, crashes and restarts.
CONSTANTS
    a1 = a1 d1 = d1 r1 = r1
    LastVersion = 2
    MaxAttempts = 2
    DiffSlots = {d1}
    AnalyzeSlots = {a1}
    Admins = {r1}
    Budgets <- Failing
    MaxJobs = 8
SPECIFICATION Spec
 
PROPERTIES  CompletedStays
