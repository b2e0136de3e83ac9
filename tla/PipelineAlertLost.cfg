\* A crash between the analysis and its alert.
CONSTANTS
    a1 = a1 d1 = d1
    LastVersion = 2
    MaxAttempts = 2
    DiffSlots = {d1}
    AnalyzeSlots = {a1}
    Admins = {}
    Budgets <- OneCrash
    MaxJobs = 12
SPECIFICATION Spec
INVARIANTS FlaggedHasAlert
