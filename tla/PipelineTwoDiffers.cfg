\* Two differs, nothing fails.
CONSTANTS
    a1 = a1 d1 = d1 d2 = d2
    LastVersion = 2
    MaxAttempts = 2
    DiffSlots = {d1, d2}
    AnalyzeSlots = {a1}
    Admins = {}
    Budgets <- Nothing
    MaxJobs = 12
SPECIFICATION Spec
INVARIANTS CompletedWasExamined
