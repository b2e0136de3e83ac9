\* One differ; downloads and the provider fail.
CONSTANTS
    a1 = a1 d1 = d1
    LastVersion = 4
    MaxAttempts = 2
    DiffSlots = {d1}
    AnalyzeSlots = {a1}
    Admins = {}
    Budgets <- TwoOutages
    MaxJobs = 12
SPECIFICATION Spec
INVARIANTS CompletedWasExamined NoVersionSkipped
