\* Two crashes, so that the copies of a job the first leaves behind meet the
\* second, or one crash and a refused command or an expired hash, anywhere.
CONSTANTS
    Jobs = {j1, j2}
    NoJob = NoJob
    Slots = {s1, s2}
    Requeuers = {r1}
    MaxAttempts = 2
    MaxCrashes = 2
    MaxFaults = 1
SPECIFICATION CrashSpec
SYMMETRY Symmetry
CONSTRAINTS FewAttempts TwoFailures
INVARIANTS RecoveryTypeOK FaultsNeverDuplicate
PROPERTIES LostOnlyInWindows
