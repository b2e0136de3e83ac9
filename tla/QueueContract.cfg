\* Two goroutines, one administrator at a time, jobs that die and are retried.
CONSTANTS
    Jobs = {j1, j2}
    NoJob = NoJob
    Slots = {s1, s2}
    Requeuers = {r1}
    MaxAttempts = 2
SPECIFICATION FairSpec
INVARIANTS TypeOK SingleHolder AtRest UnfinishedIsReachable DeadIsListed
PROPERTIES ImplementsContract EveryJobSettles FirstRunsAreFIFO
