SPECIFICATION FairSpec
CONSTANTS
    Names <- AllNames
    Flights = {1, 2}
    FailedLimit = 2
    MaxTyped = 2
    MaxSubmits = 2
    MaxLosses = 1
INVARIANTS TypeOK  TypedIsKept  LockoutHolds
PROPERTY FormRecovers
CHECK_DEADLOCK FALSE
