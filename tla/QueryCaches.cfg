SPECIFICATION FairSpec
CONSTANTS
    Home = "w1"
    Other = "w2"
    Jobs = {1, 2}
    MaxActs = 2
    MaxTabs = 1
INVARIANTS TypeOK  NothingFalse TabShowsItsWorkspace
PROPERTY RequestsEnd
CHECK_DEADLOCK FALSE
