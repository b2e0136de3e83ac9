SPECIFICATION Spec
CONSTANTS
    Home = "w1"
    Other = "w2"
    Jobs = {1}
    MaxActs = 1
    MaxTabs = 0
INVARIANT SwitchRefetches
CHECK_DEADLOCK FALSE
