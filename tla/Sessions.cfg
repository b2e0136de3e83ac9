\* Two tabs, a renewal of either, one lost answer.
SPECIFICATION FairSpec
CONSTANTS
  Tabs = {t1, t2}
  Slots = {a}
  MaxIssued = 2
  MaxTimed = 1
  MaxLost = 1
  Https = TRUE
INVARIANTS
  TypeOK
  
PROPERTIES
  
  DeadSessionEnds
CHECK_DEADLOCK FALSE
