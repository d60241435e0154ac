SPECIFICATION FairSpec
CONSTANTS
  Keys = {k1, k2}
  Values = {v1, v2}
  MaxTime = 1
  MaxCommands = 3
  MaxRewrites = 1
  MaxCrashes = 2
  None = None
INVARIANTS DeadlinesCovered 
PROPERTIES ExpiredGo
CHECK_DEADLOCK FALSE
