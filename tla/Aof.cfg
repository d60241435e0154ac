SPECIFICATION FairSpec
CONSTANTS
  Clients = {c1}
  Loader = loader
  MaxDb = 1
  SockCap = 4
  MaxPushes = 2
  Plans <- MCPlans
INVARIANTS  ForkRebuilds
PROPERTIES EventuallyLogged StartsUp
CHECK_DEADLOCK FALSE
