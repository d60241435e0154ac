SPECIFICATION Spec
CONSTANTS
  Clients = {c1}
  Loader = loader
  MaxDb = 0
  SockCap = 4
  MaxPushes = 2
  Plans <- OneRewrite
INVARIANTS ReplayRebuilds
CHECK_DEADLOCK FALSE
