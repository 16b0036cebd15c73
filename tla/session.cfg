CONSTANTS
  Client = {c1, c2}
  DHMP_CLIENT_NODE_NUM = 3
  NULL = NULL
SPECIFICATION FairSpec
INVARIANTS ConnectionsCounted SlotsAreOwn ScanReachesNodes NoHalfOpen
PROPERTIES ClosingLeaves ConnectedCallReturns PromptInitReturns
CHECK_DEADLOCK FALSE
