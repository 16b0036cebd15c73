CONSTANTS
  Client = {c1}
  DHMP_CLIENT_NODE_NUM = 3
  NULL = NULL
SPECIFICATION FairSpec
PROPERTY DestroyReturns
CHECK_DEADLOCK FALSE
