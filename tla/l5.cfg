CONSTANTS
  c1 = c1  c2 = c2
  Client = {c1, c2}
  Node <- TwoNodes
  Value = {v0, v1}
  Zero = v0
  NULL = NULL
  Length = 8
SPECIFICATION FairSpec
INVARIANTS HandledIsPending NoRingLost
PROPERTIES ImplementsRemoteCell EveryL5Returns
CHECK_DEADLOCK FALSE
