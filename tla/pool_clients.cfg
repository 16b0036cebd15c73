CONSTANTS
  c1 = c1  c2 = c2  t1 = t1  t2 = t2
  Client = {c1, c2}
  Thread = {t1, t2}
  ClientOf <- TwoClientsOf
  NodeId <- BothNodes
  Info = {i1}
  Addr = {a1, a2}
  Value = {v0, v1}
  Zero = v0
  NULL = NULL
  Size = {1, 3}
  SINGLE_AREA_SIZE = 2
  RegMayFail = TRUE
SPECIFICATION FairSpec
INVARIANTS WriteFlagMeansInFlight PointersAreGood
PROPERTIES PoolWhileBooksBalance ErrorsAreContained
CONSTRAINT UsedBound
CHECK_DEADLOCK FALSE
