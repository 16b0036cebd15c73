CONSTANTS
  c1 = c1  c2 = c2  t1 = t1  t2 = t2
  Client = {c1}
  Thread = {t1, t2}
  ClientOf <- OneClientOf
  NodeId <- FirstNode
  Info = {i1, i2}
  Addr = {a1, a2}
  Value = {v0, v1}
  Zero = v0
  NULL = NULL
  Size = {2}
  SINGLE_AREA_SIZE = 2
  RegMayFail = FALSE
SPECIFICATION FairSpec
INVARIANTS
  EntriesNameLiveAreas NoAccessFault UsedSizeIsExact
PROPERTIES ImplementsRemotePool EveryCallReturns FreeReleasesArea
