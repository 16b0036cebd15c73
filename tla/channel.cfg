CONSTANTS
  c1 = c1
  c2 = c2
  r1 = r1
  r2 = r2
  NoRegion = NoRegion
  Conns = {c1, c2}
  Posters = {c2}
  Closers = {c1}
  Clusters = {k0}
  First = k0
  Regions <- MCRegions
  CqSize = 2
  MaxMsgs <- MCMaxMsgs
  MaxCount = 2
SPECIFICATION FairSpec
INVARIANT NothingForgotten
PROPERTIES ImplementsRemoteStream EveryCompletionHandled
CHECK_DEADLOCK FALSE
