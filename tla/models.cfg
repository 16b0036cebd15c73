CONSTANTS
  c1 = c1  c2 = c2  t1 = t1  t2 = t2  t3 = t3  o1 = o1  o2 = o2  l1 = l1  l2 = l2  l3 = l3
  Client = {c1, c2}
  Thread = {t1, t2, t3}
  ClientOf <- MCClientOf
  Object = {o1, o2}
  OwnerOf <- MCOwnerOf
  Line = {l1, l2, l3}
  ObjectOf <- MCObjectOf
  FirstLine <- MCFirstLine
  Programs <- MCPrograms
  Value = {0, 1}
  Zero = 0
  NULL = NULL
  accessnum = 4
  Tailwind_log_size = 2
  Count = 2
SPECIFICATION FairSpec
INVARIANTS FlagIsOwn LogReadable
PROPERTIES EveryModelReturns SendIsDurable ImplementsRemoteObjects
CHECK_DEADLOCK FALSE
