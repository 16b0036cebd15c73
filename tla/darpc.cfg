CONSTANTS
  Thread = {t1, t2, t3}
  NoOne = NoOne
  Object = {o1}
  Value = {0, 1}
  Zero = 0
  Window = 2
  Ring = 3
SPECIFICATION FairSpec
INVARIANTS WindowKept WorkIsWaitedFor NoResponseOverwritten
PROPERTIES ImplementsLog WindowOpens CallReturns
