CONSTANTS
  c1 = c1  c2 = c2
  Client = {c1, c2}
  Value = {v0, v1}
  Zero = v0
  NULL = NULL
  Length <- LongLength
  Registered <- TwoRegistered
SPECIFICATION Spec
INVARIANTS ReplyIsFresh ServedIsPending
CHECK_DEADLOCK FALSE
