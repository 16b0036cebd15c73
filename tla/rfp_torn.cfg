CONSTANTS
  c1 = c1  c2 = c2
  Client = {c1}
  Value = {v0, v1}
  Zero = v0
  NULL = NULL
  Length <- ShortLength
  Registered <- OneRegistered
SPECIFICATION Spec
INVARIANT WritesLand
