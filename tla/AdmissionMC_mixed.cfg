CONSTANTS
  Client = {c1, c2}
  Backup = {}
SPECIFICATION Spec
INVARIANT EverySessionOfOneClient
CHECK_DEADLOCK FALSE
