CONSTANTS
  Host = {h1, h2}
  NoHost = noHost
  Primary = primary
  Backup = {b1}
  Nobody = nobody
  MaxSessions = 4
  MaxActs = 5
  MaxHasty = 0
SPECIFICATION FairSpec
PROPERTY ReconnectsToAll
CHECK_DEADLOCK FALSE
