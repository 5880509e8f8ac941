CONSTANTS
  Host = {h1, h2, h3}
  NoHost = noHost
  Primary = primary
  Backup = {b1, b2}
  Nobody = nobody
  MaxSessions = 6
  MaxActs = 6
  MaxHasty = 1
SPECIFICATION FairSpec
INVARIANT TypeOK
INVARIANT ServedIsListed
INVARIANT BackupsKnowDevices
PROPERTY OwnSlotFreed
PROPERTY Reattached
CHECK_DEADLOCK FALSE
