CONSTANTS
  Main = main
  Device = {d1, d2}
  Backup = {b1, b2}
  File = {f1}
  Version = {v1}
  Sizes = {1, 3}
  Restarted = {b1}
  Width = 2
  Gone = gone
  Junk = junk
  Stray = stray
  Old = old
  Free = free
  Overlaps = {}
  Window = 1
  MaxChanges = 2
  MaxBeats = 1
SPECIFICATION FairSpec
INVARIANT TypeOK
INVARIANT BackupsAgree
INVARIANT DevicesAgree
INVARIANT RostersAgree
PROPERTY TransferEnds
CHECK_DEADLOCK FALSE
