CONSTANTS
  Main = main
  Device = {d1}
  Backup = {b1}
  File = {f1}
  Version = {v1}
  Sizes = {1, 2}
  Restarted = {}
  Width = 2
  Gone = gone
  Junk = junk
  Stray = stray
  Old = old
  Free = free
  Overlaps = {"beat"}
  Window = 1
  MaxChanges = 1
  MaxBeats = 1
SPECIFICATION Spec
INVARIANT BackupsAgree
CHECK_DEADLOCK FALSE
