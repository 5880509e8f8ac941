CONSTANTS
  Main = main
  Device = {d1}
  Backup = {b1, b2}
  File = {f1}
  Version = {v1}
  Sizes = {1}
  Restarted = {}
  Width = 2
  Gone = gone
  Junk = junk
  Stray = stray
  Old = old
  Free = free
  Overlaps = {"join"}
  Window = 1
  MaxChanges = 0
  MaxBeats = 0
SPECIFICATION Spec
INVARIANT RostersAgree
CHECK_DEADLOCK FALSE
