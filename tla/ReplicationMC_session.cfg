CONSTANTS
  Main = main
  Device = {d1, d2}
  Backup = {}
  File = {f1, f2}
  Version = {v1}
  Sizes = {1, 2}
  Restarted = {}
  Width = 2
  Gone = gone
  Junk = junk
  Stray = stray
  Old = old
  Free = free
  Overlaps = {"session"}
  Window = 1
  MaxChanges = 2
  MaxBeats = 0
SPECIFICATION Spec
INVARIANT DevicesAgree
CHECK_DEADLOCK FALSE
