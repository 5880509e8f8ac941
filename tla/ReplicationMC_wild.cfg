CONSTANTS
  Main = main
  Device = {d1, d2}
  Backup = {b1}
  File = {f1}
  Version = {v1}
  Sizes = {1}
  Restarted = {}
  Width = 2
  Gone = gone
  Junk = junk
  Stray = stray
  Old = old
  Free = free
  Overlaps = {"session", "join", "beat"}
  Window = 1
  MaxChanges = 2
  MaxBeats = 1
SPECIFICATION Spec
INVARIANT OneSender
CHECK_DEADLOCK FALSE
