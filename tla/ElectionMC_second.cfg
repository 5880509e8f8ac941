CONSTANTS
  N = 2
  BackupCrashes = FALSE
SPECIFICATION FairSpec
PROPERTY MainRestored
CHECK_DEADLOCK FALSE
