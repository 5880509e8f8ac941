CONSTANTS
  N = 4
  BackupCrashes = TRUE
SPECIFICATION FairSpec
INVARIANT TypeOK
INVARIANT OnlyHighestElected
INVARIANT UnanimousElection
INVARIANT NoPacketLost
PROPERTY OrderlySuccession
PROPERTY FailoverCompletes
PROPERTY SplitBrainHeals
CHECK_DEADLOCK FALSE
