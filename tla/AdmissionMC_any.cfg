CONSTANTS
  Client = {c1, c2}
  Backup = {b1}
SPECIFICATION FairSpec
INVARIANT TypeOK
INVARIANT OneAccepter
 
INVARIANT SessionOfOneClient
PROPERTY Admitted
CHECK_DEADLOCK FALSE
