CONSTANTS
  File = {f1, f2}
  Version = {v1}
  Empty = empty
  Gone = gone
  Cut = cut
  Old = {{}, {f1}}
  MaxAcks = 2
  MaxActs = 2
  Acts = {"save", "touch", "delete", "upload", "download", "list", "remove", "list_client", "peer_save", "peer_delete", "die"}
SPECIFICATION FairSpec
INVARIANT TypeOK
 
PROPERTY EchoesEnd
 
CHECK_DEADLOCK FALSE
