SPECIFICATION FairSpec
CONSTANTS
  NoPeer = none
  Peers = {a}
  MaxRequests = 2
  MaxPerWindow = 1
  MaxPending = 2
  WithTui = TRUE
INVARIANTS
  ResolvedOnce
  CredentialsAreApproved
  PeersAreLimited
PROPERTIES
  RequestsEnd
CHECK_DEADLOCK FALSE
