SPECIFICATION EarlySpec
CONSTANTS
  NoPeer = none
  Peers = {a, b}
  MaxRequests = 1
  MaxPerWindow = 2
  MaxPending = 2
  WithTui = TRUE
INVARIANTS
  DialogsClose
SYMMETRY Symmetry
CHECK_DEADLOCK FALSE
