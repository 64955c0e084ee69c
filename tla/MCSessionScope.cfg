SPECIFICATION ScopeSpec
CONSTANTS
  NoPane = none
  Panes = {p1, p2, p3}
  Movers = {t1, t2}
  MaxMoves = 3
INVARIANTS
  MovesAreTold
PROPERTIES
  CopyConverges
CHECK_DEADLOCK FALSE
