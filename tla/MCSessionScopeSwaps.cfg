SPECIFICATION ScopeSpec
CONSTANTS
  NoPane = none
  Panes = {p1, p2}
  Movers = {t1}
  MaxMoves = 1
INVARIANTS
  EveryMoveIsTold
CHECK_DEADLOCK FALSE
