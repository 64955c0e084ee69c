SPECIFICATION TerminalSpec
CONSTANTS
  NoPane = none
  Panes = {p1, p2, p3}
  Movers = {t1, t2}
  MaxMoves = 2
INVARIANTS
  ScopeFollowsSurface
CHECK_DEADLOCK FALSE
