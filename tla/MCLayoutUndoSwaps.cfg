SPECIFICATION Spec
CONSTANTS
  anna = anna
  bert = bert
  drag = drag
  Screens <- TwoScreens
  Clients = {anna}
  Keys = {drag}
  UndoLimit = 2
  MaxPanes = 2
  MaxTabs = 2
  MaxRevision = 4
CHECK_DEADLOCK FALSE
INVARIANTS
  PanesAreOnOneScreen
