SPECIFICATION Spec
CONSTANTS
  anna = anna
  bert = bert
  drag = drag
  Screens <- TwoScreens
  Clients = {anna}
  Keys = {drag}
  UndoLimit = 2
  MaxPanes = 3
  MaxTabs = 3
  MaxRevision = 5
CHECK_DEADLOCK FALSE
INVARIANTS
  UndoKeepsPanes
  EveryPaneHasItsPlace
  TokenClosesWhatItShowed
