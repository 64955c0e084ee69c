SPECIFICATION Spec
CONSTANTS
  anna = anna
  bert = bert
  drag = drag
  Screens <- OneScreen
  Clients = {anna}
  Keys = {drag}
  UndoLimit = 2
  MaxPanes = 2
  MaxTabs = 4
  MaxRevision = 4
CHECK_DEADLOCK FALSE
INVARIANTS
  RevisionClosesWhatItShowed
