SPECIFICATION FairPageSpec
CONSTANTS
  MaxViews = 2
  MaxPaints = 1
  MaxFrames = 1
  Commands = {"navigate", "reload", "resize"}
  MaxCommands = 1
  MaxTimeouts = 2
  Attempts = 2
  ResizeRetries = 0
CHECK_DEADLOCK FALSE
INVARIANTS
  PointerShowsDocument
PROPERTIES
  BarrierSettles
