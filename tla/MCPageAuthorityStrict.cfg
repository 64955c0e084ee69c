SPECIFICATION PageSpec
CONSTANTS
  MaxViews = 2
  MaxPaints = 1
  MaxFrames = 1
  Commands = {"navigate", "reload", "resize"}
  MaxCommands = 1
  MaxTimeouts = 0
  Attempts = 2
  ResizeRetries = 0
CHECK_DEADLOCK FALSE
\* Each is violated; TLC stops at the first it meets, so keep one at a time.
INVARIANT PointerIsForItsPixels
INVARIANT CaptureBelongsToDocument
INVARIANT QuietPageIsClickable
