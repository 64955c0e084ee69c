SPECIFICATION Spec
CONSTANTS
  Creations = {"w", "t"}
  WithWorkspace = {"w"}
  MaxAttempts = 2
  MaxStarts = 2
  MaxCloses = 0
  MaxFailures = 0
CHECK_DEADLOCK FALSE
INVARIANT EveryLiveHostHasTab
