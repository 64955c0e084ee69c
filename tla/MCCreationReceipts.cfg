SPECIFICATION Spec
CONSTANTS
  Creations = {"w", "t"}
  WithWorkspace = {"w"}
  MaxAttempts = 2
  MaxStarts = 3
  MaxCloses = 1
  MaxFailures = 1
CHECK_DEADLOCK FALSE
INVARIANTS
  RunsOnce
  LiveHostHasTab
  NotAppliedLeavesNothing
PROPERTIES
  ExecutionSettles
