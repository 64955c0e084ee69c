SPECIFICATION Spec
CONSTANTS
  Creations = {"w", "t"}
  WithWorkspace = {"w"}
  MaxAttempts = 2
  MaxStarts = 1
  MaxCloses = 1
  MaxFailures = 0
CHECK_DEADLOCK FALSE
INVARIANT RetryMaySucceed
