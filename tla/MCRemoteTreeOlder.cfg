\* A disagreement: the mailbox of the client overflows at its second event;
\* a refresh from before the recovery is delivered after it.
SPECIFICATION TreeSpec
CONSTANTS
  MailCapacity = 9
  LocalCapacity = 1
  BackgroundRetries = 1
  LayoutRetries = 1
  MaxChanges = 3
  MaxMutations = 0
  MaxFailures = 0
  MaxInputs = 0
  MaxExtras = 0
CHECK_DEADLOCK FALSE
INVARIANT QuietTreeIsTrue
