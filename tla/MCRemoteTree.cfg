\* The subscription overflows at its second event, the mailbox of the client
\* at its third.  Two changes, and two of: a change this client asks for, a
\* request that fails, a key that finds the copy stale.
SPECIFICATION TreeSpec
CONSTANTS
  MailCapacity = 1
  LocalCapacity = 2
  BackgroundRetries = 1
  LayoutRetries = 1
  MaxChanges = 2
  MaxMutations = 1
  MaxFailures = 2
  MaxInputs = 1
  MaxExtras = 2
CHECK_DEADLOCK FALSE
INVARIANTS
  QuietScreenIsTrue
PROPERTIES
  ShownTreeNeverGoesBack
