\* A disagreement: the subscription overflows at its second event and loses
\* a title; the older one stays on the screen.
SPECIFICATION TreeSpec
CONSTANTS
  MailCapacity = 1
  LocalCapacity = 3
  BackgroundRetries = 1
  LayoutRetries = 1
  MaxChanges = 3
  MaxMutations = 0
  MaxFailures = 0
  MaxInputs = 0
  MaxExtras = 0
CHECK_DEADLOCK FALSE
INVARIANT QuietTitleIsTrue
