\* The mailbox of the client overflows at its second event, so that three
\* changes make it overflow again while the first overflow is made good; one
\* request may fail.  The subscription overflows at its second event too.
SPECIFICATION FairTreeSpec
CONSTANTS
  MailCapacity = 1
  LocalCapacity = 1
  BackgroundRetries = 0
  LayoutRetries = 0
  MaxChanges = 3
  MaxMutations = 0
  MaxFailures = 1
  MaxInputs = 0
  MaxExtras = 1
CHECK_DEADLOCK FALSE
PROPERTIES
  BarrierIsLowered
