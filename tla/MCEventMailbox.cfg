SPECIFICATION FairSpec
CONSTANTS
  Surfaces = {s1, s2}
  Capacity = 3
  MaxSequence = 5
INVARIANTS
  DrainedViewIsTrue
  NobodySleepsOnNews
PROPERTIES
  ImplementsStream
  EventsAreDelivered
CHECK_DEADLOCK FALSE
