SPECIFICATION FairSpec
CONSTANTS
  page = page
  Surfaces = {page}
  IngressCapacity = 2
  OutputCapacity = 1
  RouteCapacity = 2
  MaxEvents = 3
CHECK_DEADLOCK FALSE
INVARIANTS
  OpenRouteIsHeld
  KilledSurfaceIsCleared
  EventsInOrder
PROPERTIES
  EndIsTold
