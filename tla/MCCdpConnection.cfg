SPECIFICATION FairSpec
CONSTANTS
  plain = plain
  barrier = barrier
  ack = ack
  flushing = flushing
  Calls = {plain, barrier}
  Barriers = {barrier}
  Casts = {ack}
  Flushes = {flushing}
  NoCall = NoCall
CHECK_DEADLOCK FALSE
INVARIANTS
  EveryWaitIsOwed
  OutcomesAreTrue
PROPERTIES
  CallsEndWithConnection
