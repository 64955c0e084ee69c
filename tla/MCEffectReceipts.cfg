SPECIFICATION FairSpec
CONSTANTS
  Keys = {k1, k2}
  Workers = {w1, w2}
  Inputs = {i1}
  Changes = {c1}
  NoJob = NoJob
  NoPrint = NoPrint
  Capacity = 1
  PruneInterval = 2
  EventCapacity = 2
  MaxCrashes = 2
  MaxSequence = 4
INVARIANTS
  AtMostOnce
  AnswersTellTheTruth
PROPERTIES
  ForgetsOnlyOldInputs
  EveryRequestIsAnswered
  ImplementsPromise
