SPECIFICATION FairSpec
CONSTANTS
  Terminals = {t1}
  Faults = {"drop"}
  MaxFaults = 1
PROPERTIES
  BrokenStreamReconnects
