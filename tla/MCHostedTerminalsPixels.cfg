SPECIFICATION Spec
CONSTANTS
  Terminals = {t1}
  Faults = {"pixels"}
  MaxFaults = 1
INVARIANTS
  EveryLiveRowIsTended
