SPECIFICATION Spec
CONSTANTS
  Terminals = {t1}
  Faults = {"crash"}
  MaxFaults = 1
PROPERTIES
  ExactStatusSurvivesAdoption
