SPECIFICATION FairSpec
CONSTANTS
  Terminals = {t1}
  Faults = {"crash", "kill", "drop", "connect", "launch", "setup", "pixels", "attach",
            "giveup"}
  MaxFaults = 3
INVARIANTS
  StatusIsKept
  LiveHostIsDiscoverable
  LiveRowIsTended
PROPERTIES
  ImplementsLifecycle
  ExitIsRecorded
  CloseEndsShell
