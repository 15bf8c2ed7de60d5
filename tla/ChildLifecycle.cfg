SPECIFICATION Spec
CONSTANTS
  MaxCrashes = 1
  MaxFaults = 1
  MaxProductions = 1
  MaxHandovers = 1
  MaxSiblings = 1
  None = None
INVARIANTS TypeOK StopDurable TeardownQuiet NoOverlap
PROPERTIES ImplementsTable ExpiredEnds
CHECK_DEADLOCK FALSE
