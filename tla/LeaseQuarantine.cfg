SPECIFICATION Spec
CONSTANTS
  c1 = c1
  c2 = c2
  c3 = c3
  Calls = {c1, c2, c3}
  Clashes <- MCClashes
  Retries <- MCRetries
  MaxCrashes = 0
  CreatorAlone = TRUE
  None = None
INVARIANTS QuarantineTemporary
CHECK_DEADLOCK FALSE
