SPECIFICATION Spec
CONSTANTS
  c1 = c1
  c2 = c2
  c3 = c3
  Calls = {c1, c2, c3}
  Clashes <- MCClashes
  Retries <- MCRetries
  MaxCrashes = 1
  CreatorAlone = TRUE
  None = None
INVARIANTS TypeOK OneOwner CommitFenced LoadedIsCurrent
PROPERTIES TableSpec
CHECK_DEADLOCK FALSE
