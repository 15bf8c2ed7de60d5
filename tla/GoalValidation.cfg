SPECIFICATION Spec
CONSTANTS
  r1 = r1
  r2 = r2
  r3 = r3
  u1 = u1
  u2 = u2
  Messages = {m1, m2}
  Reservations = {r1}
  UnitOf <- MCUnitOf
  Criteria = {c1}
  Keys = {k1, k2}
  Budgets <- MCBudgets
  Limits = {2, 3}
  Elapsed = {}
  Costs = {1}
  MaxRevision = 2
  MaxTickets = 0
  MaxRuns = 3
  None = None
  Unknown = Unknown
SYMMETRY ValidationSymmetry
INVARIANTS ValidationBalanced PassedNeverRerun
CHECK_DEADLOCK FALSE
