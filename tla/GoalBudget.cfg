SPECIFICATION Spec
CONSTANTS
  r1 = r1
  r2 = r2
  r3 = r3
  u1 = u1
  u2 = u2
  Messages = {m1, m2}
  Reservations = {r1, r2, r3}
  UnitOf <- MCUnitOf
  Criteria = {c1}
  Keys = {}
  Budgets <- MCBudgets
  Limits = {1}
  Elapsed = {}
  Costs = {1}
  MaxRevision = 2
  MaxTickets = 2
  MaxRuns = 1
  None = None
  Unknown = Unknown
INVARIANTS CumulativeLimit
CHECK_DEADLOCK FALSE
