SPECIFICATION Spec
CONSTANTS
  Candidates = {c1, c2}
  Units = {u1, u2}
  Attempts = {a1, a2}
  Swarms = {s1}
  Lanes = {d1, d2}
  Notes = {n1}
  Profiles <- MCProfiles
  SwarmCharges = {2}
  Outcomes <- MCOutcomes
  Ends = {"failed", "succeeded"}
  Limits = {4}
  ResourceLimits = {4}
  Requests = {1}
  Usages = {1}
  MaxActive = 2
  MaxWaves = 1
  MaxTasks = 4
  None = None
  Unknown = Unknown
SYMMETRY Symmetric
INVARIANTS TypeOK PredecessorUnique RepairAuthorized RescueReconciled ReservationsExact
CHECK_DEADLOCK FALSE
