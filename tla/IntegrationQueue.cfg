SPECIFICATION Spec
CONSTANTS
  r1 = r1
  r2 = r2
  Procs = {p1, p2}
  Runs = {r1, r2}
  Tasks <- MCTasks
  Conflicting <- MCConflicting
  MaxHistory = 2
  MaxPauses = 1
  None = None
SYMMETRY MCSymmetry
INVARIANTS TypeOK TargetReviewed LandsOnceOnBase IntegratedLanded WorktreesKept
