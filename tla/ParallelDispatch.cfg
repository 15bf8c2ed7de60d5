SPECIFICATION Spec
CONSTANTS
  a = a
  b = b
  c = c
  None = None
  Units <- MCUnits
  Deps <- MCDeps
  Conflicts = {}
  MaxActive = 5
  Routes = {"luna-fabric", "sol-serial"}
  MaxWorkers = 2
  MaxMishaps = 1
SYMMETRY Siblings
CHECK_DEADLOCK FALSE
INVARIANTS TypeOK BasesCurrent ArtifactsKept PromotionWhole
