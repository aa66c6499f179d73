SPECIFICATION Spec
CONSTANTS
  c1 = c1
  c2 = c2
  o1 = o1
  o2 = o2
  t1 = t1
  None = None
  Calls = {c1, c2}
  Owners = {o1}
  Tasks = {t1}
  Generations = {1, 2}
  CleanupMax = 2
  Retries = 1
SYMMETRY Symmetry
INVARIANTS SpawnInv
PROPERTIES CleanupReachesOwnRun
