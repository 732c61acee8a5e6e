CONSTANTS
  a = a
  b = b
  c = c
  Dataset <- MCDataset
  BatchSize = 2
  Teachers = {t1, t2}
  Counts = {1, 2}
  Fragile = {c}
  MaxBuilds = 2
  MaxKills = 0
SPECIFICATION Spec
CHECK_DEADLOCK FALSE
INVARIANTS InterruptedBuildResumes
