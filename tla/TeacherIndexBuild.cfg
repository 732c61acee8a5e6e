CONSTANTS
  a = a
  b = b
  c = c
  Dataset <- MCDataset
  BatchSize = 2
  Teachers = {t1, t2}
  Counts = {1, 2}
  Fragile = {}
  MaxBuilds = 3
  MaxKills = 1
SPECIFICATION Spec
CHECK_DEADLOCK FALSE
INVARIANTS ExitZeroServesTraining InterruptedBuildResumes OneTeacherPerIndex
