CONSTANTS
  EpochLength = 2
  TotalEpochs = 1
  PinnedSteps = 5
  SaveFreq = 2
  MaxToKeep = 1
  MaxKills = 2
  Absent = Absent
  Torn = Torn
SPECIFICATION Spec
CHECK_DEADLOCK FALSE
INVARIANTS TrackedCheckpointIsWhole
