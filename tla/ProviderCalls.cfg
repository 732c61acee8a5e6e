CONSTANTS
  Workers = {w1, w2}
  Callers <- MCCallers
  MaxQueueSize = 2
  StagePriorityEnabled = TRUE
  Fingerprints <- MCFingerprints
  StageOf <- MCStageOf
  Asks <- MCAsks
  MaxRequests = 4
SPECIFICATION FairSpec
CHECK_DEADLOCK FALSE
INVARIANTS WithinCapacity NobodyOversleeps AcceptedIsHeld OneRequestPerFingerprint EntriesArePending FollowersAreHeld
PROPERTIES UrgentFirst CreateTextReturns ShutdownReturns
