CONSTANTS
  SampleCount = 6
  MaxRequiredSamples = 2
  MaxConcurrent = 2
  PendingQueueSize = 1
  GenerationCanFail = TRUE
  JudgeWorkerCount = 2
  RawQueueSize = 1
  ScoredQueueSize = 1
  FailPolicy = "stop"
  JudgeCanFail = TRUE
  RequiredSamples = 1
  SyncStep = 2
  TestFreq = 2
  ResumeVersion = 0
  TargetGroupCount = 2
  MaxVersion = 4
SPECIFICATION Spec
CHECK_DEADLOCK FALSE
INVARIANTS TypeOK MembersAreNumbered SealedAwaitsReward StrictOnPolicy MarksAreCurrent HandedOverOnce BoundedStaleness FinalSyncFailsMidway
PROPERTIES CoordinatorImplementsWindows ImplementsOnPolicyWindows
