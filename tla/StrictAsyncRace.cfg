CONSTANTS
  SampleCount = 4
  MaxRequiredSamples = 2
  MaxConcurrent = 2
  PendingQueueSize = 1
  GenerationCanFail = FALSE
  JudgeWorkerCount = 1
  RawQueueSize = 1
  ScoredQueueSize = 1
  FailPolicy = "stop"
  JudgeCanFail = FALSE
  RequiredSamples = 2
  SyncStep = 1
  TestFreq = 2
  ResumeVersion = 0
  TargetGroupCount = 2
  MaxVersion = 4
SPECIFICATION Spec
CHECK_DEADLOCK FALSE
INVARIANTS SyncFindsWindowReady
