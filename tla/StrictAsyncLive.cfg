CONSTANTS
  SampleCount = 5
  MaxRequiredSamples = 2
  MaxConcurrent = 2
  PendingQueueSize = 1
  GenerationCanFail = TRUE
  JudgeWorkerCount = 2
  RawQueueSize = 1
  ScoredQueueSize = 1
  FailPolicy = "stop"
  JudgeCanFail = TRUE
  RequiredSamples = 2
  SyncStep = 1
  TestFreq = 3
  ResumeVersion = 0
  TargetGroupCount = 2
  MaxVersion = 4
SPECIFICATION FairSpec
CHECK_DEADLOCK FALSE
INVARIANTS AdmissionNeverRefused OnlyMarkIsLate OnlyRemainderIsLost ProcessorSurvives
PROPERTIES Terminates
