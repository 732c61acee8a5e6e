CONSTANTS
  g = g
  h = h
  s1 = s1
  s2 = s2
  s3 = s3
  t1 = t1
  t2 = t2
  Batch <- MCBatch
  Points <- MCPoints
  TeacherTexts = {t1, t2}
  TeacherAnswerCount = 2
  ChunkSize = 2
  MaxAttempts = 2
  Miscounted = {s1}
  MaximumScore = 2
SPECIFICATION Spec
CHECK_DEADLOCK FALSE
INVARIANTS RewardsAreJudgedPoints
