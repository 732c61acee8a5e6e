CONSTANTS
  Requests = {r1, r2, r3}
  Threshold = 2
  WindowSize = 3
  ErrorsInWindow = 2
  Probes = 1
  MaxRetries = 1
  incomplete = incomplete
  parse_error = parse_error
  QualityKinds <- MCQualityKinds
  QualityRetries <- MCQualityRetries
SPECIFICATION FairSpec
CHECK_DEADLOCK FALSE
INVARIANTS TypeOK TripsInTime NoSlotIsLost
PROPERTIES KeepsAdmitting
