CONSTANTS
  Threads = {t1, t2}
  MaxTokens = 2
  Sizes = {1, 2, 5}
  MaxTime = 6
SPECIFICATION Spec
CHECK_DEADLOCK FALSE
INVARIANTS TakenWithinRate SleepIsBounded
