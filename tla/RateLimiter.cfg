CONSTANTS
  t1 = t1
  t2 = t2
  Threads = {t1, t2}
  Burst = 1
  Rate = 2
  Scale = 3
  Timeout = 2
  Poll = 1
  MaxAttempts = 2
  BackoffBase = 1
  BackoffCap = 1
  LastStart = 3
  MaxTime = 14
SPECIFICATION PromptSpec
INVARIANTS TypeOK WindowBound TimeoutOnlyUnderContention
PROPERTY CallTerminates
CHECK_DEADLOCK FALSE
