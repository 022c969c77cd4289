SPECIFICATION Spec
CONSTANTS
  Task = {t1, t2}
  Worker = {w1, w2}
  Request = {q1, q2, q3}
  Bounds <- MCBounds
  Usages <- MCUsages
  NoUsage = NoUsage
  Policies <- DefaultPolicies
  PriceIn = 1
  PriceOut = 1
  MaxTokens = 3
  MaxCost = 6
  BurnRate = 3
  BurnWindow = 1
  MaxAttempts = 3
  MaxAttemptsPerTask = 2
  MaxTasks = 2
  MaxRuntime = 2
  LockWait = 1
  MaxClock = 2
  NoTask = NoTask
  NoWorker = NoWorker
  NoBound = NoBound
PROPERTY UncertainBlocksTask
CHECK_DEADLOCK FALSE
