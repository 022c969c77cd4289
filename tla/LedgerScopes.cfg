SPECIFICATION Spec
CONSTANTS
  dir = dir
  child = child
  later = later
  w1 = w1
  w2 = w2
  Task = {dir, child, later}
  Worker = {w1, w2}
  Request = {}
  Result = {r}
  Scope <- MCScope
  Deps <- MCDeps
  Derived <- MCDerived
  Evidence <- MCEvidence
  Visible <- SplitVisible
  TTL = {1}
  MaxTasks = 3
  MaxDerived = 1
  MaxAttempts = 3
  MaxAttemptsPerTask = 2
  MaxRuntime = 2
  MaxExecutions = 1
  MaxClock = 2
  NoWorker = NoWorker
  NoRequest = NoRequest
  NoResult = NoResult
  NoKey = NoKey
  NoLease = NoLease
INVARIANT DependenciesFirst
PROPERTY ImplementsFencedLocks
CHECK_DEADLOCK FALSE
