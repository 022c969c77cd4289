SPECIFICATION Spec
CONSTANTS
  dir = dir
  child = child
  later = later
  w1 = w1
  w2 = w2
  Task = {dir}
  Worker = {w1, w2}
  Request = {q, p}
  Result = {r, s}
  Scope <- MCScope
  Deps <- MCDeps
  Derived <- MCDerived
  Evidence <- MCEvidence
  Visible <- MCVisible
  TTL = {2}
  MaxTasks = 3
  MaxDerived = 1
  MaxAttempts = 4
  MaxAttemptsPerTask = 1
  MaxRuntime = 4
  MaxExecutions = 2
  MaxClock = 4
  NoWorker = NoWorker
  NoRequest = NoRequest
  NoResult = NoResult
  NoKey = NoKey
  NoLease = NoLease
INVARIANT ExpiredClaimReplaceable
CHECK_DEADLOCK FALSE
