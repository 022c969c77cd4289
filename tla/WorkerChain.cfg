SPECIFICATION Spec
CONSTANTS
  first = first
  second = second
  w1 = w1
  w2 = w2
  Task = {first, second}
  Worker = {w1, w2}
  Scope <- MCScope
  Deps <- MCDeps
  Derived = {}
  Evidence <- MCEvidence
  Visible <- ChainVisible
  TTL = {2}
  MaxTasks = 2
  MaxDerived = 0
  MaxAttempts = 2
  MaxAttemptsPerTask = 1
  MaxRuntime = 2
  MaxExecutions = 4
  MaxClock = 1
  NoWorker = NoWorker
  NoRequest = NoRequest
  NoResult = NoResult
  NoKey = NoKey
  NoLease = NoLease
  Bounds <- MCBounds
  Usages <- MCUsages
  NoUsage = NoUsage
  Policies <- MCPolicies
  PriceIn = 1
  PriceOut = 1
  MaxTokens = 2
  MaxCost = 3
  BurnRate = 3
  BurnWindow = 2
  NoTask = NoTask
  NoBound = NoBound
  Kind <- MCKind
  Source <- MCSource
  LastCandidate <- Two
  Energy = 1
  EnergyPolicy = "claim"
  MaxSenses = 1
  MaxIdle = 1
  ContinueOnRejection = TRUE
  MaxStarts <- ChainStarts
  NoPending = NoPending
INVARIANTS CompletedCounts
PROPERTIES EveryRunReturns
CHECK_DEADLOCK FALSE
