SPECIFICATION Spec
CONSTANTS
  first = first
  second = second
  w1 = w1
  w2 = w2
  Task = {first}
  Worker = {w1, w2}
  Scope <- MCScope
  Deps <- MCDeps
  Derived = {}
  Evidence <- MCEvidence
  Visible <- MCVisible
  TTL = {2}
  MaxTasks = 2
  MaxDerived = 0
  MaxAttempts = 2
  MaxAttemptsPerTask = 2
  MaxRuntime = 3
  MaxExecutions = 4
  MaxClock = 2
  NoWorker = NoWorker
  NoRequest = NoRequest
  NoResult = NoResult
  NoKey = NoKey
  NoLease = NoLease
  Bounds <- MCBounds
  Usages <- MCUsages
  NoUsage = NoUsage
  Policies <- MCPolicies
  PriceIn = 1
  PriceOut = 1
  MaxTokens = 2
  MaxCost = 3
  BurnRate = 3
  BurnWindow = 2
  NoTask = NoTask
  NoBound = NoBound
  Kind <- MCKind
  Source <- MCSource
  LastCandidate <- One
  Energy = 1
  EnergyPolicy = "claim"
  MaxSenses = 1
  MaxIdle = 1
  ContinueOnRejection = TRUE
  MaxStarts <- MCStarts
  NoPending = NoPending
INVARIANTS ReturnsCleanly PromotionEvidence
PROPERTIES OneUnknownEffect OnlyRealLossFails
CHECK_DEADLOCK FALSE
