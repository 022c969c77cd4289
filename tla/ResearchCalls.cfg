SPECIFICATION MCSpec
CONSTANTS
  origin = origin
  repro = repro
  w1 = w1
  w2 = w2
  c1 = c1
  c2 = c2
  Task = {origin, repro}
  Worker = {w1, w2}
  Scope <- MCScope
  Deps <- MCDeps
  Derived = {}
  Evidence <- MCEvidence
  Visible <- MCVisible
  TTL = {1, 2}
  MaxTasks = 2
  MaxDerived = 0
  MaxAttempts = 2
  MaxAttemptsPerTask = 2
  MaxRuntime = 3
  MaxExecutions = 1
  MaxClock = 1
  NoWorker = NoWorker
  NoRequest = NoRequest
  NoResult = NoResult
  NoKey = NoKey
  NoLease = NoLease
  Bounds <- MCBounds
  Usages <- MCUsages
  NoUsage = NoUsage
  Policies <- MCPolicies
  PriceIn = 1
  PriceOut = 1
  MaxTokens = 8
  MaxCost = 9
  BurnRate = 9
  BurnWindow = 2
  NoTask = NoTask
  NoBound = NoBound
  Caller = {c1, c2}
  Host <- MCHost
  Authors = {origin}
  Outcomes <- MCOutcomes
  NoAsset = NoAsset
  Modes = {TRUE, FALSE}
  Member = {w1, w2}
  Workspace <- MCWorkspace
  Content = {p1, p2}
  TaskLimit = 1
  Fact = {f0, f1, f2, f3}
  Author <- MCAuthor
  Subject <- MCSubject
  Source <- MCSource
  Role <- MCRole
  Conclusion <- MCConclusion
  Replays = {}
  Branch = {small, large}
  Keepers <- MCKeepers
  Grounds = {r1}
  Nothing = Nothing
  MaxCalls = 3
  MaxHistory = 3
  f0 = f0
  f1 = f1
  f2 = f2
  f3 = f3
  small = small
  large = large
  Learner = {w1, w2}
  Operated = {h1}
  Completion = {1, 2}
  Rejection = rejection
  NoPair = NoPair
  MaxTime = 1
  MaxRejections = 1
INVARIANTS CompletedOnConfirmedRun BooksAgree ApprovedIndependently
INVARIANTS AdmittedOnce OnePerSource AdviceStands RewardsInOrder
CHECK_DEADLOCK FALSE
