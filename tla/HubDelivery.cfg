SPECIFICATION MCSpec
CONSTANTS
  Asset = {a1}
  Operator = {o1, o2}
  Mirror = m
  Nobody = nobody
  Gone = gone
  NoAsset = none
  MaxPending = 2
  MaxTools = 2
  MaxChildren = 1
  MaxOutput = 2
  Runner = {r1, r2}
INVARIANTS DeliveredOnce RecordsAreTrue VerdictEarned NothingOutlives LeakRecorded TrustEarned
PROPERTIES QueueDrains EveryInvocationEnds
CHECK_DEADLOCK FALSE
