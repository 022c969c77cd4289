SPECIFICATION MCSpec
CONSTANTS
  Worker = {w1, w2}
  RetryAfter = {2}
  Direct = TRUE
  Window = 2
  Threshold = 2
  MinSamples = 1
  Cooldown = 1
  ProbeTTL = 1
  LockWait = 1
  MaxFacts = 2
  MaxProbes = 3
  MaxClock = 2
  None = None
  Key = {k1, k2}
  Identity = {i1, i2}
  Body = {b1, b2}
  Torn = torn
  NoCall = NoCall
  MaxLines = 3
  MaxCheckpoints = 1
SYMMETRY MCSymmetry
INVARIANTS OneLiveProbe AcceptedForGood CheckpointsSeparate
PROPERTIES OnlyWonProbesRecover FreshEvidenceOnly SuspensionServed
CHECK_DEADLOCK FALSE
