SPECIFICATION Spec
CONSTANTS
  k1 = k1
  k2 = k2
  Key <- MCKey
  Batches <- MCBatches
  Openings <- MCOpenings
  Reader = {r1, r2}
  Owner = owner
  NoThread = none
  Classes = 2
  Buckets = 2
  MaxCached = 1
  MaxVersion = 2
  MaxCalls = 2
  MaxWrites = 2
  MaxFaults = 1
INVARIANTS NoUseAfterUnmap AnswersExact NeverGrowsInPlace
PROPERTIES StatsFollowAnswers ResolveReturns
CHECK_DEADLOCK FALSE
