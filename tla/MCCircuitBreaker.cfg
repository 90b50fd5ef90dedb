CONSTANTS
  NumBuckets = 2
  BucketDur = 2
  Callers = {c1, c2}
  Cooldown = 2
  MinSamples = 2
  ThresholdNum = 1
  ThresholdDen = 2
  Benign = {"disconnect", "no_done"}
  MaxClock = 7
  MaxResults = 4
SYMMETRY CallerSymmetry
SPECIFICATION Spec
INVARIANT CooldownRespected
INVARIANT SingleProbe
INVARIANT RecentResultsCounted
INVARIANT OldResultsForgotten
PROPERTY TripNeedsFreshEvidence
PROPERTY WedgeIsPermanent
PROPERTY ImplementsAbstractBreaker
