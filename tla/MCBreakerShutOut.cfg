CONSTANTS
  NumBuckets = 2
  BucketDur = 2
  Callers = {c1, c2}
  Cooldown = 2
  MinSamples = 5
  ThresholdNum = 1
  ThresholdDen = 2
  Benign = {"disconnect", "no_done"}
  MaxClock = 8
  MaxResults = 6
SPECIFICATION Spec
INVARIANT HealthyReplicaHasProbe
