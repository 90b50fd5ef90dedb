CONSTANTS
  r1 = r1
  r2 = r2
  NoReplica = NoReplica
  Requests = {q1, q2}
  Replicas <- MCTwo
  ReplicaOrder <- MCTwoOrder
  TierOf <- MCTwoTiers
  Tiers = {1, 2}
  ConvOf <- MCOneKey
  PrefixOf <- MCOneKey
  MaxRetries = 1
  FailureLimit = 1
  HitScore = 3
  MissScore = 2
  WarmStore = FALSE
  FloorScore = 0
SPECIFICATION Spec
PROPERTY TierNeverDecreases
