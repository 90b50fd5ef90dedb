CONSTANTS
  Replicas = {r1, r2}
  FailureLimit = 3
SPECIFICATION Spec
PROPERTY RecoversAfterOutage
CHECK_DEADLOCK FALSE
