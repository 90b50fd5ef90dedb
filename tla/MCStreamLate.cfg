CONSTANTS
  Bodies <- MCBodies
  MaxFragment = 3
  StallTimeout = 4
  TickFloor = 4
  Deadline = 12
  MaxClock = 12
SPECIFICATION Spec
INVARIANT DetectedWithinQuarter
CHECK_DEADLOCK FALSE
