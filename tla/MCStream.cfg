CONSTANTS
  Bodies <- MCBodies
  MaxFragment = 3
  StallTimeout = 4
  TickFloor = 2
  Deadline = 7
  MaxClock = 8
SPECIFICATION Spec
INVARIANTS FragmentsDoNotMatter ByteIdentical StallDetected JustVerdict VerdictStands
PROPERTY AttemptEnds
CHECK_DEADLOCK FALSE
