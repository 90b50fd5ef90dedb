CONSTANTS
  MaxSends = 2
  MaxDeltas = 2
  ChannelSize = 1
SPECIFICATION Spec
INVARIANTS TurnsIntact NothingLeaks
PROPERTIES EscEndsStream
CHECK_DEADLOCK FALSE
