CONSTANTS
  MaxSends = 2
  MaxDeltas = 2
  ChannelSize = 1
SPECIFICATION Spec
INVARIANT LatestResponseKept
CHECK_DEADLOCK FALSE
