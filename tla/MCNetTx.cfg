SPECIFICATION FairSpec
CONSTANTS
  MaxSize = 136
  MUX_MAX_PACKETS = 3
  Lens <- MCLens
  RingCap = 2
  MaxPackets = 4
  MaxOpens = 2
INVARIANT TypeOK
INVARIANT CountersMatch
INVARIANT EstimateFits
INVARIANT FlushFits
INVARIANT SameUplink
INVARIANT SameDownlink
PROPERTY LossOnlyAtDeadline
PROPERTY StoppedWakes
PROPERTY UplinkChannel
CHECK_DEADLOCK FALSE
