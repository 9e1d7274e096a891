SPECIFICATION BucketSpec
CONSTANTS
  FirstCap = 2
  MaxPushes = 9
INVARIANT RingOK
PROPERTY IsFifo
CHECK_DEADLOCK FALSE
