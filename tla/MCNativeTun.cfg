SPECIFICATION FairSpec
CONSTANTS
  Closers = {k1, k2}
  BatchSize = 2
  RingCap = 1
  MaxArrivals = 3
INVARIANTS TypeOK NoUseAfterEnd NoPacketLost ClosedMeansGone
PROPERTIES CloseReturns PacketsDelivered
\* a closed device and a crashed process stop
CHECK_DEADLOCK FALSE
