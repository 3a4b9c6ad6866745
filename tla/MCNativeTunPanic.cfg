SPECIFICATION Spec
CONSTANTS
  Closers = {k1}
  BatchSize = 2
  RingCap = 2
  MaxArrivals = 3
INVARIANT CloseDoesNotPanic
CHECK_DEADLOCK FALSE
