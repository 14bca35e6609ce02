SPECIFICATION MCSpec
CONSTANTS
  Ids = {s1, s2, s3}
  Awaited = s1
  None = None
  MaxTime = 3
  Lag = 1
  Windows <- TestWindows
  Waiters = {w1, w2}
  MaxFrame = 1
  Timeouts = {1}
INVARIANT AwaitTypeOK
INVARIANT LatestIsNewest
INVARIANT NoObservationWithoutEntry
INVARIANT NoMissedWakeup
PROPERTY AwaitReturns
CHECK_DEADLOCK FALSE
