SPECIFICATION FairSpec
CONSTANTS
  Callers = {w1, w2}
  MaxDials = 2
  NoCaller = NoCaller
  MaxResets = 1
INVARIANTS ClaimedOnce SingleFlight NoConnectionLost
PROPERTIES ImplementsSharedConn AcquireReturns
CHECK_DEADLOCK FALSE
