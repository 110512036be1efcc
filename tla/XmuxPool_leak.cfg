SPECIFICATION PoolSpec
CONSTANTS
  Streams = {s1, s2}
  Early = {}
  Conns = {c1, c2}
  NoStream = NoStream
  NoConn = NoConn
  MaxConcurrency = {1}
  MaxConnections = {0}
  CMaxReuseTimes = {1}
  HMaxRequestTimes = {0}
  HMaxReusableSecs = {0}
  Threshold = 2
  BackoffInitial = 1
  BackoffCap = 2
  MaxClock = 0
  MaxEvents = 1
  MaxReleases = 1
  MaxRequests = 1
SYMMETRY Symmetry
INVARIANTS RetiredIsDisconnected
CHECK_DEADLOCK FALSE
