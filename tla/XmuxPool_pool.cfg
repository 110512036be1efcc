SPECIFICATION PoolSpec
CONSTANTS
  Streams = {s1, s2, s3}
  Early = {}
  Conns = {c1, c2, c3}
  NoStream = NoStream
  NoConn = NoConn
  MaxConcurrency = {0, 1}
  MaxConnections = {0, 2}
  CMaxReuseTimes = {2}
  HMaxRequestTimes = {1}
  HMaxReusableSecs = {0}
  Threshold = 2
  BackoffInitial = 1
  BackoffCap = 2
  MaxClock = 0
  MaxEvents = 1
  MaxReleases = 2
  MaxRequests = 1
SYMMETRY Symmetry
INVARIANTS PoolBound UsageExact RetiredIsTornDown NoConnectionLost ReuseBound
PROPERTY TeardownSparesHolders
CHECK_DEADLOCK FALSE
