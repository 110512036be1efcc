SPECIFICATION DialSpec
CONSTANTS
  Streams = {s1, s2, s3}
  Early = {s1}
  Conns = {c1, c2, c3}
  NoStream = NoStream
  NoConn = NoConn
  MaxConcurrency = {1}
  MaxConnections = {0}
  CMaxReuseTimes = {0}
  HMaxRequestTimes = {0}
  HMaxReusableSecs = {1}
  Threshold = 1
  BackoffInitial = 1
  BackoffCap = 2
  MaxClock = 2
  MaxEvents = 1
  MaxReleases = 0
  MaxRequests = 0
INVARIANT WaitBounded
PROPERTY DialReturns
CHECK_DEADLOCK FALSE
