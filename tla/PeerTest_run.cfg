SPECIFICATION FairSpec
CONSTANTS
  s1 = s1
  s2 = s2
  Streams <- TwoStreams
  Durations = {0, 2}
  Limits = {0, 2}
  Buf = 2
  MaxTotal = 6
  Schemes = {"ctx", "socks", "kcp", "tls"}
  Timeout = 1
  RouteTimeout = 1
  Slack = 1
  DnsTime = 1
  AdminTime = 1
  ProbeTime = 1
CHECK_DEADLOCK FALSE
INVARIANTS
  NothingUsesAClosedNode
  MeasurementIsExact
PROPERTIES
  ImplementsTestStages
  TestEnds
