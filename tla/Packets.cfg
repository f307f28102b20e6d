\* A tunnel with one loss of its stream, and parts of a few objects each.
SPECIFICATION Spec
CONSTANTS
  MaxSend <- TwoAndOne
  Cap = 1
  MaxFaults = 1
  NStreams = 3
  AcceptCap = 1
  MaxStreamOps = 4
  Locals = {l1, l2}
  Sessions = {s1, s2}
  NoSession = NoSession
  MaxTcp = 1
  Ports = {1, 2}
  c1 = c1
  c2 = c2
  Conns = {c1, c2}
  PortOf <- MCPortOf
  Handlers = {h1, h2}
  MaxSyns = 4
  Bytes = {0, 246, 255}
  MaxSegment = 5
INVARIANTS TunnelSound StreamsSound SessionsKept NoStaleMarker Checksum4Verifies
PROPERTIES TunnelEnds
CHECK_DEADLOCK FALSE
