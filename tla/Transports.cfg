\* Connections, with losses of what they use.
SPECIFICATION Spec
CONSTANTS
  Socks = {k1, k2}
  Readers = {g1, g2}
  NoSock = NoSock
  MaxSockFaults = 2
  MaxPings = 2
  MaxGen = 6
  MaxTurnFaults = 1
  MaxPeerFaults = 3
  MaxFailCount = 2
  MaxUdpCalls = 4
  Flows = {f1, f2}
  Objects = {o1, o2}
  NoObject = NoObject
PROPERTIES ConnLive ServerLive PeerStops  BridgesEnd
CHECK_DEADLOCK FALSE
