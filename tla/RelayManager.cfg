SPECIFICATION ManagerSpec
CONSTANTS
  r1 = r1
  r2 = r2
  Relays = {r1, r2}
  Callers = {"api", "manager", "health"}
  HighWater = 1
  LowWater = 1
  DemoteAt = 1
  OpenAt = 2
  UptimeK = 0
  StaticRelays <- FirstRelay
  K = 1
  MaxOutages = 1
  MaxCalls = 1
INVARIANTS AtMostK
PROPERTIES OpenIsDropped
