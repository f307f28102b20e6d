SPECIFICATION PoolSpec
CONSTANTS
  r1 = r1
  r2 = r2
  r3 = r3
  r4 = r4
  api1 = api1
  api2 = api2
  Relays = {r1, r2, r3, r4}
  Callers = {api1, api2}
  HighWater = 2
  LowWater = 1
  DemoteAt = 1
  OpenAt = 2
  UptimeK = 1
SYMMETRY RelaySymmetry
INVARIANTS MainIsHealthy
PROPERTIES PruneReachesLow ShieldedSurvives
