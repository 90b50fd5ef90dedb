CONSTANTS
  Keys = {"acme", "beta", "here", "there"}
  Burst = 1
  TokenUnits = 2
  RatePerTick = 1
  MaxClock = 3
  Conns = {c1, c2}
  Entries <- MCEntries
  Offered = {"a1", "a2", "b1", "x"}
  Hosts = {"here", "there"}
  Loopback = "here"
  Absent = "absent"
  Watched = {"acme", "here"}
SYMMETRY ConnSymmetry
SPECIFICATION GatewaySpec
INVARIANTS RetryAfterHonoured QuotaPerClient SelfCallFallsBack
PROPERTIES RefusedForOwnUse
