SPECIFICATION RetriesSpec
CONSTANTS
  Orders = {good, bad}
  Poison = {bad}
  BatchSize = 1
  MaxAttempts = 2
  MinInterval = 2
  MaxInterval = 6
  InitialInterval = 4
  MaxFetches = 2
  MaxFaults = 3
  Ids = {i1, i2}
  Connections = {x1}
  Calls = {r1, r2}
  NoRequest = NoRequest
  Targets = {"VALIDATED", "REJECTED", "APPROVED"}
  MaxHistory = 4
  create = create  retry = retry  second = second  third = third
  A = A  k1 = k1  k2 = k2  k3 = k3  None = None
  Conns = {c1}
  Requests <- FourRequests
  Routes <- RoutesOf
  Tenant <- TenantOf
  Header <- HeaderOf
  CacheSize = 2
  MaxKeyFaults = 1
INVARIANTS Conservation HistoryChain NoStatusSkipped KeyRunsOnce
PROPERTIES QueueDrains BacksOff EveryCallAnswered
CHECK_DEADLOCK FALSE
