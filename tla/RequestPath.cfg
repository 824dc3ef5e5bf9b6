SPECIFICATION FairSpec
CONSTANTS
  create = create  retry = retry  other = other
  A = A  B = B  k1 = k1  k2 = k2  None = None
  Conns = {c1, c2}
  Requests <- ThreeRequests
  Routes <- RoutesOf
  Tenant <- TenantOf
  Header <- HeaderOf
  CacheSize = 1
  MaxFaults = 1
INVARIANTS OwnTenant PoolIsClean SuccessIsCommitted ForksOnlyWhenOverlapping
PROPERTY EveryRequestAnswered
CHECK_DEADLOCK FALSE
