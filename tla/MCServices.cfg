SPECIFICATION ServicesSpec
CONSTANTS
  Deliveries = {1, 2, 3}
  Processors = {p1, p2}
  Limit = 2
  MaxAttempts = 5
  MaxFaults = 2
  Rows = {1, 2, 3}  Listeners = {l1, l2}
  Keys = {1, 2, 3}  PageSize = 2
  Checks = {c1, c2}
  Empty = {"currency"}  Amounts <- SomeAmounts  NaN = NaN
  Tabs = {t1, t2}  Users = {alice, bob}  None = None
INVARIANTS
  SentOnce  WalkComplete DecidedAtAnInstant VerdictSound OwnDataShown
PROPERTY EveryDeliverySent
CHECK_DEADLOCK FALSE
