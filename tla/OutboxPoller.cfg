SPECIFICATION FairSpec
CONSTANTS
  Events = {1, 2, 3}
  Poison = {1}
  Polls = {p1, p2, p3}
  Processes <- OneProcess
  Limit = 2
  MaxFaults = 2
INVARIANTS ProcessedTookEffect RedeliveryNeedsFault
PROPERTY HealthyProcessed
CHECK_DEADLOCK FALSE
