SPECIFICATION Spec
CONSTANTS
  Polls = {p1, p2}
  Processes <- OneProcess
  Events = {1, 2}
  Poison = {}
  Limit = 2
  MaxFaults = 1
INVARIANT HandledByOnePoll
CHECK_DEADLOCK FALSE
