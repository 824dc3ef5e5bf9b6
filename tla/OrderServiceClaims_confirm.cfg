SPECIFICATION Spec
CONSTANTS
  OrderIds = {o1}
  Requests = {r1, r2, r3}
  NoRequest = NoRequest
  Operations = {"create", "confirm"}
  NewStatuses = {"CONFIRMED"}
INVARIANTS ConfirmedOnce
CHECK_DEADLOCK FALSE
