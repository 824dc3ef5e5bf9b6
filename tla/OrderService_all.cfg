SPECIFICATION Spec
CONSTANTS
  OrderIds = {o1, o2}
  Requests = {r1, r2, r3, r4}
  NoRequest = NoRequest
  Operations = {"create", "confirm", "update", "ship", "invoice", "revert"}
  NewStatuses = {"DRAFT", "CANCELLED"}
SYMMETRY Symmetry
INVARIANTS OutboxComplete AuditReplays Inv
CHECK_DEADLOCK FALSE
