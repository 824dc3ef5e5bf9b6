SPECIFICATION FairSpec
CONSTANTS
  OrderIds = {o1}
  Requests = {r1, r2, r3, r4}
  NoRequest = NoRequest
  Operations = {"create", "confirm", "ship", "invoice", "revert"}
  NewStatuses = {"DRAFT"}
INVARIANT SagaEvidence
PROPERTIES SagaForward LedgerSpec EveryRequestAnswered
CHECK_DEADLOCK FALSE
