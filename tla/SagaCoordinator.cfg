SPECIFICATION FairSpec
CONSTANTS
  Sagas = {s1}
  Workers = {w1, w2}
  Polls = {p1, p2}
  InitialSteps = {"SHIP_READY"}
  Limit = 1
  NoWorker = NoWorker
  NoSaga = NoSaga
  MaxFaults = 1
  MaxMoves = 2
INVARIANT OneOwnerUnlessLate
PROPERTIES BreachEscalated StaleLockFreed
CHECK_DEADLOCK FALSE
