SPECIFICATION Spec
CONSTANTS
  Event = {ev}
  Endpoint = {e1, e2}
  Worker = {w1, w2}
  None = none
  Attempts = 2
  MaxStalls = 1
  MaxSecret = 1
  MaxMishaps = 2
SYMMETRY Symmetry
INVARIANTS IInv SuccessMeansReceived FailedNeverReceived PostsBounded StalePostsBounded EveryoneQueued EndedIsSettled
CHECK_DEADLOCK FALSE
