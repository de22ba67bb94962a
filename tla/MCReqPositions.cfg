\* Three requests cut into batches of 1 or 2 for a pool of 3 or 2 workers;
\* one key's item may fail, whole calls may fail or never return, the node
\* may leave an item out of its reply, and the caller's context has a
\* deadline.  After reqPositions returns, its
\* goroutines block for ever (that is the code's final state), so deadlock
\* is not an error here.
SPECIFICATION Spec
CONSTANTS
  k1 = k1
  k2 = k2
  k3 = k3
  Keys <- MCKeys
  MinBatchLimit = 1
  MaxBatchLimit = 3
  WorkerCount = 2
  FailingKeys = {k3}
  CallsMayFail = TRUE
  CallsMayHang = TRUE
  NodeFaults = {"drop"}
  CtxKind = "deadline"
INVARIANT TypeOK
INVARIANT BatchesCoverReqs
PROPERTY FetchSpec
CHECK_DEADLOCK FALSE
