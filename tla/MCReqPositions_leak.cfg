\* Goroutine leak: after reqPositions returns, its workers are never all
\* stopped; the same three requests, batches, failures and cancellation
\* as MCReqPositions.cfg.  After reqPositions returns its goroutines block
\* for ever, so deadlock is not an error here.
SPECIFICATION Spec
CONSTANTS
  k1 = k1
  k2 = k2
  k3 = k3
  Keys <- MCKeys
  MinBatchLimit = 1
  MaxBatchLimit = 3
  WorkerCount = 2
  FailingKeys = {k3}
  CallsMayFail = TRUE
  CallsMayHang = FALSE
  NodeFaults = {}
  CtxKind = "cancel"
CHECK_DEADLOCK FALSE
PROPERTY WorkersStop
