\* What main does: context.Background() and httpPost without a timeout,
\* against a node that may never answer a call.  Deadlock is not an
\* error here: a hang is caught by Terminates.
SPECIFICATION Spec
CONSTANTS
  k1 = k1
  k2 = k2
  k3 = k3
  Keys <- MCKeys
  MinBatchLimit = 1
  MaxBatchLimit = 3
  WorkerCount = 2
  FailingKeys = {k3}
  CallsMayFail = TRUE
  CallsMayHang = TRUE
  NodeFaults = {}
  CtxKind = "background"
PROPERTY Terminates
CHECK_DEADLOCK FALSE
