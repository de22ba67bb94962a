\* A node whose batch reply repeats one item's id in place of another's,
\* everything else reliable; the coordinator counts results and does not
\* match them to the requests.
SPECIFICATION Spec
CONSTANTS
  k1 = k1
  k2 = k2
  k3 = k3
  Keys <- MCKeys
  MinBatchLimit = 1
  MaxBatchLimit = 3
  WorkerCount = 2
  FailingKeys = {}
  CallsMayFail = FALSE
  CallsMayHang = FALSE
  NodeFaults = {"repeat"}
  CtxKind = "deadline"
INVARIANT ResultExact
CHECK_DEADLOCK FALSE
