\* Poison log: a foreign contract's MintPosition log (a Seawater-scoped
\* topic, so its emitter check would skip it) that fails to decode ends
\* every iteration before its emitter is checked, so the accepted logs
\* after it are never stored.  Only that topic may carry a bad payload, so
\* the undecodable log is one the emitter check would have skipped.
SPECIFICATION Spec
CONSTANTS
  MaxBlock = 4
  DefaultPaginationBlockCountMin = 2
  DefaultPaginationBlockCountMax = 4
  Topics = {"Transfer", "MintPosition"}
  Seawater = Seawater
  Other = Other
  Emitters <- MCEmitters
  SeawaterAddr = Seawater
  ThirdwebAddr = Other
  LeoAddr = Other
  BadPayloadEmitters = {Other}
  BadPayloadTopics = {"MintPosition"}
  NoLog = NoLog
  MaxCrashes = 1
  CallsMayHang = FALSE
  ChainAllowed <- NoEmptyRangeBeforeALog
PROPERTY EventuallyIngested
