\* Progress: on chains where no polled range is empty while a later tracked
\* log exists, and with no undecodable log, every accepted log is stored.
SPECIFICATION Spec
CONSTANTS
  MaxBlock = 4
  DefaultPaginationBlockCountMin = 2
  DefaultPaginationBlockCountMax = 4
  Topics = {"Transfer", "MintPosition"}
  Seawater = Seawater
  Other = Other
  Emitters <- MCEmitters
  SeawaterAddr = Seawater
  ThirdwebAddr = Other
  LeoAddr = Other
  BadPayloadEmitters = {}
  BadPayloadTopics = {"Transfer", "MintPosition"}
  NoLog = NoLog
  MaxCrashes = 1
  CallsMayHang = FALSE
  ChainAllowed <- NoEmptyRangeBeforeALog
PROPERTY EventuallyIngested
