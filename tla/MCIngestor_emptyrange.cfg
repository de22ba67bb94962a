\* Stall: a polled range with no tracked log never moves the checkpoint,
\* so a later accepted log is never stored.
SPECIFICATION Spec
CONSTANTS
  MaxBlock = 4
  DefaultPaginationBlockCountMin = 2
  DefaultPaginationBlockCountMax = 4
  Topics = {"Transfer", "MintPosition"}
  Seawater = Seawater
  Other = Other
  Emitters <- MCEmitters
  SeawaterAddr = Seawater
  ThirdwebAddr = Other
  LeoAddr = Other
  BadPayloadEmitters = {}
  BadPayloadTopics = {"Transfer", "MintPosition"}
  NoLog = NoLog
  MaxCrashes = 1
  CallsMayHang = FALSE
  ChainAllowed <- AnyChain
PROPERTY EventuallyIngested
