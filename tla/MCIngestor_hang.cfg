\* A network call of the loop (FilterLogs or the heartbeat's GET) that
\* never returns, on the chains where EventuallyIngested otherwise holds:
\* the process hangs without exiting and no later log is stored.  A hung
\* process takes no further step, so deadlock is not an error here.
SPECIFICATION Spec
CONSTANTS
  MaxBlock = 4
  DefaultPaginationBlockCountMin = 2
  DefaultPaginationBlockCountMax = 4
  Topics = {"Transfer", "MintPosition"}
  Seawater = Seawater
  Other = Other
  Emitters <- MCEmitters
  SeawaterAddr = Seawater
  ThirdwebAddr = Other
  LeoAddr = Other
  BadPayloadEmitters = {}
  BadPayloadTopics = {"Transfer", "MintPosition"}
  NoLog = NoLog
  MaxCrashes = 1
  CallsMayHang = TRUE
  ChainAllowed <- NoEmptyRangeBeforeALog
PROPERTY EventuallyIngested
CHECK_DEADLOCK FALSE
