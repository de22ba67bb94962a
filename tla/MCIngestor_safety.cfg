\* Exactly-once ingestion over every chain of MaxBlock blocks, with logs that
\* fail to decode from any emitter, one exit at any point of the loop, and
\* network calls that may never return.  A hung process with no exit left
\* takes no further step, so deadlock is not an error here.
SPECIFICATION Spec
CONSTANTS
  MaxBlock = 4
  DefaultPaginationBlockCountMin = 2
  DefaultPaginationBlockCountMax = 4
  Topics = {"Transfer", "MintPosition"}
  Seawater = Seawater
  Other = Other
  Emitters <- MCEmitters
  SeawaterAddr = Seawater
  ThirdwebAddr = Other
  LeoAddr = Other
  BadPayloadEmitters <- MCEmitters
  BadPayloadTopics = {"Transfer", "MintPosition"}
  NoLog = NoLog
  MaxCrashes = 1
  CallsMayHang = TRUE
  ChainAllowed <- AnyChain
INVARIANT TypeOK
PROPERTY MirrorSpec
CHECK_DEADLOCK FALSE
