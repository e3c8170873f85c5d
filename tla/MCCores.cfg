SPECIFICATION MCSpec
CONSTANTS
  LastCore = 2
  MaxRounds = 3
  NocRounds = {2}
  Impls = {"SINGLE_NOC", "DOUBLE_NOC", "DOUBLE_NOC_WR", "TRIPLE_NOC", "MULTI_NOC_NONBLOCKING"}
  SampleWords = 2
  MaxWrites = 5
  SmpIdle = SmpIdle
  Channel = {"source", "sink"}
  NoTransfer = NoTransfer
  Other = Other
  Timeouts = TRUE
  num_buf = 3
  CountRange = 4
  Words = 2
  MaxSent = 8
  coreCnt = 3
  lckCnt = 2
INVARIANTS CoresTypeOK SameApplication RunTogether NetworkReady AtomicSample BufferNotShared ReceivedIntact FlagMeansNext NothingLost RoomIsReal WriteBufferFree OneOwner NoBypassTwice
PROPERTIES BootRoundsEnd SamplingReturns BlockingCallsEnd LockGranted
CHECK_DEADLOCK FALSE
