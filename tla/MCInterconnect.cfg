SPECIFICATION MCSpec
CONSTANTS
  arbcnt = 2
  burstLength = 4
  DdrDelay = 1
  Watched = {1}
  ctrlDelay = 16
  TransPerWord = 2
  Nets <- MCNets
  txFifo = 4
  rxFifo = 4
  MaxWords = 2
  NoWord = NoWord
  Credits = {2, 4}
  LEN = 5
INVARIANTS BurstsExact SlotsExact BurstsInTime WordsDelivered FlowKept
