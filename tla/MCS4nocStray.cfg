INIT S4Init
NEXT S4Next
CONSTANTS
  Nets <- MCSouth
  txFifo = 4
  rxFifo = 4
  MaxWords = 1
  NoWord = NoWord
INVARIANT OneReceiver
