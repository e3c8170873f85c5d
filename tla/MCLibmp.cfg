SPECIFICATION MCSpec
CONSTANTS
  Core = {0, 1}
  Channel = {0, 1}
  NoTransfer = NoTransfer
  NumberRange = 8
  MaxNumber = 6
  PortCore <- MCCore
  LastChan = 2
  src <- MCsrc
  sink <- MCsink
  port_type <- MCport_type
  Spm <- MCSpm
  Worker = {1, 2}
  MaxThreads = 2
INVARIANTS LibmpTypeOK MutualExclusion BarriersHold Connected JoinGetsResult
PROPERTIES ServedInTicketOrder ImplementsFairLock PortsConnect ThreadsEnd
CHECK_DEADLOCK FALSE
