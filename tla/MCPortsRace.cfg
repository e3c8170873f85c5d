SPECIFICATION PortSpec
CONSTANTS
  PortCore <- MCCore
  LastChan = 2
  src <- MCsrc
  sink <- MCsink
  port_type <- MCport_type
  Spm <- MCSpm
INVARIANT FirstMessageKept
CHECK_DEADLOCK FALSE
