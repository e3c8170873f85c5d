SPECIFICATION MCSpec
CONSTANTS
  corecnt = 2
  CasAddr = {0, 1}
  Data = {0, 1}
  tmcnt = 2
  TmUses <- MCUses
  NoAddr = NoAddr
  Bufsizes = {2}
  ScSize = 4
  ScBurst = 2
  ScBase = 7
  Junk = Junk
  DcBuilds <- MCBuilds
  DcSets = 1
  DcBurst = 2
  DcLines = 3
  DcHolds = {FALSE}
  Method <- MCMethod
  MethodSize <- MCSize
  McWords = 8
  McCount = 16
  McBurst = 4
  McExec = 3
  NoMethod = NoMethod
INVARIANT HardwareTypeOK WorstCaseBounds SerializableUnlessLate CommitIsolated StackKept LoadsLatest  ResidentUnlessEarly
PROPERTY AtomicSwap
CONSTRAINT MCExplored
