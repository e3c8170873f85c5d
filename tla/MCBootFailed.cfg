SPECIFICATION BootFairSpec
CONSTANTS
  LastCore = 2
  MaxRounds = 3
  NocRounds = {2}
PROPERTY FailedDownloadEnds
CHECK_DEADLOCK FALSE
