SPECIFICATION ThreadFairSpec
CONSTANTS
  Worker = {1}
  MaxThreads = 2
PROPERTIES CreateEnds
CHECK_DEADLOCK FALSE
