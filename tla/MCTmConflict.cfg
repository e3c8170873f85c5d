INIT TmInit
NEXT TmNext
CONSTANTS
  tmcnt = 2
  TmUses <- MCUses
  NoAddr = NoAddr
  Bufsizes = {2, 4}
INVARIANT ConflictFails
