SPECIFICATION Spec
CONSTANTS
  Core = {0, 1}
  Channel = {0, 1}
  NoTransfer = NoTransfer
  NumberRange = 4
  MaxNumber = 6
INVARIANT MutualExclusion
