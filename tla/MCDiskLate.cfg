SPECIFICATION Spec
CONSTANTS
  BlkSz = 2
  NBlk = 3
  MaxIo = 2
  MaxBlks = 2
  CntMod = 2
  MaxPrd = 3
  Lens = {4}
  MaxCalls = 2
INVARIANT OldDataKept
CHECK_DEADLOCK FALSE
