SPECIFICATION FairSpec
CONSTANTS
  TxRing = 2
  RxRing = 2
  Wrap = 4
  QMax = 2
INVARIANT RingsExact
PROPERTY FramesMove
CHECK_DEADLOCK FALSE
