CONSTANTS
  Mbuf = {1, 2, 3, 4, 5, 6}
  NULL = NULL
  Byte <- MCByte
  Packet <- MCPacket
  AddrLen = 1
  MSize = 1
  ClSize = 2
  HiWat = 7
  LoWat = 1
  MbMax = 14
  Word = 65536
  MaxRead = 3
  QLimit = 5
  Trigger = 4
  Fifo = 2
  Slack = 1
  Keys = {"cr", "bs", "xoff"}
  Writes <- MCWrites
  ReadLen = {2}
SPECIFICATION MCSpec
INVARIANTS NoDangling NoLeak Accounting LockReleased InputKept OutputRight
PROPERTIES ReadsFifo RecvReturns FlowResumes
