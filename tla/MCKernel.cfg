SPECIFICATION MCSpec
CONSTANTS
  Page = 2
  NBuckets = 3
  BSize <- MCBSize
  KmemSize = 10
  UsageLen = 2
  Request = {1, 2, 3, 5}
  LibHeap = 8
  Header = 2
  NALLOC = 3
  LibRequests = {0, 1, 4}
  MLEN = 4
  PktHdr = 2
  MCLBYTES = 8
  LongSize = 2
  PerPage = 1
  NMbuf = 6
  NMcl = 2
  KmemCl = 4
  BYTE = 16
  Chunk = 2
  SendLens = {1, 5, 10}
  RecvLens = {6}
  AskLens = {1, 2, 5}
  MaxLen = 12
  MaxOps = 5
  Cfdatas <- MCCfdatas
  MaxDev = 7
  MaxPorts = 2
  MaxName = 5
  ByteBits = 2
  AddrBytes = 4
  ShortMod = 65536
  LongMod = 1073741824
  IfKinds <- MCIfKinds
  FirstLimit = 1
  LinkLen = 20
  SaLen = 16
  ReqLen = 32
  Socks = {s1, s2}
  Reserved = 1
  LastAuto = 2
  MaxPort = 2
  HashSize = 2
  MaxRoutes = 3
  HostAddrs <- MCHostAddrs
  Dsts <- MCDsts
  Binds <- MCBinds
  Froms <- MCFroms
  Probes <- MCProbes
SYMMETRY SockSym
INVARIANTS HeapSound LibHeapSound ChainsRight ChecksumRight DevicesRight
INVARIANTS RouteSound DatagramsRight Listed
CHECK_DEADLOCK FALSE
