SPECIFICATION InetSpec
CONSTANTS
  ByteBits = 2
  AddrBytes = 4
  ShortMod = 65536
  LongMod = 1073741824
  IfKinds <- MCIfKinds
  FirstLimit = 1
  LinkLen = 20
  SaLen = 16
  ReqLen = 32
  Socks = {s1}
  Reserved = 1
  LastAuto = 2
  MaxPort = 2
  HashSize = 2
  MaxRoutes = 5
  HostAddrs <- MCHostAddrs
  Dsts <- MCHosts
  Binds <- MCBinds
  Froms <- MCFroms
  Probes <- MCHosts
INVARIANT CoveredFound
CHECK_DEADLOCK FALSE
