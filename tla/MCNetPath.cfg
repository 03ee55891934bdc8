SPECIFICATION FairSpec
CONSTANTS
  Pkts = {p1, p2, p3}
  Peers = {h1, h2}
  QMax = 2
  SbMax = 1
  Sizes = {"fits", "big"}
  Frames = {"udp", "closed", "echo", "bad"}
  Room = TRUE
  TxMax = 1
INVARIANTS OwnedOnce IsrPending ResolvedNotHeld
PROPERTY Drained
