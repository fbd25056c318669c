CONSTANTS
  p = p
  k1 = k1
  k2 = k2
  h1 = h1
  h2 = h2
  Tcb = {h1, h2}
  Pid = {p}
  Sock = {k1, k2}
  PidOf <- OneProcess
  PeerOf <- BothEnds
  NoSock = NoSock
  QueueMax = 1
  MapMax = 1
  MaxLag = 1
  MaxOpens = 2
  MaxSends = 2
SYMMETRY Alike
SPECIFICATION Spec
INVARIANTS TypeOK EveryTransferAccounted MisattributionNeedsLoss GoneIsForgotten
PROPERTY SingleMissHarmless
