CONSTANTS
  a = a
  b = b
  X = X
  Y = Y
  La = La
  Lb = Lb
  Proc = {a, b}
  Conn <- AllConns
  Cap <- OneEach
  Sys = Sys
  NoPid = NoPid
  MaxTicks = 3
  MaxBehind = 1
  MaxChanges = 2
SPECIFICATION Spec
INVARIANTS TypeOK ProcessesInSync EdgesInSync NoGhostEdge PortsInSync
