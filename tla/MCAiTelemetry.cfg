CONSTANTS
  Trace = {t1, t2, t3}
  Span = {s1}
  TraceCap = 2
  NodeCap = 2
  Old = 2
  AlivePolls = 2
  MaxEvents = 3
  MaxMoves = 2
SPECIFICATION AiFairSpec
INVARIANTS AiTypeOK DrawnExpires
PROPERTIES RunKeptWhileBusy StatusReaches RunsReach
