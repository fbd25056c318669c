CONSTANTS
  Gateway = {g1, g2}
  Explicit = g1
  QueueCap = 2
  MaxAgents = 3
  MaxTurns = 4
  MaxGaps = 1
SPECIFICATION HermesFairSpec
INVARIANTS HermesTypeOK RunsMatched
PROPERTY CountsSettle
