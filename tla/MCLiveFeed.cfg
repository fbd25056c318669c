CONSTANTS
  Proc = {1, 2}
  Client = {c1}
  QueueSize = 2
  MaxEventBatch = 2
  MaxOpened = 1
  MaxTicks = 3
  MaxSide = 2
  NoTopology = NoTopology
SPECIFICATION Spec
INVARIANTS TypeOK DamageConfined
PROPERTY ClientsConverge
