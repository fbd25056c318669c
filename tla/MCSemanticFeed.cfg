CONSTANTS
  gateway = gateway
  server = server
  studio = studio
  Proc = {gateway, server, studio}
  NoProc = NoProc
  Marks <- MCMarks
  Parent <- MCParent
  Listener = {studio}
  QueueSize = 4
  MaxBatch = 3
  MaxChanges = 2
  MaxFaults = 1
SPECIFICATION SemFairSpec
INVARIANTS SemTypeOK ClientAgrees
PROPERTY EngineSettles
