CONSTANTS
  gateway = gateway
  server = server
  studio = studio
  Proc = {gateway, server, studio}
  NoProc = NoProc
  Marks <- MCMarks
  Parent <- MCParent
  Listener = {studio}
  QueueSize = 500
  MaxBatch = 3
  MaxChanges = 2
  MaxFaults = 1
SPECIFICATION SemSpec
INVARIANT RawTruthKept
