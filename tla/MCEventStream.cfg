CONSTANTS
  Client = {c1, c2}
  QueueSize = 3
  MaxBatch = 4
  MaxItems = 9
SPECIFICATION LoopSpec
INVARIANT QueueIsNewestWindow
PROPERTIES ImplementsLossyFeed ImplementsEventStream
