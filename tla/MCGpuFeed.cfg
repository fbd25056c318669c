CONSTANTS
  Gpu = {0, 1}
  Proc = {p1, p2}
  MaxChanges = 3
  MaxFaults = 1
SPECIFICATION Spec
INVARIANTS TypeOK UsesShown
PROPERTY EventsTrue
