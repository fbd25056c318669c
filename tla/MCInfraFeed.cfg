SPECIFICATION FairSpec
CONSTANTS
  Item = {1, 2}
  MaxChanges = 2
  MaxFaults = 1
INVARIANTS TypeOK ClientAgrees
PROPERTIES LastGoodKept NoFakeEvent EngineConverges
CHECK_DEADLOCK TRUE
