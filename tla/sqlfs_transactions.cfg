SPECIFICATION FairSpec
CONSTANTS
  Conn = {c1, c2}
  NoConn = NoConn
  MaxCalls = 3
  MaxRefusals = 2
  MaxGroups = 1
INVARIANTS TypeOK LevelCounts CommittedIsConsistent
PROPERTIES CallsAreAtomic CallsReturn
CHECK_DEADLOCK FALSE
